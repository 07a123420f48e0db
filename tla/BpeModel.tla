------------------------------- MODULE BpeModel -------------------------------
(***************************************************************************)
(* The BPE model (src/models/bpe/bpe_impl.cpp) and its merge table         *)
(* (serialization.cpp): how a vocabulary and a list of merges become a     *)
(* table and a list again, and how a word becomes tokens.                  *)
(*                                                                         *)
(* Texts and tokens are sequences of characters.  A model is a record      *)
(* [vocab, merges, opts]; vocab maps tokens to ids one to one.  merge_all  *)
(* is taken by what it computes (WordMerge implements BpeReference), and   *)
(* the cache by what it promises (BpeCache).  Dropout is "none", "all"     *)
(* (p = 1) or "bad" (outside 0..1); 0 < p < 1 is in WordMerge.             *)
(***************************************************************************)
EXTENDS Integers, Sequences, FiniteSets, FiniteSetsExt, SequencesExt

CONSTANTS None,    \* an unset optional
          Utf8     \* [characters of texts -> the sequence of their bytes]

\* A character is written as one byte or more.
ASSUME Utf8Assumption == \A c \in DOMAIN Utf8 : Utf8[c] \in Seq(ToSet(Utf8[c])) \ {<<>>}

\* An unset id is none.
ASSUME NoneAssumption == None \notin Nat

OrEmpty(s) == IF s = None THEN <<>> ELSE s

Sum(seq) == FoldLeft(+, 0, seq)

Bytes(text) == Sum([k \in DOMAIN text |-> Len(Utf8[text[k]])])

-------------------------------------------------------------------------------
(* Merge tables *)

\* Mutant: the parts are joined in the wrong order.
MergedTextSwapped(mr) == mr[2] \o mr[1]

\* The merged token is a + b: no prefix is stripped from b.
MergedText(mr) == mr[1] \o mr[2]

\* A merge <<a, b>> counts if both parts and the merged token are in the vocabulary.
Usable(vocab, mr) == {mr[1], mr[2], MergedText(mr)} \subseteq DOMAIN vocab

PairOf(vocab, mr) == <<vocab[mr[1]], vocab[mr[2]]>>

AllSkipped(vocab, list) == list # <<>> /\ \A k \in DOMAIN list : ~Usable(vocab, list[k])

\* convert_merges_to_hashmap: the rank is the index in the list, and a pair that
\* is listed twice keeps the later one.
MergeMap(vocab, list) ==
    LET used    == {k \in DOMAIN list : Usable(vocab, list[k])}
        last(p) == Max({k \in used : PairOf(vocab, list[k]) = p})
    IN [p \in {PairOf(vocab, list[k]) : k \in used} |->
          [rank |-> last(p) - 1, id |-> vocab[MergedText(list[last(p)])]]]

Ids(vocab) == {vocab[t] : t \in DOMAIN vocab}

\* vocab_r
TokenOf(vocab, id) == CHOOSE t \in DOMAIN vocab : vocab[t] = id

\* Mutant: in the order of the ids.
ListedBeforeById(model, p, q) == p[1] < q[1] \/ (p[1] = q[1] /\ p[2] < q[2])

ListedBefore(model, p, q) == model.merges[p].rank < model.merges[q].rank

\* BPE::merges_list: the pairs whose ids are in the vocabulary, by rank.
MergesList(model) ==
    LET known     == {p \in DOMAIN model.merges : {p[1], p[2]} \subseteq Ids(model.vocab)}
        before(p) == {q \in known : ListedBefore(model, q, p)}
        listed(k) == CHOOSE p \in known : Cardinality(before(p)) = k - 1
    IN [k \in 1..Cardinality(known) |->
          <<TokenOf(model.vocab, listed(k)[1]), TokenOf(model.vocab, listed(k)[2])>>]

-------------------------------------------------------------------------------
(* Words *)

Symbol(id, len) == [id |-> id, len |-> len]

\* What the k-th character is looked up as.
Key(opts, text, k) ==
    (IF k > 1 THEN OrEmpty(opts.prefix) ELSE <<>>) \o <<text[k]>>
      \o (IF k = Len(text) THEN OrEmpty(opts.suffix) ELSE <<>>)

ByteToken(b) == <<"<", b, ">">>

IdOr(vocab, token, else) == IF token \in DOMAIN vocab THEN vocab[token] ELSE else

UnkId(model) == IdOr(model.vocab, model.opts.unk, None)

\* One symbol per byte: its token, or else the unknown token (None: neither).
ByteSymbols(model, c) ==
    [j \in DOMAIN Utf8[c] |-> Symbol(IdOr(model.vocab, ByteToken(Utf8[c][j]), UnkId(model)), 1)]

\* What a character without a token of its own is written as.
Unknown(model, c) ==
    IF model.opts.fallback THEN ByteSymbols(model, c)
    ELSE <<Symbol(UnkId(model), Len(Utf8[c]))>>

\* Mutant: a known character does not end a run of unknown ones.
EndsInUnkAlways(model, known, before) == ~known \/ before

\* last_was_unk: bytes written by byte_fallback do not count.
EndsInUnk(model, known, before) == ~known /\ ~model.opts.fallback

\* One character.  With fuse_unk an unknown one right after another is added to
\* the symbol of that one (extend_last).
AddCharacter(model, text, acc, k) ==
    LET key   == Key(model.opts, text, k)
        width == Len(Utf8[text[k]])
        known == key \in DOMAIN model.vocab
    IN [syms |-> CASE known -> Append(acc.syms, Symbol(model.vocab[key], width))
                   [] ~known /\ ~model.opts.fallback /\ model.opts.fuse /\ acc.unk ->
                        [acc.syms EXCEPT ![Len(acc.syms)].len = @ + width]
                   [] OTHER -> acc.syms \o Unknown(model, text[k]),
        unk  |-> EndsInUnk(model, known, acc.unk)]

\* merge_word's loop over the characters.
Expand(model, text) ==
    FoldLeft(LAMBDA acc, k : AddCharacter(model, text, acc, k),
             [syms |-> <<>>, unk |-> FALSE], [k \in DOMAIN text |-> k]).syms

\* merge_word returns an error if a character has no token to stand for it.
Incomplete(syms) == \E k \in DOMAIN syms : syms[k].id = None

Fails(model, text) == Incomplete(Expand(model, text))

\* The pair of lowest rank, the leftmost of that rank, becomes one symbol.
MergeOnce(syms, merges) ==
    LET pair(i) == <<syms[i].id, syms[i + 1].id>>
        points  == {i \in 1..(Len(syms) - 1) : pair(i) \in DOMAIN merges}
        first   == CHOOSE i \in points : \A j \in points :
                      \/ merges[pair(i)].rank < merges[pair(j)].rank
                      \/ merges[pair(i)].rank = merges[pair(j)].rank /\ i <= j
    IN IF points = {} THEN syms
       ELSE SubSeq(syms, 1, first - 1)
              \o <<Symbol(merges[pair(first)].id, syms[first].len + syms[first + 1].len)>>
              \o SubSeq(syms, first + 2, Len(syms))

\* merge_all: as many merges as there can be; none with dropout p = 1.
MergeAll(model, syms) ==
    IF model.opts.dropout = "all" THEN syms
    ELSE FoldLeft(LAMBDA s, k : MergeOnce(s, model.merges), syms, [k \in DOMAIN syms |-> k])

\* word_to_tokens, with the offsets of Word::offsets.
WordToTokens(model, syms) ==
    [k \in DOMAIN syms |->
       LET first == Sum([j \in 1..(k - 1) |-> syms[j].len])
       IN [id |-> syms[k].id, value |-> TokenOf(model.vocab, syms[k].id),
           first |-> first, last |-> first + syms[k].len]]

Whole(model, text) ==
    [id |-> model.vocab[text], value |-> text, first |-> 0, last |-> Bytes(text)]

\* BPE::tokenize
Tokenize(model, text) ==
    LET syms == Expand(model, text)
    IN IF text = <<>> THEN <<>>
       ELSE IF model.opts.ignore /\ text \in DOMAIN model.vocab THEN <<Whole(model, text)>>
       ELSE IF Incomplete(syms) THEN <<>>
       ELSE WordToTokens(model, MergeAll(model, syms))
===============================================================================
