------------------------------- MODULE Tokenizer -------------------------------
(***************************************************************************)
(* The life of a tokenizer (src/core/tokenizer.cpp, builder.cpp): it gets  *)
(* a model from a builder, which may be used again, or from a trainer, is  *)
(* saved and loaded, and encodes batches of texts and decodes them.        *)
(*                                                                         *)
(* A text is the sequence of the pieces the pre-tokenizer cuts it into     *)
(* (EncodeOne has the way there), with the space a ByteLevel inserts; a    *)
(* ByteLevel also writes each piece in the characters of its byte table.   *)
(* The spans of tokens count the bytes of the pre-tokens; EncodeOne        *)
(* follows them back to the original text.                                 *)
(* A call that returns an error and changes nothing is not a step.         *)
(***************************************************************************)
EXTENDS TokenizerFile, Selections

CONSTANTS Starts,     \* [builder, tok: as the setters leave them, files: as they lie on disk]
          Inputs,     \* arguments of vocab_and_merges
          Trained,    \* what a trainer may write into a model
          RowOptions, \* arguments of set_truncation and set_padding
          Batches,    \* arguments of encode_batch
          ByteChar    \* [bytes -> the character that stands for each], as in ByteText

-------------------------------------------------------------------------------
(* Models, and what a program is given.  A vocabulary has one id per token and *)
(* one token per id, as the table vocab_r presupposes.                         *)

IsVocab(v) == \A t \in DOMAIN v : v[t] \in Nat /\ \A u \in DOMAIN v : v[u] = v[t] => u = t

IsList(list) == list \in Seq(ToSet(list))

IsModel(m) ==
    /\ DOMAIN m = {"vocab", "merges", "opts"}
    /\ IsVocab(m.vocab)
    /\ IsFiniteSet(DOMAIN m.merges) /\ DOMAIN m.merges \subseteq Nat \X Nat
    /\ \A p \in DOMAIN m.merges : m.merges[p].rank \in Nat
    /\ DOMAIN m.opts = DOMAIN NoOptions /\ m.opts.dropout # "bad"

Stripped(t, prefix) ==
    IF IsPrefix(prefix, t) THEN SubSeq(t, Len(prefix) + 1, Len(t)) ELSE t

\* The token a merge makes: a + b, or a + b without its prefix if it was trained.
Joined(m, p) ==
    LET a == TokenOf(m.vocab, p[1])
        b == TokenOf(m.vocab, p[2])
    IN {a \o b, a \o Stripped(b, OrEmpty(m.opts.prefix))}

\* The merges join tokens of the vocabulary into tokens of it, each with a rank of its own.
IsSound(m) ==
    \A p \in DOMAIN m.merges :
       /\ {p[1], p[2], m.merges[p].id} \subseteq Ids(m.vocab)
       /\ TokenOf(m.vocab, m.merges[p].id) \in Joined(m, p)
       /\ \A q \in DOMAIN m.merges : m.merges[q].rank = m.merges[p].rank => p = q

IsBuilder(b) ==
    /\ DOMAIN b = {"vocab", "merges", "opts", "files"} /\ DOMAIN b.opts = DOMAIN NoOptions
    /\ b.vocab # None => IsVocab(b.vocab)
    /\ b.merges # None => IsList(b.merges)

\* Arguments of set_truncation and set_padding.
AreRowOptions(r) ==
    /\ r.trunc # None /\ r.trunc.max # None => r.trunc.max \in Nat
    /\ r.pad # None => r.pad.id \in Nat /\ (r.pad.max # None => r.pad.max \in Nat)

IsTokenizer(t) ==
    /\ DOMAIN t = DOMAIN Fresh /\ AreRowOptions(t)
    /\ t.model \notin {None, Foreign} => IsModel(t.model)

AreFiles(f) ==
    /\ DOMAIN f = {"vocab", "merges"}
    /\ f.vocab \notin {None, Torn} => IsVocab(f.vocab)
    /\ f.merges # None => IsList(f.merges)

ASSUME StartAssumption ==
    \A s \in Starts : /\ IsBuilder(s.builder) /\ IsTokenizer(s.tok) /\ AreFiles(s.files)
                      /\ s.tok.model \notin {None, Foreign} => IsSound(s.tok.model)

ASSUME InputAssumption == \A in \in Inputs : IsVocab(in.vocab) /\ IsList(in.merges)

\* BpeTrainer's VocabConsistent, and a rank for each merge.
ASSUME TrainedAssumption ==
    \A r \in Trained : LET m == [vocab |-> r.vocab, merges |-> r.merges,
                                 opts |-> [NoOptions EXCEPT !.prefix = r.prefix]]
                       IN IsModel(m) /\ IsSound(m)

\* Each byte has a character of its own (one to one, as CharOf of ByteText is).
ASSUME ByteCharAssumption ==
    \A b \in DOMAIN ByteChar :
       ByteChar[b] \in DOMAIN Utf8 /\ \A d \in DOMAIN ByteChar : ByteChar[d] = ByteChar[b] => d = b

\* What texts are made of: the byte table has their bytes.
TextChars == {c \in DOMAIN Utf8 : ToSet(Utf8[c]) \subseteq DOMAIN ByteChar}

ASSUME TextAssumption == Batches \subseteq Seq(Seq(Seq(TextChars)))

ASSUME RowAssumption == \A r \in RowOptions : AreRowOptions(r)

VARIABLES builder,   \* [vocab, merges, opts, files: paths were set]
          tok,       \* the tokenizer
          json,      \* tokenizer.json
          files,     \* [vocab, merges]: vocab.json and merges.txt
          source,    \* history: the model that json was written from
          last       \* the last answer of encode_batch or decode

vars == <<builder, tok, json, files, source, last>>

NoAnswer == [op |-> "none"]

Init ==
    /\ \E s \in Starts : builder = s.builder /\ tok = s.tok /\ files = s.files
    /\ json = None /\ source = None /\ last = NoAnswer

-------------------------------------------------------------------------------
(* BpeBuilder *)

VocabAndMerges(in) ==
    /\ builder' = [builder EXCEPT !.vocab = in.vocab, !.merges = in.merges]
    /\ last' = NoAnswer
    /\ UNCHANGED <<tok, json, files, source>>

\* build() reads the files if paths were set, whatever it was given otherwise.
VocabGiven == IF builder.files THEN files.vocab ELSE builder.vocab

ListGiven ==
    CASE builder.files /\ files.merges # None -> ReadMerges(files.merges)
      [] ~builder.files /\ builder.merges # None -> builder.merges
      [] OTHER -> <<>>

\* The vocabulary is moved out of the builder, which then holds an empty one.
Spent == [builder EXCEPT !.vocab = <<>>, !.merges = ListGiven]

EmptyIfSet(s) == IF s = None THEN None ELSE <<>>

\* Moved-from options keep their flags; a string that was set is an empty one.
SpentOptions ==
    [Spent EXCEPT !.opts.unk = EmptyIfSet(@), !.opts.prefix = EmptyIfSet(@),
                  !.opts.suffix = EmptyIfSet(@)]

CanBuild == VocabGiven \notin {None, Torn} /\ (builder.files => files.merges # None)

\* vocab.json was read and merges.txt cannot be opened.
BuildHalfRead ==
    /\ builder.files /\ files.vocab \notin {None, Torn} /\ files.merges = None
    /\ builder' = [builder EXCEPT !.vocab = files.vocab]
    /\ last' = NoAnswer
    /\ UNCHANGED <<tok, json, files, source>>

\* "all merges were skipped"
BuildSkipped ==
    /\ CanBuild /\ AllSkipped(VocabGiven, ListGiven)
    /\ builder' = Spent /\ last' = NoAnswer
    /\ UNCHANGED <<tok, json, files, source>>

Buildable == CanBuild /\ ~AllSkipped(VocabGiven, ListGiven)

\* "dropout must be in [0, 1]": checked when the builder has been emptied.
BuildRejected ==
    /\ Buildable /\ builder.opts.dropout = "bad"
    /\ builder' = SpentOptions /\ last' = NoAnswer
    /\ UNCHANGED <<tok, json, files, source>>

BuiltModel == [vocab |-> VocabGiven, merges |-> MergeMap(VocabGiven, ListGiven), opts |-> builder.opts]

\* Mutant: a dropout outside 0..1 is taken.
BuildUnchecked ==
    /\ Buildable
    /\ tok' = [tok EXCEPT !.model = BuiltModel]
    /\ builder' = SpentOptions /\ last' = NoAnswer
    /\ UNCHANGED <<json, files, source>>

\* build() and set_model.
Build ==
    /\ Buildable /\ builder.opts.dropout # "bad"
    /\ tok' = [tok EXCEPT !.model = BuiltModel]
    /\ builder' = SpentOptions /\ last' = NoAnswer
    /\ UNCHANGED <<json, files, source>>

HasBpe == tok.model \notin {None, Foreign}

\* BpeTrainer::train replaces the vocabulary, the merges and the affixes.  A trainer
\* without affixes of its own takes the model's, so r has none only if both have none.
Train(r) ==
    /\ HasBpe
    /\ r.prefix = None => tok.model.opts.prefix = None
    /\ r.suffix = None => tok.model.opts.suffix = None
    /\ tok' = [tok EXCEPT !.model.vocab = r.vocab, !.model.merges = r.merges,
                          !.model.opts.prefix = r.prefix, !.model.opts.suffix = r.suffix]
    /\ last' = NoAnswer
    /\ UNCHANGED <<builder, json, files, source>>

-------------------------------------------------------------------------------
(* Files *)

\* to_file: the result of the write is not looked at, so a torn file is "OK" too.
SaveJson ==
    /\ json' \in {Saved(tok), Torn}
    /\ source' = tok.model /\ last' = NoAnswer
    /\ UNCHANGED <<builder, tok, files>>

\* from_file
LoadJson ==
    /\ Loadable(json)
    /\ tok' = Loaded(json) /\ last' = [op |-> "load"]
    /\ UNCHANGED <<builder, json, files, source>>

\* to_vocab_merges writes vocab.json and then a merges.txt without merges; the
\* second may fail to open, and a write may stop half-way.
SavePair ==
    /\ HasBpe
    /\ \E v \in {tok.model.vocab, Torn}, m \in {<<>>, files.merges} :
          files' = [vocab |-> v, merges |-> m]
    /\ last' = NoAnswer
    /\ UNCHANGED <<builder, tok, json, source>>

-------------------------------------------------------------------------------
(* Texts *)

SetRowOptions(r) ==
    /\ tok' = [tok EXCEPT !.trunc = r.trunc, !.pad = r.pad] /\ last' = NoAnswer
    /\ UNCHANGED <<builder, json, files, source>>

\* The ByteLevels a piece goes through (in a Sequence within a Sequence none is followed).
Levels(pre) ==
    LET subs == IF pre \in {None, Foreign} THEN <<>>
                ELSE IF pre.type = "Sequence" THEN pre.subs ELSE <<pre>>
    IN {k \in DOMAIN subs : subs[k] \notin {None, Foreign} /\ subs[k].type = "ByteLevel"}

\* UTF-8
RawBytes(piece) == FlattenSeq([k \in DOMAIN piece |-> Utf8[piece[k]]])

\* encode_bytes
Mapped(piece) ==
    LET bytes == RawBytes(piece) IN [k \in DOMAIN bytes |-> ByteChar[bytes[k]]]

\* The pre-tokens of the texts of a batch: what the model is given.
PreTokenized(pre, raws) ==
    IF Levels(pre) = {} THEN raws
    ELSE [k \in DOMAIN raws |-> [j \in DOMAIN raws[k] |-> Mapped(raws[k][j])]]

\* The bytes of a text in front of its k-th pre-token.
Offset(text, k) == Sum([j \in 1..(k - 1) |-> Bytes(text[j])])

TokensOf(model, text) ==
    FlattenSeq([k \in DOMAIN text |->
                  LET found == Tokenize(model, text[k])
                  IN [i \in DOMAIN found |->
                        [found[i] EXCEPT !.first = @ + Offset(text, k),
                                         !.last  = @ + Offset(text, k)]]])

\* Encoding: the tokens, and attention_mask; the other arrays go with them.
RowOf(tokens) == [tokens |-> tokens, mask |-> [k \in DOMAIN tokens |-> 1]]

\* apply_truncation
Truncated(tokens, trunc) ==
    IF trunc = None \/ trunc.max = None \/ Len(tokens) <= trunc.max THEN tokens
    ELSE IF trunc.fromEnd THEN SubSeq(tokens, Len(tokens) - trunc.max + 1, Len(tokens))
         ELSE SubSeq(tokens, 1, trunc.max)

Row(text) ==
    IF tok.model = None THEN RowOf(<<>>)
    ELSE RowOf(Truncated(TokensOf(tok.model, text), tok.trunc))

\* Mutant: the rows are padded to the length of the first.
TargetOfFirst(rows, pad) == IF pad.max # None THEN pad.max ELSE Len(rows[1].tokens)

\* The length apply_padding aims at.
Target(rows, pad) ==
    IF pad.max # None THEN pad.max ELSE Max({0} \cup {Len(rows[k].tokens) : k \in DOMAIN rows})

PadToken(pad) == [id |-> pad.id, value |-> pad.token, first |-> 0, last |-> 0]

\* apply_padding: a row that is longer stays as it is.
Padded(rows, pad) ==
    IF pad = None THEN rows
    ELSE [k \in DOMAIN rows |->
            LET missing == 1..(Target(rows, pad) - Len(rows[k].tokens))
            IN [tokens |-> rows[k].tokens \o [j \in missing |-> PadToken(pad)],
                mask   |-> rows[k].mask \o [j \in missing |-> 0]]]

\* A second ByteLevel, which would write the characters of the first in its own, is
\* not followed.
EncodeBatch(raws) ==
    /\ tok.model # Foreign /\ Cardinality(Levels(tok.pre)) <= 1
    /\ LET texts == PreTokenized(tok.pre, raws)
       IN last' = [op |-> "encode", raws |-> raws, texts |-> texts,
                   rows |-> Padded([k \in DOMAIN texts |-> Row(texts[k])], tok.pad)]
    /\ UNCHANGED <<builder, tok, json, files, source>>

LooksSpecial(t) == t # <<>> /\ Head(t) = "<" /\ Last(t) = ">"

\* Mutant: tokens that look special are always left out.
SkipsAlways(t, skip) == LooksSpecial(t)

Skips(t, skip) == skip /\ LooksSpecial(t)

\* The tokens decode() puts together: unknown ids are left out.
Spelt(ids, skip) ==
    LET known == Pick(ids, {k \in DOMAIN ids : ids[k] \in Ids(tok.model.vocab)})
        texts == [k \in DOMAIN known |-> TokenOf(tok.model.vocab, known[k])]
    IN FlattenSeq(Pick(texts, {k \in DOMAIN texts : ~Skips(texts[k], skip)}))

\* A character becomes the byte it stands for, whether it was written for that byte
\* or not; one that stands for no byte is left as it is.
CharBytes(c) ==
    LET bytes == {b \in DOMAIN ByteChar : ByteChar[b] = c}
    IN IF bytes # {} THEN <<CHOOSE b \in bytes : TRUE>>
       ELSE IF c \in DOMAIN Utf8 THEN Utf8[c] ELSE <<c>>

\* decode_bytes
Unmapped(chars) == FlattenSeq([k \in DOMAIN chars |-> CharBytes(chars[k])])

\* decode: the only decoder is the ByteLevel one, whatever the pre-tokenizer.
Decoded(ids, skip) == Unmapped(Spelt(ids, skip))

Decode(k, skip) ==
    /\ last.op = "encode" /\ k \in DOMAIN last.rows
    /\ LET row == last.rows[k]
           ids == [i \in DOMAIN row.tokens |-> row.tokens[i].id]
       IN last' = [op |-> "decode", raw |-> last.raws[k], text |-> last.texts[k], skip |-> skip,
                   out |-> IF HasBpe /\ tok.decoder THEN Decoded(ids, skip) ELSE <<>>]
    /\ UNCHANGED <<builder, tok, json, files, source>>

Next ==
    \/ \E in \in Inputs : VocabAndMerges(in)
    \/ BuildHalfRead \/ BuildSkipped \/ BuildRejected \/ Build
    \/ \E r \in Trained : Train(r)
    \/ SaveJson \/ LoadJson \/ SavePair
    \/ \E r \in RowOptions : SetRowOptions(r)
    \/ \E raws \in Batches : EncodeBatch(raws)
    \/ \E k \in 1..2, skip \in BOOLEAN : Decode(k, skip)

Spec == Init /\ [][Next]_vars

-------------------------------------------------------------------------------
IsToken(t) == t.id \in Nat /\ t.first \in Nat /\ t.last \in Nat /\ t.first <= t.last

(***************************************************************************)
(* Types of a tokenizer's state: a model in memory passed build()'s checks,*)
(* and every token has an id and a span.                                   *)
(***************************************************************************)
TypeOK ==
    /\ IsBuilder(builder) /\ IsTokenizer(tok) /\ AreFiles(files)
    /\ last.op \in {"none", "load", "encode", "decode"}
    /\ last.op = "encode" =>
          \A k \in DOMAIN last.rows : \A i \in DOMAIN last.rows[k].tokens :
             IsToken(last.rows[k].tokens[i])

(***************************************************************************)
(* Whatever way a model came about - built, trained, loaded, from a pair   *)
(* of files of which one is older than the other, or from a builder that   *)
(* was used before - its merges join tokens of its vocabulary into tokens  *)
(* of its vocabulary, and no two have the same rank (what merge_all needs).*)
(***************************************************************************)
SoundModels == HasBpe => IsSound(tok.model)

\* No merge of the model strips a prefix.
PlainMerges(m) ==
    \A p \in DOMAIN m.merges :
       TokenOf(m.vocab, m.merges[p].id) =
          TokenOf(m.vocab, p[1]) \o TokenOf(m.vocab, p[2])

Pieces == UNION {UNION {ToSet(b[k]) : k \in DOMAIN b} : b \in Batches}

Words == Pieces \cup {Mapped(w) : w \in Pieces}

(***************************************************************************)
(* A tokenizer.json that was written to its end can be loaded and the      *)
(* loaded model gives the same tokens as the one that was saved, although  *)
(* the ranks are not the same - if it has no dropout and no merge that     *)
(* strips the continuing prefix.                                           *)
(***************************************************************************)
ReloadEncodesSame ==
    /\ json \notin {None, Torn} /\ json.model # None /\ source # Foreign
    /\ source.opts.dropout = "none" /\ PlainMerges(source)
    => /\ Loadable(json)
       /\ last.op = "load" =>
             \A w \in Words : Tokenize(tok.model, w) = Tokenize(source, w)

\* The characters of a token that are text (and not a prefix, suffix or bracket).
TextIn(value) ==
    FlattenSeq([i \in DOMAIN value |->
                  IF value[i] \in DOMAIN Utf8 THEN <<value[i]>> ELSE <<>>])

\* The tokens of a row that lie in the k-th pre-token of its text.
Within(text, tokens, k) ==
    Pick(tokens, {i \in DOMAIN tokens : /\ Offset(text, k) <= tokens[i].first
                                        /\ tokens[i].last <= Offset(text, k + 1)})

Tiles(tokens, from, to) ==
    /\ tokens[1].first = from /\ Last(tokens).last = to
    /\ \A i \in 1..(Len(tokens) - 1) : tokens[i].last = tokens[i + 1].first

\* The characters of a text that begin between two byte offsets.
Cut(text, from, to) ==
    LET chars == FlattenSeq(text)
        start(k) == Bytes(SubSeq(chars, 1, k - 1))
    IN Pick(chars, {k \in DOMAIN chars : from <= start(k) /\ start(k) < to})

\* The ids of tokens that stand for characters they do not spell.
StandIns(m) ==
    {UnkId(m)}
      \cup {m.vocab[t] : t \in {t \in DOMAIN m.vocab :
                m.opts.fallback /\ \E c \in DOMAIN Utf8 : \E b \in ToSet(Utf8[c]) : t = ByteToken(b)}}

\* The other tokens spell text: affixes are not text, and no merge joins a stand-in.
CanSpell(m) ==
    /\ \A affix \in {OrEmpty(m.opts.prefix), OrEmpty(m.opts.suffix)} :
          affix \in Seq(ToSet(affix) \ DOMAIN Utf8)
    /\ \A p \in DOMAIN m.merges : p[1] \notin StandIns(m) /\ p[2] \notin StandIns(m)

(***************************************************************************)
(* In a row nothing is lost, moved or made up: a pre-token is either left  *)
(* out as a whole, because a character of it has no token, or its tokens   *)
(* tile its bytes; and the bytes under a token spell its text, unless it   *)
(* is the unknown token or a byte token (a merge of one of those, or an    *)
(* affix that looks like text, cannot spell what it covers).               *)
(***************************************************************************)
RowsFaithful ==
    last.op = "encode" /\ HasBpe /\ tok.trunc = None =>
       \A r \in DOMAIN last.rows :
          LET text == last.texts[r]
              real == SubSeq(last.rows[r].tokens, 1, Sum(last.rows[r].mask))
          IN /\ \A k \in DOMAIN text : text[k] # <<>> =>
                   LET mine == Within(text, real, k)
                   IN IF mine = <<>> THEN Fails(tok.model, text[k])
                      ELSE Tiles(mine, Offset(text, k), Offset(text, k + 1))
             /\ \A i \in DOMAIN real :
                   CanSpell(tok.model) /\ real[i].id \notin StandIns(tok.model) =>
                      TextIn(real[i].value) = Cut(text, real[i].first, real[i].last)

(***************************************************************************)
(* The mask is 1 on exactly the tokens a text has on its own, which come   *)
(* first.  Padded to the longest, all rows of a batch are equally long.    *)
(* Padded to a fixed length, none is shorter; a row is longer only if its  *)
(* own tokens are, so that it has no padding, and truncation to that       *)
(* length or less leaves none.                                             *)
(***************************************************************************)
BatchRectangular ==
    last.op = "encode" =>
       LET own(k) == Row(last.texts[k]).tokens
           len(k) == Len(last.rows[k].tokens)
       IN \A k \in DOMAIN last.rows :
             /\ Len(last.rows[k].mask) = len(k)
             /\ \A i \in DOMAIN last.rows[k].mask :
                   last.rows[k].mask[i] = IF i <= Len(own(k)) THEN 1 ELSE 0
             /\ SubSeq(last.rows[k].tokens, 1, Len(own(k))) = own(k)
             /\ tok.pad # None /\ tok.pad.max = None =>
                   \A j \in DOMAIN last.rows : len(j) = len(k)
             /\ tok.pad # None /\ tok.pad.max # None =>
                   /\ len(k) >= tok.pad.max
                   /\ len(k) > tok.pad.max =>
                         /\ len(k) = Len(own(k))
                         /\ tok.trunc # None /\ tok.trunc.max # None => tok.pad.max < tok.trunc.max

\* The text is one the model can spell, and neither padding nor a token of the text
\* that looks special makes a difference.  Without a ByteLevel to write it in
\* byte-level characters, its characters have to be left as they are by the decoder.
Spells(text, skip) ==
    /\ HasBpe /\ tok.decoder /\ tok.trunc = None
    /\ OrEmpty(tok.model.opts.prefix) = <<>> /\ OrEmpty(tok.model.opts.suffix) = <<>>
    /\ \A c \in ToSet(FlattenSeq(text)) :
          /\ <<c>> \in DOMAIN tok.model.vocab
          /\ skip => c # "<"
          /\ Levels(tok.pre) # {} \/ CharBytes(c) = Utf8[c]
    /\ tok.pad # None /\ tok.pad.id \in Ids(tok.model.vocab) =>
          Skips(TokenOf(tok.model.vocab, tok.pad.id), skip)

(***************************************************************************)
(* decode() undoes encode_batch(), byte for byte, for a text whose         *)
(* pre-tokens are made of characters in the vocabulary of a model without  *)
(* affixes: through the byte table, merging, whole words (ignore_merges),  *)
(* padding and the loss of the token's text to its id.  Special tokens may *)
(* be skipped if the text has nothing like them.  Text that was not        *)
(* written in byte-level characters comes back only if the decoder, which  *)
(* is a ByteLevel one all the same, takes none of its characters for a     *)
(* byte: U+00E9 would become the byte E9.                                  *)
(***************************************************************************)
DecodeExact ==
    last.op = "decode" /\ Spells(last.text, last.skip) =>
       last.out = RawBytes(FlattenSeq(last.raw))
===============================================================================
