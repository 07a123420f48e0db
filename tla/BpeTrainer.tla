------------------------------ MODULE BpeTrainer ------------------------------
(***************************************************************************)
(* BpeTrainer (src/models/bpe/trainer.cpp): words are fed and counted;     *)
(* train() builds the alphabet, tokenizes and counts pairs, then merges the*)
(* most frequent pair until the vocabulary is full, and writes the result  *)
(* back to the model.                                                      *)
(*                                                                         *)
(* A token string is [pre, text, suf]: with or without the continuing-     *)
(* subword prefix, its characters, with or without the end-of-word suffix. *)
(* Token ids count from 0; idToWord is a sequence, so id is index - 1.     *)
(***************************************************************************)
EXTENDS TrainWord, Bags, TLC

CONSTANTS OptionSets,  \* the BpeTrainerOptions considered
          Models,      \* [prefix, suffix] of the models handed to train()
          Batches,     \* the bags of pre-tokens one feed() may add
          MaxFeeds,    \* bound: how often feed() is called
          MaxTrains,   \* bound: how often train() is called
          CharLen,     \* [character -> its UTF-8 length]
          Hardware,    \* std::thread::hardware_concurrency()
          HalfInt32    \* 2^31; smaller in a model to see counts narrowed

NoLimit == 1000000

\* The characters, as code points; pre-tokens are sequences of them.
Characters == DOMAIN CharLen

Token == [pre : BOOLEAN, text : Seq(Nat), suf : BOOLEAN]

\* BpeTrainerOptions.  initial is initial_alphabet, limit is limit_alphabet.
Options == [special : Seq(Token), initial : SUBSET Characters, limit : Nat, prefix : BOOLEAN,
            suffix : BOOLEAN, max_len : Nat, min_frequency : Nat, vocab_size : Nat]

ASSUME HardwareAssumption == Hardware \in Nat /\ HalfInt32 \in Nat \ {0}
ASSUME CharAssumption == Characters \subseteq Nat /\ CharLen \in [Characters -> Nat \ {0}]
ASSUME OptionAssumption == OptionSets \subseteq Options /\ \A o \in OptionSets : IsFiniteSet(o.initial)
ASSUME ModelAssumption == Models \subseteq [prefix : BOOLEAN, suffix : BOOLEAN]
ASSUME BatchAssumption ==
    \A b \in Batches : IsABag(b) /\ IsFiniteSet(DOMAIN b) /\ DOMAIN b \subseteq Seq(Characters)

VARIABLES corpus,    \* word_counts_, a bag of words
          opts,      \* opts_ (train() may set its prefix and suffix)
          idToWord,  \* id_to_word, and with it word_to_id
          words,     \* words, in the iteration order of word_counts_
          counts,    \* their counts
          texts,     \* the words' texts (a history variable: never read by an action)
          stats,     \* pair_counts: [pair -> [count, positions]]
          heap,      \* bag of TrainMerge entries [pair, count, positions]
          merges,    \* merges_out: sequence of <<pair, new id>>
          model,     \* what train() writes into the model
          status,    \* what the last train() returned
          pc, feeds, trains

loopVars == <<idToWord, words, counts, texts, stats, heap, merges>>
vars == <<corpus, opts, loopVars, model, status, pc, feeds, trains>>

Char(c) == [pre |-> FALSE, text |-> <<c>>, suf |-> FALSE]

KnownToken(toks, t) == \E k \in DOMAIN toks : toks[k] = t

\* Mutant: the id is taken after the string was pushed.
IdOfAfterPush(toks, t) == CHOOSE k \in DOMAIN toks : toks[k] = t

IdOf(toks, t) == (CHOOSE k \in DOMAIN toks : toks[k] = t) - 1
AddToken(toks, t) == IF KnownToken(toks, t) THEN toks ELSE Append(toks, t)
AddTokens(toks, list) == FoldLeft(AddToken, toks, list)

EmptyModel == [vocab |-> <<>>, merges |-> <<>>, prefix |-> FALSE, suffix |-> FALSE]

Init ==
    /\ corpus = EmptyBag
    /\ opts \in OptionSets
    /\ idToWord = <<>> /\ words = <<>> /\ counts = <<>> /\ texts = <<>>
    /\ stats = <<>> /\ heap = EmptyBag /\ merges = <<>>
    /\ model \in {[EmptyModel EXCEPT !.prefix = m.prefix, !.suffix = m.suffix] : m \in Models}
    /\ status = "none" /\ pc = "idle" /\ feeds = 0 /\ trains = 0

\* feed(): every non-empty pre-token of the batch is counted.
Feed ==
    /\ pc = "idle" /\ feeds < MaxFeeds
    /\ \E b \in Batches : corpus' = corpus (+) b
    /\ feeds' = feeds + 1
    /\ UNCHANGED <<opts, loopVars, model, status, pc, trains>>

\* train() without a corpus fails and changes nothing.
TrainEmpty ==
    /\ pc = "idle" /\ corpus = EmptyBag
    /\ status' = "FailedPrecondition"
    /\ UNCHANGED <<corpus, opts, loopVars, model, pc, feeds, trains>>

-------------------------------------------------------------------------------
(* The alphabet. *)

\* Occurrences of character c in word w.
CharsIn(w, c) == Cardinality({k \in DOMAIN w : w[k] = c})

CharCount(c) ==
    IF c \in opts.initial THEN NoLimit
    ELSE SumFunction([w \in DOMAIN corpus |-> corpus[w] * CharsIn(w, c)])

CharsSeen == (UNION {{w[k] : k \in DOMAIN w} : w \in DOMAIN corpus}) \cup opts.initial

\* By falling count, equal counts by rising code point.
MoreFrequent(c, d) ==
    CharCount(c) > CharCount(d) \/ (CharCount(c) = CharCount(d) /\ c < d)

\* The characters in this order, up to the limit.
Alphabet ==
    [k \in 1..Min({opts.limit, Cardinality(CharsSeen)}) |->
       CHOOSE c \in CharsSeen : Cardinality({d \in CharsSeen : MoreFrequent(d, c)}) = k - 1]

AlphabetTokens == LET chars == Alphabet IN [k \in DOMAIN chars |-> Char(chars[k])]

\* Mutant: characters of the alphabet are not looked up before they are added.
BaseTokensBlind == AddTokens(<<>>, opts.special) \o AlphabetTokens

\* add_special_tokens, then compute_alphabet.
BaseTokens == AddTokens(AddTokens(<<>>, opts.special), AlphabetTokens)

StartTrain ==
    /\ pc = "idle" /\ corpus # EmptyBag /\ trains < MaxTrains
    /\ opts' = [opts EXCEPT !.prefix = @ \/ model.prefix, !.suffix = @ \/ model.suffix]
    /\ idToWord' = BaseTokens
    /\ trains' = trains + 1
    /\ pc' = "tokenize"
    /\ UNCHANGED <<corpus, words, counts, texts, stats, heap, merges, model, status, feeds>>

-------------------------------------------------------------------------------
(* The words as symbols, and their pairs. *)

\* The token string of the k-th character of a word.  Words are well-formed UTF-8: of
\* other text the code takes the bytes here, but U+FFFD for the alphabet.
KeyAt(w, k) ==
    [pre |-> opts.prefix /\ k > 1, text |-> <<w[k]>>, suf |-> opts.suffix /\ k = Len(w)]

Composite(key) == key.pre \/ key.suf

\* One character: a composite string is added when unknown, a bare character that
\* limit_alphabet trimmed is dropped.
TokenizeChar(acc, w, k) ==
    LET key == KeyAt(w, k)
        new == IF Composite(key) THEN AddToken(acc.toks, key) ELSE acc.toks
    IN IF KnownToken(new, key)
       THEN [toks |-> new, syms |-> Append(acc.syms, <<IdOf(new, key), CharLen[w[k]]>>)]
       ELSE acc

TokenizeWord(toks, w) ==
    FoldLeft(LAMBDA acc, k : TokenizeChar(acc, w, k),
             [toks |-> toks, syms |-> <<>>], [k \in DOMAIN w |-> k])

AddWord(acc, w) ==
    LET r == TokenizeWord(acc.toks, w)
    IN [toks |-> r.toks, words |-> Append(acc.words, WordOf(r.syms))]

\* All words, in the order the hash map of word counts is iterated.
TokenizeAll(order) == FoldLeft(AddWord, [toks |-> idToWord, words |-> <<>>], order)

TokenizeWords ==
    /\ pc = "tokenize"
    /\ \E order \in SetToSeqs(DOMAIN corpus) :
          LET r == TokenizeAll(order)
          IN /\ idToWord' = r.toks
             /\ words' = r.words
             /\ counts' = [k \in DOMAIN order |-> corpus[order[k]]]
             /\ texts' = order
    /\ pc' = "count"
    /\ UNCHANGED <<corpus, opts, stats, heap, merges, model, status, feeds, trains>>

\* static_cast<uint64_t> of a count, an int64_t.
ToUint64(n) == n % (4 * HalfInt32 * HalfInt32)

Entry(p, st) == [pair |-> p, count |-> ToUint64(st.count), positions |-> st.positions]

\* count_pairs: slices of the words are counted and the results added up.
PairStats ==
    [p \in UNION {VectorPairs(words[k]) : k \in DOMAIN words} |->
       [count     |-> SumFunction([k \in DOMAIN words |-> counts[k] * VectorOccurrences(words[k], p)]),
        positions |-> {k \in DOMAIN words : p \in VectorPairs(words[k])}]]

\* A pair's entry goes on the heap if the pair occurs.
Entries(st, ps) == SetToBag({Entry(p, st[p]) : p \in {q \in ps : st[q].count > 0}})

CountPairs ==
    /\ pc = "count"
    /\ stats' = PairStats
    /\ heap' = Entries(PairStats, DOMAIN PairStats)
    /\ merges' = <<>>
    /\ pc' = "loop"
    /\ UNCHANGED <<corpus, opts, idToWord, words, counts, texts, model, status, feeds, trains>>

-------------------------------------------------------------------------------
(* The merge loop. *)

PairBefore(p, q) == p[1] < q[1] \/ (p[1] = q[1] /\ p[2] < q[2])

\* Mutant: the smaller count wins.
LessReversed(e, f) == e.count > f.count \/ (e.count = f.count /\ PairBefore(f.pair, e.pair))

\* TrainMerge::operator<: a larger count wins, then a smaller pair.
Less(e, f) == e.count < f.count \/ (e.count = f.count /\ PairBefore(f.pair, e.pair))

Tops == {e \in DOMAIN heap : \A f \in DOMAIN heap : ~Less(e, f)}

LoopOn == Len(idToWord) < opts.vocab_size /\ heap # EmptyBag

Stale(e) == e.count # ToUint64(stats[e.pair].count)

\* Mutant: the stale entry is not popped before the fresh one is pushed.
RefreshStaleUnpopped ==
    /\ pc = "loop" /\ LoopOn
    /\ \E e \in Tops : Stale(e) /\ heap' = heap (+) SetToBag({Entry(e.pair, stats[e.pair])})
    /\ UNCHANGED <<corpus, opts, idToWord, words, counts, texts, stats, merges,
                   model, status, pc, feeds, trains>>

\* A stale top entry is refreshed and pushed again.
RefreshStale ==
    /\ pc = "loop" /\ LoopOn
    /\ \E e \in Tops :
          /\ Stale(e)
          /\ heap' = (heap (-) SetToBag({e})) (+) SetToBag({Entry(e.pair, stats[e.pair])})
    /\ UNCHANGED <<corpus, opts, idToWord, words, counts, texts, stats, merges,
                   model, status, pc, feeds, trains>>

\* Mutant: min_frequency itself is too rare.
TooRareOffByOne(e) == e.count < 1 \/ opts.min_frequency >= e.count

TooRare(e) == e.count < 1 \/ opts.min_frequency > e.count

\* The loop ends: vocabulary full, heap empty, or the top pair too rare.
StopLoop ==
    /\ pc = "loop"
    /\ LoopOn => \E e \in Tops : ~Stale(e) /\ TooRare(e)
    /\ pc' = "write"
    /\ UNCHANGED <<corpus, opts, loopVars, model, status, feeds, trains>>

\* The string of the merged token: the second part loses its prefix.
MergedToken(p) ==
    LET a == idToWord[p[1] + 1]
        b == idToWord[p[2] + 1]
    IN [pre |-> a.pre, text |-> a.text \o b.text, suf |-> b.suf]

\* static_cast<int32_t> of a count.
ToInt32(n) == ((n + HalfInt32) % (2 * HalfInt32)) - HalfInt32

NumWorkers(items) ==
    IF items = 0 THEN 1
    ELSE Min({IF Hardware = 0 THEN 4 ELSE Min({Hardware, 16}), items})

\* The contiguous slices of the positions, in the order of their hash set,
\* one per worker.
Slices(order) ==
    LET n  == Len(order)
        hw == NumWorkers(n)
        chunk == (n + hw - 1) \div hw
    IN [t \in 0..(hw - 1) |->
          {order[k] : k \in (t * chunk + 1)..Min({(t + 1) * chunk, n})}]

\* One worker's accumulated delta of pair p over its slice.
SliceDelta(merged, slice, p) ==
    SumFunction([w \in slice |-> ToInt32(counts[w]) * NetChange(merged[w].changes, p)])

StatsOf(st, p) == IF p \in DOMAIN st THEN st[p] ELSE [count |-> 0, positions |-> {}]

\* Pairs with a non-zero delta in some slice.
Affected(merged, slices) ==
    UNION {{p \in UNION {ChangedPairs(merged[w].changes) : w \in slices[t]} :
              SliceDelta(merged, slices[t], p) # 0} : t \in DOMAIN slices}

\* pair_counts after the deltas are added and the positions of the affected
\* pairs rebuilt from the words of the merged pair.
NewStats(merged, slices, affected, newWords) ==
    [p \in DOMAIN stats \cup affected |->
       IF p \in affected
       THEN [count |-> StatsOf(stats, p).count
                         + SumFunction([t \in DOMAIN slices |-> SliceDelta(merged, slices[t], p)]),
             positions |-> {w \in DOMAIN merged : p \in VectorPairs(newWords[w])}]
       ELSE stats[p]]

\* The length limit is below 2^32, so that its cast to 32 bits changes nothing.
MergeTop ==
    /\ pc = "loop" /\ LoopOn
    /\ \E e \in Tops : \E order \in SetToSeqs(e.positions) :
         LET new    == MergedToken(e.pair)
             toks   == AddToken(idToWord, new)
             merged == [w \in e.positions |->
                          MergeWord(words[w], e.pair, IdOf(toks, new), opts.max_len)]
             slices == Slices(order)
             affected == Affected(merged, slices)
             newWords == [w \in DOMAIN words |->
                            IF w \in e.positions THEN merged[w].word ELSE words[w]]
             newStats == NewStats(merged, slices, affected, newWords)
         IN /\ ~Stale(e) /\ ~TooRare(e)
            /\ idToWord' = toks
            /\ merges' = Append(merges, <<e.pair, IdOf(toks, new)>>)
            /\ words' = newWords
            /\ stats' = newStats
            /\ heap' = (heap (-) SetToBag({e})) (+) Entries(newStats, affected)
    /\ UNCHANGED <<corpus, opts, counts, texts, model, status, pc, feeds, trains>>

\* Each merge's rank is its index; a pair merged again gets the later rank.
MergeMap(ms) ==
    [p \in {ms[k][1] : k \in DOMAIN ms} |->
       LET k == Max({i \in DOMAIN ms : ms[i][1] = p}) IN [rank |-> k - 1, id |-> ms[k][2]]]

WriteBack ==
    /\ pc = "write"
    /\ model' = [vocab  |-> idToWord,
                 merges |-> MergeMap(merges),
                 prefix |-> model.prefix \/ opts.prefix,
                 suffix |-> model.suffix \/ opts.suffix]
    /\ idToWord' = <<>> /\ words' = <<>> /\ counts' = <<>> /\ texts' = <<>>
    /\ stats' = <<>> /\ heap' = EmptyBag /\ merges' = <<>>
    /\ status' = "OK"
    /\ pc' = "idle"
    /\ UNCHANGED <<corpus, opts, feeds, trains>>

TrainStep ==
    \/ StartTrain \/ TokenizeWords \/ CountPairs
    \/ RefreshStale \/ MergeTop \/ StopLoop \/ WriteBack

\* The caller has made all the calls the bounds allow.
Done == pc = "idle" /\ feeds = MaxFeeds /\ trains = MaxTrains /\ UNCHANGED vars

Next == Feed \/ TrainEmpty \/ TrainStep \/ Done

Spec == Init /\ [][Next]_vars

-------------------------------------------------------------------------------
InLoop == pc \in {"loop", "write"}

\* What the words really contain, which the trainer only estimates.
TrueCount(p) == SumFunction([w \in DOMAIN words |-> counts[w] * Occurrences(words[w], p)])

\* The symbols of the words, each as often as it was fed.
SymbolsFed == SumFunction([w \in DOMAIN words |-> counts[w] * Cardinality(DOMAIN words[w])])

\* Fewer than 2^31 of them: the 32-bit deltas of the counts do not overflow.
CountsFit == SymbolsFed < HalfInt32

PairsPresent == UNION {PairsOf(words[w]) : w \in DOMAIN words}

MergedPairs == {merges[k][1] : k \in DOMAIN merges}

Ids == 0..(Len(idToWord) - 1)

(***************************************************************************)
(* Types of the trainer's variables.                                       *)
(***************************************************************************)
TypeOK ==
    /\ IsABag(corpus) /\ IsABag(heap)
    /\ \A k \in DOMAIN words : \A i \in DOMAIN words[k] :
          /\ words[k][i].c \in Ids /\ words[k][i].len \in Nat
          /\ {words[k][i].prev, words[k][i].next} \subseteq DOMAIN words[k] \cup {NoSym}
    /\ \A p \in DOMAIN stats : p \in Ids \X Ids /\ stats[p].count \in Int
                                /\ stats[p].positions \subseteq DOMAIN words
    /\ \A k \in DOMAIN merges : merges[k] \in (Ids \X Ids) \X Ids
    /\ pc \in {"idle", "tokenize", "count", "loop", "write"}
    /\ status \in {"none", "OK", "FailedPrecondition"}

(***************************************************************************)
(* The incremental counts are never too low, and right for every pair that *)
(* was not merged yet: Word::merge's deltas and the slices' sums account   *)
(* for every occurrence in every word, as long as they fit into 32 bits.   *)
(***************************************************************************)
CountsExact ==
    InLoop /\ CountsFit =>
       \A p \in PairsPresent \cup DOMAIN stats :
          IF p \in MergedPairs
          THEN StatsOf(stats, p).count >= TrueCount(p)
          ELSE StatsOf(stats, p).count = TrueCount(p)

(***************************************************************************)
(* Every merge is the most frequent pair left: no pair that was not merged *)
(* yet occurs more often than the chosen one is counted (the lazy refresh  *)
(* of stale heap entries never hides a pair).                              *)
(***************************************************************************)
GreedyChoice ==
    [][CountsFit /\ Len(merges') = Len(merges) + 1 =>
         LET p == merges'[Len(merges')][1]
         IN \A q \in PairsPresent \ (MergedPairs \cup {p}) :
               \/ stats[p].count > TrueCount(q)
               \/ stats[p].count = TrueCount(q) /\ PairBefore(p, q)]_vars

(***************************************************************************)
(* Training stops early only when nothing frequent is left: unless the     *)
(* vocabulary is full, every pair that still occurs min_frequency times    *)
(* has been merged.                                                        *)
(***************************************************************************)
StopsComplete ==
    pc = "write" /\ CountsFit /\ Len(idToWord) < opts.vocab_size =>
       \A p \in PairsPresent \ MergedPairs : TrueCount(p) < Max({1, opts.min_frequency})

Spelled(w) ==
    FlattenSeq([k \in 1..Cardinality(Live(w)) |->
       idToWord[w[CHOOSE i \in Live(w) : Cardinality({j \in Live(w) : j < i}) = k - 1].c + 1].text])

KeptText(text) ==
    FlattenSeq([k \in DOMAIN text |->
       IF Composite(KeyAt(text, k)) \/ KnownToken(idToWord, Char(text[k]))
       THEN <<text[k]>> ELSE <<>>])

(***************************************************************************)
(* Merging never changes a word's text: the tokens of its live symbols,    *)
(* followed through the list, spell the word without the characters that   *)
(* limit_alphabet trimmed, and the list is linked both ways.  A token over *)
(* max_token_length may get an id and a merge, but no word is merged to it.*)
(***************************************************************************)
WordsKeepText ==
    InLoop => \A k \in DOMAIN words :
      /\ Spelled(words[k]) = KeptText(texts[k])
      /\ \A i \in Live(words[k]) :
            HasRight(words[k], i) =>
               /\ words[k][i].next \in Live(words[k])
               /\ words[k][words[k][i].next].prev = i
      /\ \A i \in Live(words[k]) :
            words[k][i].len > opts.max_len => Len(idToWord[words[k][i].c + 1].text) = 1

(***************************************************************************)
(* The vocabulary and the merges written back are consistent: no token     *)
(* string has two ids, and each merge's id is the token its parts spell.   *)
(***************************************************************************)
VocabConsistent ==
    /\ \A i, j \in DOMAIN model.vocab : model.vocab[i] = model.vocab[j] => i = j
    /\ \A p \in DOMAIN model.merges :
          LET a == model.vocab[p[1] + 1]
              b == model.vocab[p[2] + 1]
          IN model.vocab[model.merges[p].id + 1]
               = [pre |-> a.pre, text |-> a.text \o b.text, suf |-> b.suf]

LiveSymbols == SumFunction([w \in DOMAIN words |-> Cardinality(Live(words[w]))])

\* The entries on the heap, each as often as it is there.
HeapSize == SumFunction(heap)

StaleEntries == SumFunction([e \in DOMAIN heap |-> IF Stale(e) THEN heap[e] ELSE 0])

(***************************************************************************)
(* The merge loop ends: each of its steps removes live symbols, or keeps   *)
(* them and shortens the heap, or keeps both and leaves fewer stale        *)
(* entries.  As no training step can block (a run has no deadlock), train()*)
(* returns.                                                                *)
(***************************************************************************)
LoopDecreases ==
    [][pc = "loop" /\ pc' = "loop" =>
         \/ LiveSymbols' < LiveSymbols
         \/ LiveSymbols' = LiveSymbols /\ HeapSize' < HeapSize
         \/ /\ LiveSymbols' = LiveSymbols /\ HeapSize' = HeapSize
            /\ StaleEntries' < StaleEntries]_vars

-------------------------------------------------------------------------------
(* What the source says of the trainer, and the code does not do. *)

(***************************************************************************)
(* "Rescan their positions (a simplification that guarantees correctness)":*)
(* the positions of a pair name every word that has it in adjacent places  *)
(* of its vector, which is what the rescan looks at.                       *)
(***************************************************************************)
PositionsComplete ==
    InLoop => \A p \in DOMAIN stats :
                 {w \in DOMAIN words : p \in VectorPairs(words[w])} \subseteq stats[p].positions

(***************************************************************************)
(* "min_frequency: lower bound on the number of occurrences of a pair":    *)
(* a pair that is merged occurs that often.                                *)
(***************************************************************************)
MergesFrequent ==
    [][Len(merges') = Len(merges) + 1 =>
         TrueCount(merges'[Len(merges')][1]) >= opts.min_frequency]_vars
===============================================================================
