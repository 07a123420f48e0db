------------------------------ MODULE TrainWord ------------------------------
(***************************************************************************)
(* Word as the trainer uses it (src/models/bpe/word.cpp): Word::merge      *)
(* replaces every occurrence of a pair in one scan of the list and reports *)
(* how the counts of the neighbouring pairs change.  Unlike merge_all it   *)
(* never compacts: the absorbed symbols stay in the vector with len = 0.   *)
(*                                                                         *)
(* A word is a function from 0..n-1 to symbols [c, prev, next, len].       *)
(***************************************************************************)
EXTENDS Integers, Sequences, FiniteSets, FiniteSetsExt, SequencesExt

NoSym == -1

\* The word built by adding the symbols of a sequence of <<id, byte length>>.
WordOf(seq) ==
    [i \in 0..(Len(seq) - 1) |->
       [c    |-> seq[i + 1][1],
        prev |-> i - 1,
        next |-> IF i + 1 < Len(seq) THEN i + 1 ELSE NoSym,
        len  |-> seq[i + 1][2]]]

Live(w) == {i \in DOMAIN w : w[i].len # 0}

\* Neighbours in the list: what the text of the word is made of.
HasRight(w, i) == i \in Live(w) /\ w[i].next # NoSym

PairFrom(w, i) == <<w[i].c, w[w[i].next].c>>

PairsOf(w) == {PairFrom(w, i) : i \in {k \in Live(w) : HasRight(w, k)}}

Occurrences(w, p) == Cardinality({i \in Live(w) : HasRight(w, i) /\ PairFrom(w, i) = p})

\* Neighbours in the vector with no dead symbol between them: what the
\* trainer looks at when it collects pairs and positions.
Adjacent(w) == {j \in DOMAIN w : j + 1 \in DOMAIN w /\ j \in Live(w) /\ j + 1 \in Live(w)}

VectorPairs(w) == {<<w[j].c, w[j + 1].c>> : j \in Adjacent(w)}

VectorOccurrences(w, p) == Cardinality({j \in Adjacent(w) : <<w[j].c, w[j + 1].c>> = p})

\* The symbol at i matches c1 and its right neighbour c2, within the length limit.
Matches(w, i, p, maxLen) ==
    /\ HasRight(w, i)
    /\ PairFrom(w, i) = p
    /\ w[i].len + w[w[i].next].len <= maxLen

\* Mutant: the new pair on the right is not reported.
ChangesAtNoRight(w, i, p, r) ==
    LET l == w[i].prev
        n == w[w[i].next].next
    IN (IF l = NoSym THEN <<>> ELSE << <<<<w[l].c, p[1]>>, -1>>, <<<<w[l].c, r>>, 1>> >>)
         \o (IF n = NoSym THEN <<>> ELSE << <<<<p[2], w[n].c>>, -1>> >>)

\* What a merge at i changes in the counts of the pairs around it; the merged
\* pair's own count is left alone.
ChangesAt(w, i, p, r) ==
    LET l == w[i].prev
        n == w[w[i].next].next
    IN (IF l = NoSym THEN <<>> ELSE << <<<<w[l].c, p[1]>>, -1>>, <<<<w[l].c, r>>, 1>> >>)
         \o (IF n = NoSym THEN <<>> ELSE << <<<<p[2], w[n].c>>, -1>>, <<<<r, w[n].c>>, 1>> >>)

\* Mutant: prev of the symbol after the merge is left pointing at the dead symbol.
AbsorbRightNoPrev(w, i, r) ==
    LET j == w[i].next
    IN [w EXCEPT ![i] = [c |-> r, prev |-> w[i].prev, next |-> w[j].next,
                         len |-> w[i].len + w[j].len],
                 ![j].len = 0]

\* The symbol at i absorbs its right neighbour and becomes r.
AbsorbRight(w, i, r) ==
    LET j == w[i].next
        n == w[j].next
    IN [k \in DOMAIN w |->
          CASE k = i  -> [c |-> r, prev |-> w[i].prev, next |-> n, len |-> w[i].len + w[j].len]
            [] k = j  -> [w[j] EXCEPT !.len = 0]
            [] k = n  -> [w[n] EXCEPT !.prev = i]
            [] OTHER  -> w[k]]

MergeStep(acc, i, p, r, maxLen) ==
    IF Matches(acc.word, i, p, maxLen)
    THEN [word    |-> AbsorbRight(acc.word, i, r),
          changes |-> acc.changes \o ChangesAt(acc.word, i, p, r)]
    ELSE acc

(***************************************************************************)
(* Word::merge: one scan from left to right.  The code looks at a symbol   *)
(* again after it merged there; that never matches, as the new id is not   *)
(* the first id of the pair.                                               *)
(***************************************************************************)
MergeWord(w, p, r, maxLen) ==
    FoldLeft(LAMBDA acc, k : MergeStep(acc, k - 1, p, r, maxLen),
             [word |-> w, changes |-> <<>>],
             [k \in 1..Cardinality(DOMAIN w) |-> k])

CountChange(sum, p, ch) == IF ch[1] = p THEN sum + ch[2] ELSE sum

\* The net change of the count of pair p in a sequence of changes.
NetChange(changes, p) == FoldLeft(LAMBDA sum, ch : CountChange(sum, p, ch), 0, changes)

ChangedPairs(changes) == {changes[k][1] : k \in DOMAIN changes}
===============================================================================
