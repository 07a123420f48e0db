--------------------------- MODULE BpeTrainerProofs ---------------------------
(***************************************************************************)
(* Proofs about BpeTrainer.  Whatever is fed and trained: the vocabulary   *)
(* has no token twice, and each merge names the token its parts spell; the *)
(* incremental counts are right, each merge takes the most frequent pair   *)
(* left, and training stops only when none is left; merging never changes  *)
(* a word's text; and the merge loop ends.                                 *)
(***************************************************************************)
EXTENDS BpeTrainer, SequenceLemmas

-------------------------------------------------------------------------------
(***************************************************************************)
(* Folds over sequences: the values they go through.  A lemma cannot take  *)
(* the folded operator as a parameter, so each fold of the model has its   *)
(* own, all with the same argument: the recursive function inside FoldLeft *)
(* exists (FoldExists), and on the intervals 1..k it takes one step after  *)
(* the other (FoldWithin), whatever it is elsewhere.                       *)
(***************************************************************************)

\* The values add_special_tokens and compute_alphabet go through.
AddTokensRun(f, V, n, toks, list) ==
    /\ f \in [0..n -> V]
    /\ f[0] = toks
    /\ \A k \in 1..n : f[k] = AddToken(f[k - 1], list[k])
    /\ AddTokens(toks, list) = f[n]

LEMMA AddTokensTrace ==
    ASSUME NEW toks, NEW list, NEW n \in Nat, DOMAIN list = 1..n,
           NEW V, toks \in V,
           \A a \in V, k \in 1..n : AddToken(a, list[k]) \in V
    PROVE  \E f : AddTokensRun(f, V, n, toks, list)
<1> DEFINE H == [x \in (1..n) \X V |-> AddToken(x[2], list[x[1]])]
           seq == list
           Step(it) == it = [s \in SUBSET DOMAIN seq |->
                               IF s = {} THEN toks
                               ELSE AddToken(it[s \ {Max(s)}], seq[Max(s)])]
           it == CHOOSE it : Step(it)
<1>1. DOMAIN seq = 1..n /\ \A k \in 1..n : seq[k] = list[k]
  OBVIOUS
<1>2. H \in [(1..n) \X V -> V]
  OBVIOUS
<1>3. Step(it)
  <2>1. PICK g \in [SUBSET (1..n) -> V] : FoldFcn(g, toks, H, n)
    <3> HIDE DEF H
    <3> QED
      BY <1>2, FoldExists
  <2>2. ASSUME NEW s \in SUBSET (1..n)
        PROVE  g[s] = IF s = {} THEN toks
                      ELSE AddToken(g[s \ {Max(s)}], list[Max(s)])
    <3>1. s # {} => Max(s) \in 1..n
      BY MaxWithin
    <3>2. g[s] = IF s = {} THEN toks
                 ELSE H[<<Max(s), g[s \ {Max(s)}]>>]
      BY <2>1 DEF FoldFcn
    <3>3. g[s \ {Max(s)}] \in V
      OBVIOUS
    <3> QED
      BY <3>1, <3>2, <3>3
  <2>3. Step(g)
    <3>1. g = [s \in SUBSET DOMAIN seq |-> g[s]]
      BY <1>1
    <3>2. \A s \in SUBSET (1..n) : s # {} => Max(s) \in 1..n
      BY MaxWithin
    <3> HIDE DEF H, seq
    <3> QED
      BY <1>1, <2>2, <3>1, <3>2
  <2> HIDE DEF Step
  <2> QED
    BY <2>3
<1>4. AddTokens(toks, list) = it[DOMAIN seq]
  BY DEF AddTokens, FoldLeft, MapThenFoldSet
<1>5. /\ it[1..0] = toks
      /\ \A k \in 1..n : it[1..k] = AddToken(it[1..(k - 1)], list[k])
  <2> HIDE DEF it, seq
  <2>1. it[1..0] = toks
    BY <1>1, <1>3
  <2>2. ASSUME NEW k \in 1..n
        PROVE  it[1..k] = AddToken(it[1..(k - 1)], list[k])
    <3>1. k \in Nat \ {0} /\ 1..k \in SUBSET (1..n)
      OBVIOUS
    <3>2. 1..k # {} /\ Max(1..k) = k /\ (1..k) \ {Max(1..k)} = 1..(k - 1)
      BY <3>1, IntervalMax
    <3>3. it[1..k] = AddToken(it[(1..k) \ {Max(1..k)}], list[Max(1..k)])
      <4>1. it[1..k] = AddToken(it[(1..k) \ {Max(1..k)}], seq[Max(1..k)])
        BY <1>1, <1>3, <3>1, <3>2
      <4>2. seq[Max(1..k)] = list[Max(1..k)]
        BY <1>1, <3>2
      <4> HIDE DEF Step
      <4> QED
        BY <4>1, <4>2
    <3> HIDE DEF Step
    <3> QED
      BY <3>2, <3>3
  <2> QED
    BY <2>1, <2>2
<1> HIDE DEF it, seq, H, Step
<1>6. \A k \in 0..n : it[1..k] \in V
  <2>1. Follows(it, V, n)
    BY <1>5 DEF Follows
  <2> QED
    BY <2>1, FoldWithin
<1> DEFINE f == [k \in 0..n |-> it[1..k]]
<1>7. f \in [0..n -> V] /\ \A k \in 0..n : f[k] = it[1..k]
  BY <1>6
<1>8. 0 \in 0..n /\ n \in 0..n /\ \A k \in 1..n : k \in 0..n /\ k - 1 \in 0..n
  OBVIOUS
<1> HIDE DEF f
<1>9. f[0] = toks /\ AddTokens(toks, list) = f[n]
  BY <1>1, <1>4, <1>5, <1>7, <1>8
<1>10. \A k \in 1..n : f[k] = AddToken(f[k - 1], list[k])
  BY <1>5, <1>7, <1>8
<1>11. AddTokensRun(f, V, n, toks, list)
  BY <1>7, <1>9, <1>10 DEF AddTokensRun
<1> QED
  BY <1>11

\* The values tokenize_words goes through in a word.
TokenizeWordRun(f, V, n, toks, w) ==
    /\ f \in [0..n -> V]
    /\ f[0] = [toks |-> toks, syms |-> <<>>]
    /\ \A k \in 1..n : f[k] = TokenizeChar(f[k - 1], w, k)
    /\ TokenizeWord(toks, w) = f[n]

LEMMA TokenizeWordTrace ==
    ASSUME NEW toks, NEW w, NEW n \in Nat, DOMAIN w = 1..n,
           NEW V, [toks |-> toks, syms |-> <<>>] \in V,
           \A a \in V, k \in 1..n : TokenizeChar(a, w, k) \in V
    PROVE  \E f : TokenizeWordRun(f, V, n, toks, w)
<1> DEFINE H == [x \in (1..n) \X V |-> TokenizeChar(x[2], w, x[1])]
           seq == [k \in DOMAIN w |-> k]
           Step(it) == it = [s \in SUBSET DOMAIN seq |->
                               IF s = {} THEN [toks |-> toks, syms |-> <<>>]
                               ELSE TokenizeChar(it[s \ {Max(s)}], w, seq[Max(s)])]
           it == CHOOSE it : Step(it)
<1>1. DOMAIN seq = 1..n /\ \A k \in 1..n : seq[k] = k
  OBVIOUS
<1>2. H \in [(1..n) \X V -> V]
  OBVIOUS
<1>3. Step(it)
  <2>1. PICK g \in [SUBSET (1..n) -> V] : FoldFcn(g, [toks |-> toks, syms |-> <<>>], H, n)
    <3> HIDE DEF H
    <3> QED
      BY <1>2, FoldExists
  <2>2. ASSUME NEW s \in SUBSET (1..n)
        PROVE  g[s] = IF s = {} THEN [toks |-> toks, syms |-> <<>>]
                      ELSE TokenizeChar(g[s \ {Max(s)}], w, Max(s))
    <3>1. s # {} => Max(s) \in 1..n
      BY MaxWithin
    <3>2. g[s] = IF s = {} THEN [toks |-> toks, syms |-> <<>>]
                 ELSE H[<<Max(s), g[s \ {Max(s)}]>>]
      BY <2>1 DEF FoldFcn
    <3>3. g[s \ {Max(s)}] \in V
      OBVIOUS
    <3> QED
      BY <3>1, <3>2, <3>3
  <2>3. Step(g)
    <3>1. g = [s \in SUBSET DOMAIN seq |-> g[s]]
      BY <1>1
    <3>2. \A s \in SUBSET (1..n) : s # {} => Max(s) \in 1..n
      BY MaxWithin
    <3> HIDE DEF H, seq
    <3> QED
      BY <1>1, <2>2, <3>1, <3>2, ZenonT(30)
  <2> HIDE DEF Step
  <2> QED
    BY <2>3
<1>4. TokenizeWord(toks, w) = it[DOMAIN seq]
  BY DEF TokenizeWord, FoldLeft, MapThenFoldSet
<1>5. /\ it[1..0] = [toks |-> toks, syms |-> <<>>]
      /\ \A k \in 1..n : it[1..k] = TokenizeChar(it[1..(k - 1)], w, k)
  <2> HIDE DEF it, seq
  <2>1. it[1..0] = [toks |-> toks, syms |-> <<>>]
    BY <1>1, <1>3
  <2>2. ASSUME NEW k \in 1..n
        PROVE  it[1..k] = TokenizeChar(it[1..(k - 1)], w, k)
    <3>1. k \in Nat \ {0} /\ 1..k \in SUBSET (1..n)
      OBVIOUS
    <3>2. 1..k # {} /\ Max(1..k) = k /\ (1..k) \ {Max(1..k)} = 1..(k - 1)
      BY <3>1, IntervalMax
    <3>3. it[1..k] = TokenizeChar(it[(1..k) \ {Max(1..k)}], w, Max(1..k))
      <4>1. it[1..k] = TokenizeChar(it[(1..k) \ {Max(1..k)}], w, seq[Max(1..k)])
        BY <1>1, <1>3, <3>1, <3>2
      <4>2. seq[Max(1..k)] = Max(1..k)
        BY <1>1, <3>2
      <4> HIDE DEF Step
      <4> QED
        BY <4>1, <4>2
    <3> HIDE DEF Step
    <3> QED
      BY <3>2, <3>3
  <2> QED
    BY <2>1, <2>2
<1> HIDE DEF it, seq, H, Step
<1>6. \A k \in 0..n : it[1..k] \in V
  <2>1. Follows(it, V, n)
    BY <1>5 DEF Follows
  <2> QED
    BY <2>1, FoldWithin
<1> DEFINE f == [k \in 0..n |-> it[1..k]]
<1>7. f \in [0..n -> V] /\ \A k \in 0..n : f[k] = it[1..k]
  BY <1>6
<1>8. 0 \in 0..n /\ n \in 0..n /\ \A k \in 1..n : k \in 0..n /\ k - 1 \in 0..n
  OBVIOUS
<1> HIDE DEF f
<1>9. f[0] = [toks |-> toks, syms |-> <<>>] /\ TokenizeWord(toks, w) = f[n]
  BY <1>1, <1>4, <1>5, <1>7, <1>8
<1>10. \A k \in 1..n : f[k] = TokenizeChar(f[k - 1], w, k)
  BY <1>5, <1>7, <1>8
<1>11. TokenizeWordRun(f, V, n, toks, w)
  BY <1>7, <1>9, <1>10 DEF TokenizeWordRun
<1> QED
  BY <1>11

\* The values tokenize_words goes through from word to word.
TokenizeAllRun(f, V, n, order) ==
    /\ f \in [0..n -> V]
    /\ f[0] = [toks |-> idToWord, words |-> <<>>]
    /\ \A k \in 1..n : f[k] = AddWord(f[k - 1], order[k])
    /\ TokenizeAll(order) = f[n]

LEMMA TokenizeAllTrace ==
    ASSUME NEW order, NEW n \in Nat, DOMAIN order = 1..n,
           NEW V, [toks |-> idToWord, words |-> <<>>] \in V,
           \A a \in V, k \in 1..n : AddWord(a, order[k]) \in V
    PROVE  \E f : TokenizeAllRun(f, V, n, order)
<1> DEFINE H == [x \in (1..n) \X V |-> AddWord(x[2], order[x[1]])]
           seq == order
           Step(it) == it = [s \in SUBSET DOMAIN seq |->
                               IF s = {} THEN [toks |-> idToWord, words |-> <<>>]
                               ELSE AddWord(it[s \ {Max(s)}], seq[Max(s)])]
           it == CHOOSE it : Step(it)
<1>1. DOMAIN seq = 1..n /\ \A k \in 1..n : seq[k] = order[k]
  OBVIOUS
<1>2. H \in [(1..n) \X V -> V]
  OBVIOUS
<1>3. Step(it)
  <2>1. PICK g \in [SUBSET (1..n) -> V] : FoldFcn(g, [toks |-> idToWord, words |-> <<>>], H, n)
    <3> HIDE DEF H
    <3> QED
      BY <1>2, FoldExists
  <2>2. ASSUME NEW s \in SUBSET (1..n)
        PROVE  g[s] = IF s = {} THEN [toks |-> idToWord, words |-> <<>>]
                      ELSE AddWord(g[s \ {Max(s)}], order[Max(s)])
    <3>1. s # {} => Max(s) \in 1..n
      BY MaxWithin
    <3>2. g[s] = IF s = {} THEN [toks |-> idToWord, words |-> <<>>]
                 ELSE H[<<Max(s), g[s \ {Max(s)}]>>]
      BY <2>1 DEF FoldFcn
    <3>3. g[s \ {Max(s)}] \in V
      OBVIOUS
    <3> QED
      BY <3>1, <3>2, <3>3
  <2>3. Step(g)
    <3>1. g = [s \in SUBSET DOMAIN seq |-> g[s]]
      BY <1>1
    <3>2. \A s \in SUBSET (1..n) : s # {} => Max(s) \in 1..n
      BY MaxWithin
    <3> HIDE DEF H, seq
    <3> QED
      BY <1>1, <2>2, <3>1, <3>2
  <2> HIDE DEF Step
  <2> QED
    BY <2>3
<1>4. TokenizeAll(order) = it[DOMAIN seq]
  BY DEF TokenizeAll, FoldLeft, MapThenFoldSet
<1>5. /\ it[1..0] = [toks |-> idToWord, words |-> <<>>]
      /\ \A k \in 1..n : it[1..k] = AddWord(it[1..(k - 1)], order[k])
  <2> HIDE DEF it, seq
  <2>1. it[1..0] = [toks |-> idToWord, words |-> <<>>]
    BY <1>1, <1>3
  <2>2. ASSUME NEW k \in 1..n
        PROVE  it[1..k] = AddWord(it[1..(k - 1)], order[k])
    <3>1. k \in Nat \ {0} /\ 1..k \in SUBSET (1..n)
      OBVIOUS
    <3>2. 1..k # {} /\ Max(1..k) = k /\ (1..k) \ {Max(1..k)} = 1..(k - 1)
      BY <3>1, IntervalMax
    <3>3. it[1..k] = AddWord(it[(1..k) \ {Max(1..k)}], order[Max(1..k)])
      <4>1. it[1..k] = AddWord(it[(1..k) \ {Max(1..k)}], seq[Max(1..k)])
        BY <1>1, <1>3, <3>1, <3>2
      <4>2. seq[Max(1..k)] = order[Max(1..k)]
        BY <1>1, <3>2
      <4> HIDE DEF Step
      <4> QED
        BY <4>1, <4>2
    <3> HIDE DEF Step
    <3> QED
      BY <3>2, <3>3
  <2> QED
    BY <2>1, <2>2
<1> HIDE DEF it, seq, H, Step
<1>6. \A k \in 0..n : it[1..k] \in V
  <2>1. Follows(it, V, n)
    BY <1>5 DEF Follows
  <2> QED
    BY <2>1, FoldWithin
<1> DEFINE f == [k \in 0..n |-> it[1..k]]
<1>7. f \in [0..n -> V] /\ \A k \in 0..n : f[k] = it[1..k]
  BY <1>6
<1>8. 0 \in 0..n /\ n \in 0..n /\ \A k \in 1..n : k \in 0..n /\ k - 1 \in 0..n
  OBVIOUS
<1> HIDE DEF f
<1>9. f[0] = [toks |-> idToWord, words |-> <<>>] /\ TokenizeAll(order) = f[n]
  BY <1>1, <1>4, <1>5, <1>7, <1>8
<1>10. \A k \in 1..n : f[k] = AddWord(f[k - 1], order[k])
  BY <1>5, <1>7, <1>8
<1>11. TokenizeAllRun(f, V, n, order)
  BY <1>7, <1>9, <1>10 DEF TokenizeAllRun
<1> QED
  BY <1>11

\* The sums NetChange goes through.
NetChangeRun(f, V, n, changes, p) ==
    /\ f \in [0..n -> V]
    /\ f[0] = 0
    /\ \A k \in 1..n : f[k] = CountChange(f[k - 1], p, changes[k])
    /\ NetChange(changes, p) = f[n]

LEMMA NetChangeTrace ==
    ASSUME NEW changes, NEW p, NEW n \in Nat, DOMAIN changes = 1..n,
           NEW V, 0 \in V,
           \A a \in V, k \in 1..n : CountChange(a, p, changes[k]) \in V
    PROVE  \E f : NetChangeRun(f, V, n, changes, p)
<1> DEFINE H == [x \in (1..n) \X V |-> CountChange(x[2], p, changes[x[1]])]
           seq == changes
           Step(it) == it = [s \in SUBSET DOMAIN seq |->
                               IF s = {} THEN 0
                               ELSE CountChange(it[s \ {Max(s)}], p, seq[Max(s)])]
           it == CHOOSE it : Step(it)
<1>1. DOMAIN seq = 1..n /\ \A k \in 1..n : seq[k] = changes[k]
  OBVIOUS
<1>2. H \in [(1..n) \X V -> V]
  OBVIOUS
<1>3. Step(it)
  <2>1. PICK g \in [SUBSET (1..n) -> V] : FoldFcn(g, 0, H, n)
    <3> HIDE DEF H
    <3> QED
      BY <1>2, FoldExists
  <2>2. ASSUME NEW s \in SUBSET (1..n)
        PROVE  g[s] = IF s = {} THEN 0
                      ELSE CountChange(g[s \ {Max(s)}], p, changes[Max(s)])
    <3>1. s # {} => Max(s) \in 1..n
      BY MaxWithin
    <3>2. g[s] = IF s = {} THEN 0
                 ELSE H[<<Max(s), g[s \ {Max(s)}]>>]
      BY <2>1 DEF FoldFcn
    <3>3. g[s \ {Max(s)}] \in V
      OBVIOUS
    <3> QED
      BY <3>1, <3>2, <3>3
  <2>3. Step(g)
    <3>1. g = [s \in SUBSET DOMAIN seq |-> g[s]]
      BY <1>1
    <3>2. \A s \in SUBSET (1..n) : s # {} => Max(s) \in 1..n
      BY MaxWithin
    <3> HIDE DEF H, seq
    <3> QED
      BY <1>1, <2>2, <3>1, <3>2
  <2> HIDE DEF Step
  <2> QED
    BY <2>3
<1>4. NetChange(changes, p) = it[DOMAIN seq]
  BY DEF NetChange, FoldLeft, MapThenFoldSet
<1>5. /\ it[1..0] = 0
      /\ \A k \in 1..n : it[1..k] = CountChange(it[1..(k - 1)], p, changes[k])
  <2> HIDE DEF it, seq
  <2>1. it[1..0] = 0
    BY <1>1, <1>3
  <2>2. ASSUME NEW k \in 1..n
        PROVE  it[1..k] = CountChange(it[1..(k - 1)], p, changes[k])
    <3>1. k \in Nat \ {0} /\ 1..k \in SUBSET (1..n)
      OBVIOUS
    <3>2. 1..k # {} /\ Max(1..k) = k /\ (1..k) \ {Max(1..k)} = 1..(k - 1)
      BY <3>1, IntervalMax
    <3>3. it[1..k] = CountChange(it[(1..k) \ {Max(1..k)}], p, changes[Max(1..k)])
      <4>1. it[1..k] = CountChange(it[(1..k) \ {Max(1..k)}], p, seq[Max(1..k)])
        BY <1>1, <1>3, <3>1, <3>2
      <4>2. seq[Max(1..k)] = changes[Max(1..k)]
        BY <1>1, <3>2
      <4> HIDE DEF Step
      <4> QED
        BY <4>1, <4>2
    <3> HIDE DEF Step
    <3> QED
      BY <3>2, <3>3
  <2> QED
    BY <2>1, <2>2
<1> HIDE DEF it, seq, H, Step
<1>6. \A k \in 0..n : it[1..k] \in V
  <2>1. Follows(it, V, n)
    BY <1>5 DEF Follows
  <2> QED
    BY <2>1, FoldWithin
<1> DEFINE f == [k \in 0..n |-> it[1..k]]
<1>7. f \in [0..n -> V] /\ \A k \in 0..n : f[k] = it[1..k]
  BY <1>6
<1>8. 0 \in 0..n /\ n \in 0..n /\ \A k \in 1..n : k \in 0..n /\ k - 1 \in 0..n
  OBVIOUS
<1> HIDE DEF f
<1>9. f[0] = 0 /\ NetChange(changes, p) = f[n]
  BY <1>1, <1>4, <1>5, <1>7, <1>8
<1>10. \A k \in 1..n : f[k] = CountChange(f[k - 1], p, changes[k])
  BY <1>5, <1>7, <1>8
<1>11. NetChangeRun(f, V, n, changes, p)
  BY <1>7, <1>9, <1>10 DEF NetChangeRun
<1> QED
  BY <1>11

\* The words and changes Word::merge goes through.
MergeWordRun(f, V, n, w, p, r, max) ==
    /\ f \in [0..n -> V]
    /\ f[0] = [word |-> w, changes |-> <<>>]
    /\ \A k \in 1..n : f[k] = MergeStep(f[k - 1], k - 1, p, r, max)
    /\ MergeWord(w, p, r, max) = f[n]

LEMMA MergeWordTrace ==
    ASSUME NEW w, NEW p, NEW r, NEW max, NEW n \in Nat, 1..Cardinality(DOMAIN w) = 1..n,
           NEW V, [word |-> w, changes |-> <<>>] \in V,
           \A a \in V, k \in 1..n : MergeStep(a, k - 1, p, r, max) \in V
    PROVE  \E f : MergeWordRun(f, V, n, w, p, r, max)
<1> DEFINE H == [x \in (1..n) \X V |-> MergeStep(x[2], x[1] - 1, p, r, max)]
           seq == [k \in 1..Cardinality(DOMAIN w) |-> k]
           Step(it) == it = [s \in SUBSET DOMAIN seq |->
                               IF s = {} THEN [word |-> w, changes |-> <<>>]
                               ELSE MergeStep(it[s \ {Max(s)}], seq[Max(s)] - 1, p, r, max)]
           it == CHOOSE it : Step(it)
<1>1. DOMAIN seq = 1..n /\ \A k \in 1..n : seq[k] = k
  OBVIOUS
<1>2. H \in [(1..n) \X V -> V]
  OBVIOUS
<1>3. Step(it)
  <2>1. PICK g \in [SUBSET (1..n) -> V] : FoldFcn(g, [word |-> w, changes |-> <<>>], H, n)
    <3> HIDE DEF H
    <3> QED
      BY <1>2, FoldExists
  <2>2. ASSUME NEW s \in SUBSET (1..n)
        PROVE  g[s] = IF s = {} THEN [word |-> w, changes |-> <<>>]
                      ELSE MergeStep(g[s \ {Max(s)}], Max(s) - 1, p, r, max)
    <3>1. s # {} => Max(s) \in 1..n
      BY MaxWithin
    <3>2. g[s] = IF s = {} THEN [word |-> w, changes |-> <<>>]
                 ELSE H[<<Max(s), g[s \ {Max(s)}]>>]
      BY <2>1 DEF FoldFcn
    <3>3. g[s \ {Max(s)}] \in V
      OBVIOUS
    <3> QED
      BY <3>1, <3>2, <3>3
  <2>3. Step(g)
    <3>1. g = [s \in SUBSET DOMAIN seq |-> g[s]]
      BY <1>1
    <3>2. \A s \in SUBSET (1..n) : s # {} => Max(s) \in 1..n
      BY MaxWithin
    <3> HIDE DEF H, seq
    <3> QED
      BY <1>1, <2>2, <3>1, <3>2, ZenonT(30)
  <2> HIDE DEF Step
  <2> QED
    BY <2>3
<1>4. MergeWord(w, p, r, max) = it[DOMAIN seq]
  BY DEF MergeWord, FoldLeft, MapThenFoldSet
<1>5. /\ it[1..0] = [word |-> w, changes |-> <<>>]
      /\ \A k \in 1..n : it[1..k] = MergeStep(it[1..(k - 1)], k - 1, p, r, max)
  <2> HIDE DEF it, seq
  <2>1. it[1..0] = [word |-> w, changes |-> <<>>]
    BY <1>1, <1>3
  <2>2. ASSUME NEW k \in 1..n
        PROVE  it[1..k] = MergeStep(it[1..(k - 1)], k - 1, p, r, max)
    <3>1. k \in Nat \ {0} /\ 1..k \in SUBSET (1..n)
      OBVIOUS
    <3>2. 1..k # {} /\ Max(1..k) = k /\ (1..k) \ {Max(1..k)} = 1..(k - 1)
      BY <3>1, IntervalMax
    <3>3. it[1..k] = MergeStep(it[(1..k) \ {Max(1..k)}], Max(1..k) - 1, p, r, max)
      <4>1. it[1..k] = MergeStep(it[(1..k) \ {Max(1..k)}], seq[Max(1..k)] - 1, p, r, max)
        BY <1>1, <1>3, <3>1, <3>2
      <4>2. seq[Max(1..k)] = Max(1..k)
        BY <1>1, <3>2
      <4> HIDE DEF Step
      <4> QED
        BY <4>1, <4>2
    <3> HIDE DEF Step
    <3> QED
      BY <3>2, <3>3
  <2> QED
    BY <2>1, <2>2
<1> HIDE DEF it, seq, H, Step
<1>6. \A k \in 0..n : it[1..k] \in V
  <2>1. Follows(it, V, n)
    BY <1>5 DEF Follows
  <2> QED
    BY <2>1, FoldWithin
<1> DEFINE f == [k \in 0..n |-> it[1..k]]
<1>7. f \in [0..n -> V] /\ \A k \in 0..n : f[k] = it[1..k]
  BY <1>6
<1>8. 0 \in 0..n /\ n \in 0..n /\ \A k \in 1..n : k \in 0..n /\ k - 1 \in 0..n
  OBVIOUS
<1> HIDE DEF f
<1>9. f[0] = [word |-> w, changes |-> <<>>] /\ MergeWord(w, p, r, max) = f[n]
  BY <1>1, <1>4, <1>5, <1>7, <1>8
<1>10. \A k \in 1..n : f[k] = MergeStep(f[k - 1], k - 1, p, r, max)
  BY <1>5, <1>7, <1>8
<1>11. MergeWordRun(f, V, n, w, p, r, max)
  BY <1>7, <1>9, <1>10 DEF MergeWordRun
<1> QED
  BY <1>11

-------------------------------------------------------------------------------
(* Sums over finite sets. *)

SumFcn(it, f, S) ==
    it = [s \in SUBSET S |-> IF s = {} THEN 0
                             ELSE f[CHOOSE x \in s : TRUE] + it[s \ {CHOOSE x \in s : TRUE}]]

\* A subset of a finite set, and what is left of it without an element.
LEMMA PartSizes ==
    ASSUME NEW S, IsFiniteSet(S), NEW s \in SUBSET S
    PROVE  /\ IsFiniteSet(s) /\ Cardinality(s) \in 0..Cardinality(S)
           /\ Cardinality(s) = 0 <=> s = {}
           /\ \A x \in s : Cardinality(s \ {x}) = Cardinality(s) - 1
<1>1. IsFiniteSet(s) /\ Cardinality(s) <= Cardinality(S)
  BY FS_Subset
<1>2. Cardinality(s) \in Nat /\ Cardinality(S) \in Nat
  BY <1>1, FS_CardinalityType
<1>3. Cardinality(s) = 0 <=> s = {}
  BY <1>1, FS_EmptySet
<1>4. ASSUME NEW x \in s PROVE Cardinality(s \ {x}) = Cardinality(s) - 1
  BY <1>1, FS_RemoveElement
<1> QED
  BY <1>1, <1>2, <1>3, <1>4

\* The recursive function inside a sum of integers exists.
LEMMA SumExists ==
    ASSUME NEW S, IsFiniteSet(S), NEW f \in [S -> Int]
    PROVE  \E it \in [SUBSET S -> Int] : SumFcn(it, f, S)
<1> DEFINE N == Cardinality(S)
           pick(s) == CHOOSE x \in s : TRUE
           Right(it, s) == it[s] = IF s = {} THEN 0 ELSE f[pick(s)] + it[s \ {pick(s)}]
           Fits(it, m) == /\ it \in [SUBSET S -> Int]
                          /\ \A s \in SUBSET S : Cardinality(s) <= m => Right(it, s)
           T == {m \in 0..N : \E it : Fits(it, m)}
<1>1. N \in Nat
  BY FS_CardinalityType
<1>2. \A s \in SUBSET S : s # {} => pick(s) \in s /\ pick(s) \in S
  OBVIOUS
<1>3. 0 \in T
  <2> DEFINE zero == [s \in SUBSET S |-> 0]
  <2>1. ASSUME NEW s \in SUBSET S, Cardinality(s) <= 0 PROVE Right(zero, s)
    <3>1. s = {}
      BY <2>1, PartSizes
    <3> QED
      BY <3>1
  <2>2. zero \in [SUBSET S -> Int]
    OBVIOUS
  <2>3. Fits(zero, 0)
    <3> HIDE DEF zero, Right
    <3> QED
      BY <2>1, <2>2
  <2> HIDE DEF zero, Fits
  <2> QED
    BY <1>1, <2>3
<1>4. ASSUME NEW m \in 1..N, m - 1 \in T PROVE m \in T
  <2>1. PICK it : Fits(it, m - 1)
    <3> HIDE DEF Fits
    <3> QED
      BY <1>4
  <2> DEFINE next == [s \in SUBSET S |-> IF Cardinality(s) = m THEN f[pick(s)] + it[s \ {pick(s)}]
                                         ELSE it[s]]
  <2>2. \A s \in SUBSET S : Cardinality(s) \in Int /\ (Cardinality(s) = m => s # {})
    BY <1>1, PartSizes
  <2>3. next \in [SUBSET S -> Int]
    <3>1. ASSUME NEW s \in SUBSET S
          PROVE  (IF Cardinality(s) = m THEN f[pick(s)] + it[s \ {pick(s)}] ELSE it[s]) \in Int
      <4>1. it[s] \in Int /\ it[s \ {pick(s)}] \in Int
        BY <2>1
      <4>2. s # {} => f[pick(s)] \in Int
        BY <1>2
      <4> HIDE DEF pick, Fits
      <4> QED
        BY <2>2, <4>1, <4>2
    <3> HIDE DEF pick, Fits
    <3> QED
      BY <3>1
  <2>4. ASSUME NEW s \in SUBSET S, Cardinality(s) <= m PROVE Right(next, s)
    <3>1. CASE s = {}
      <4>1. Cardinality(s) = 0
        BY <3>1, PartSizes
      <4>2. next[s] = it[s]
        BY <4>1
      <4>3. Right(it, s)
        BY <2>1, <4>1, <1>1
      <4> HIDE DEF next
      <4> QED
        BY <3>1, <4>2, <4>3
    <3>2. CASE s # {}
      <4>1. /\ pick(s) \in s /\ s \ {pick(s)} \in SUBSET S
            /\ Cardinality(s \ {pick(s)}) = Cardinality(s) - 1
        BY <3>2, <1>2, PartSizes
      <4>2. next[s \ {pick(s)}] = it[s \ {pick(s)}]
        <5>1. Cardinality(s \ {pick(s)}) # m
          BY <2>2, <2>4, <4>1
        <5> HIDE DEF pick
        <5> QED
          BY <4>1, <5>1
      <4>3. CASE Cardinality(s) = m
        <5>1. next[s] = f[pick(s)] + it[s \ {pick(s)}]
          BY <4>3
        <5> HIDE DEF next, pick
        <5> QED
          BY <3>2, <4>2, <5>1
      <4>4. CASE Cardinality(s) # m
        <5>1. next[s] = it[s] /\ Cardinality(s) <= m - 1
          BY <2>2, <2>4, <4>4
        <5>2. Right(it, s)
          <6> HIDE DEF Right
          <6> QED
            BY <2>1, <5>1
        <5> HIDE DEF next, pick
        <5> QED
          BY <3>2, <4>2, <5>1, <5>2
      <4> QED
        BY <4>3, <4>4
    <3> QED
      BY <3>1, <3>2
  <2>5. Fits(next, m)
    <3> HIDE DEF next, Right
    <3> QED
      BY <2>3, <2>4
  <2> HIDE DEF Fits, next
  <2>6. m \in 0..N
    BY <1>1
  <2> QED
    BY <2>5, <2>6
<1>5. \A m \in 0..N : m \in T
  <2> HIDE DEF T, N
  <2> QED
    BY <1>1, <1>3, <1>4, InductUpto
<1>6. PICK it : Fits(it, N)
  <2>1. N \in 0..N
    BY <1>1
  <2> HIDE DEF Fits
  <2> QED
    BY <1>5, <2>1
<1>7. \A s \in SUBSET S : Right(it, s)
  <2>1. \A s \in SUBSET S : Cardinality(s) <= N
    BY <1>1, PartSizes
  <2> HIDE DEF Right, N
  <2> QED
    BY <1>6, <2>1
<1>8. SumFcn(it, f, S)
  <2>1. it = [s \in SUBSET S |-> it[s]]
    BY <1>6
  <2> QED
    BY <1>7, <2>1 DEF SumFcn
<1> QED
  BY <1>6, <1>8

\* A finite sum of integers is an integer.
LEMMA SumInt ==
    ASSUME NEW S, IsFiniteSet(S), NEW f \in [S -> Int]
    PROVE  SumFunction(f) \in Int
<1> DEFINE N == Cardinality(S)
           Step(it) == it = [s \in SUBSET DOMAIN f |->
                               IF s = {} THEN 0
                               ELSE f[CHOOSE x \in s : TRUE] + it[s \ {CHOOSE x \in s : TRUE}]]
           it == CHOOSE it : Step(it)
           T == {m \in 0..N : \A s \in SUBSET S : Cardinality(s) = m => it[s] \in Int}
<1>1. N \in Nat /\ DOMAIN f = S
  BY FS_CardinalityType
<1>2. Step(it)
  <2>1. PICK g \in [SUBSET S -> Int] : SumFcn(g, f, S)
    BY SumExists
  <2>2. Step(g)
    BY <1>1, <2>1 DEF SumFcn
  <2> HIDE DEF Step
  <2> QED
    BY <2>2
<1>3. SumFunction(f) = it[DOMAIN f]
  BY DEF SumFunction, SumFunctionOnSet, FoldFunctionOnSet, MapThenFoldSet
<1> HIDE DEF it
<1>4. 0 \in T
  <2>1. it[{}] = 0
    BY <1>2
  <2>2. \A s \in SUBSET S : Cardinality(s) = 0 => s = {}
    BY PartSizes
  <2> HIDE DEF Step
  <2> QED
    BY <1>1, <2>1, <2>2
<1>5. ASSUME NEW m \in 1..N, m - 1 \in T PROVE m \in T
  <2>1. ASSUME NEW s \in SUBSET S, Cardinality(s) = m PROVE it[s] \in Int
    <3> DEFINE x == CHOOSE x \in s : TRUE
    <3>1. s # {}
      BY <1>1, <2>1, PartSizes
    <3>2. x \in s /\ x \in S
      BY <3>1
    <3>3. s \ {x} \in SUBSET S /\ Cardinality(s \ {x}) = m - 1
      BY <2>1, <3>2, PartSizes
    <3>4. it[s \ {x}] \in Int
      <4> HIDE DEF x
      <4> QED
        BY <1>5, <3>3
    <3>5. it[s] = f[x] + it[s \ {x}]
      BY <1>1, <1>2, <3>1
    <3>6. f[x] \in Int
      BY <3>2
    <3> HIDE DEF x
    <3> QED
      BY <3>4, <3>5, <3>6
  <2>2. m \in 0..N
    BY <1>1
  <2> QED
    BY <2>1, <2>2
<1>6. N \in T
  <2>1. N \in 0..N
    BY <1>1
  <2>2. \A m \in 0..N : m \in T
    <3> HIDE DEF T, N
    <3> QED
      BY <1>1, <1>4, <1>5, InductUpto
  <2> QED
    BY <2>1, <2>2
<1>7. it[S] \in Int
  BY <1>6
<1> QED
  BY <1>1, <1>3, <1>7

-------------------------------------------------------------------------------
(* Vocabularies: id_to_word and word_to_id. *)

Vocabs(U) == {toks \in Seq(U) : Once(toks)}

IsVocab(toks) == toks \in Vocabs(ToSet(toks))

IdsOf(toks) == 0..(Len(toks) - 1)

\* Tokens are only added behind the ones there are.
Extends(new, old) ==
    Len(old) <= Len(new) /\ \A k \in DOMAIN old : k \in DOMAIN new /\ new[k] = old[k]

\* A vocabulary is one over its own tokens.
LEMMA VocabOwn ==
    ASSUME NEW U, NEW toks \in Vocabs(U)
    PROVE  /\ IsVocab(toks) /\ Len(toks) \in Nat /\ DOMAIN toks = 1..Len(toks)
           /\ IdsOf(toks) \subseteq Nat /\ ToSet(toks) \subseteq U
<1>1. Len(toks) \in Nat /\ DOMAIN toks = 1..Len(toks) /\ toks \in [1..Len(toks) -> ToSet(toks)]
  BY DEF Vocabs, ToSet
<1>2. toks \in Seq(ToSet(toks))
  BY <1>1
<1>3. ToSet(toks) \subseteq U
  BY DEF ToSet, Vocabs
<1> QED
  BY <1>1, <1>2, <1>3 DEF Vocabs, IsVocab, IdsOf

LEMMA ExtendsIds ==
    ASSUME NEW U, NEW W, NEW old \in Seq(U), NEW new \in Seq(W), Extends(new, old)
    PROVE  IdsOf(old) \subseteq IdsOf(new) /\ \A i \in IdsOf(old) : new[i + 1] = old[i + 1]
<1>1. Len(old) \in Nat /\ Len(new) \in Nat /\ DOMAIN old = 1..Len(old)
  OBVIOUS
<1>2. \A i \in IdsOf(old) : i + 1 \in DOMAIN old
  BY <1>1 DEF IdsOf
<1> QED
  BY <1>1, <1>2 DEF Extends, IdsOf

LEMMA ExtendsOrder ==
    ASSUME NEW U, NEW a \in Seq(U), NEW b \in Seq(U), NEW c \in Seq(U)
    PROVE  Extends(a, a) /\ (Extends(b, a) /\ Extends(c, b) => Extends(c, a))
BY DEF Extends

\* Looking a token up and adding it if it is not there.
LEMMA AddTokenFacts ==
    ASSUME NEW U, NEW toks \in Vocabs(U), NEW t \in U
    PROVE  /\ AddToken(toks, t) \in Vocabs(U) /\ Extends(AddToken(toks, t), toks)
           /\ KnownToken(AddToken(toks, t), t)
<1>1. CASE KnownToken(toks, t)
  <2>1. toks \in Seq(U)
    BY DEF Vocabs
  <2> QED
    BY <1>1, <2>1, ExtendsOrder DEF AddToken
<1>2. CASE ~KnownToken(toks, t)
  <2>1. toks \in Seq(U) /\ Once(toks) /\ AddToken(toks, t) = Append(toks, t)
    BY <1>2 DEF Vocabs, AddToken
  <2>2. t \notin ToSet(toks)
    BY <1>2 DEF KnownToken, ToSet
  <2>3. Append(toks, t) \in Vocabs(U)
    BY <2>1, <2>2, AppendOnce DEF Vocabs
  <2>4. /\ DOMAIN toks = 1..Len(toks) /\ DOMAIN Append(toks, t) = 1..(Len(toks) + 1)
        /\ Len(toks) \in Nat /\ Len(Append(toks, t)) = Len(toks) + 1
        /\ \A k \in 1..Len(toks) : Append(toks, t)[k] = toks[k]
        /\ Append(toks, t)[Len(toks) + 1] = t
    BY <2>1, AppendProperties
  <2>5. Extends(Append(toks, t), toks)
    BY <2>4 DEF Extends
  <2>6. KnownToken(Append(toks, t), t)
    BY <2>4 DEF KnownToken
  <2> QED
    BY <2>1, <2>3, <2>5, <2>6
<1> QED
  BY <1>1, <1>2

\* A known token is found under its id.
LEMMA IdOfFacts ==
    ASSUME NEW U, NEW toks \in Vocabs(U), NEW t, KnownToken(toks, t)
    PROVE  IdOf(toks, t) \in IdsOf(toks) /\ toks[IdOf(toks, t) + 1] = t
<1> DEFINE k == CHOOSE k \in DOMAIN toks : toks[k] = t
<1>1. k \in DOMAIN toks /\ toks[k] = t
  BY DEF KnownToken
<1>2. Len(toks) \in Nat /\ DOMAIN toks = 1..Len(toks)
  BY DEF Vocabs
<1>3. IdOf(toks, t) = k - 1
  BY DEF IdOf
<1> HIDE DEF k
<1> QED
  BY <1>1, <1>2, <1>3 DEF IdsOf

LEMMA AddTokensFacts ==
    ASSUME NEW U, NEW toks \in Vocabs(U), NEW list \in Seq(U)
    PROVE  AddTokens(toks, list) \in Vocabs(U)
<1>1. Len(list) \in Nat /\ DOMAIN list = 1..Len(list)
  OBVIOUS
<1>2. \A a \in Vocabs(U), k \in 1..Len(list) : AddToken(a, list[k]) \in Vocabs(U)
  BY <1>1, AddTokenFacts
<1>3. PICK f : AddTokensRun(f, Vocabs(U), Len(list), toks, list)
  BY <1>1, <1>2, AddTokensTrace
<1> QED
  BY <1>1, <1>3 DEF AddTokensRun

\* The options, which training may add affixes to.
IsOptions(o) == o \in Options /\ IsFiniteSet(o.initial)

IsCorpus(c) == IsABag(c) /\ IsFiniteSet(DOMAIN c) /\ DOMAIN c \subseteq Seq(Characters)

\* add_special_tokens and compute_alphabet give a vocabulary.
LEMMA BaseTokensVocab ==
    ASSUME IsOptions(opts), IsCorpus(corpus)
    PROVE  IsVocab(BaseTokens)
<1>1. IsFiniteSet(CharsSeen)
  <2> DEFINE parts == {ToSet(w) : w \in DOMAIN corpus}
             f == [w \in DOMAIN corpus |-> ToSet(w)]
  <2>1. IsFiniteSet(parts)
    <3>1. f \in Surjection(DOMAIN corpus, parts)
      BY DEF Surjection
    <3>2. IsFiniteSet(DOMAIN corpus)
      BY DEF IsCorpus
    <3> HIDE DEF f, parts
    <3> QED
      BY <3>1, <3>2, FS_Surjection
  <2>2. ASSUME NEW w \in DOMAIN corpus PROVE IsFiniteSet(ToSet(w))
    <3>1. w \in Seq(Characters) /\ Len(w) \in Nat /\ DOMAIN w = 1..Len(w)
      BY DEF IsCorpus
    <3>2. w \in Surjection(1..Len(w), ToSet(w))
      BY <3>1 DEF Surjection, ToSet
    <3>3. IsFiniteSet(1..Len(w))
      BY <3>1, FS_Interval
    <3> QED
      BY <3>2, <3>3, FS_Surjection
  <2>3. IsFiniteSet(UNION parts)
    <3>1. \A p \in parts : IsFiniteSet(p)
      BY <2>2
    <3> HIDE DEF parts
    <3> QED
      BY <2>1, <3>1, FS_UNION
  <2> DEFINE fed == UNION parts
             given == opts.initial
  <2>4. CharsSeen = fed \cup given
    BY DEF CharsSeen, ToSet
  <2>5. IsFiniteSet(given)
    BY DEF IsOptions
  <2> HIDE DEF fed, given
  <2>6. IsFiniteSet(fed)
    BY <2>3 DEF fed
  <2> QED
    BY <2>4, <2>5, <2>6, FS_Union
<1>2. Cardinality(CharsSeen) \in Nat /\ opts.limit \in Nat
  BY <1>1, FS_CardinalityType DEF IsOptions, Options
<1> DEFINE n == Min({opts.limit, Cardinality(CharsSeen)})
<1>3. n \in Nat
  <2>1. n \in {opts.limit, Cardinality(CharsSeen)}
    BY <1>2 DEF Min
  <2> QED
    BY <1>2, <2>1
<1> DEFINE U == ToSet(opts.special) \cup ToSet(AlphabetTokens)
<1>4. AlphabetTokens \in Seq(U)
  <2>1. DOMAIN Alphabet = 1..n
    BY DEF Alphabet
  <2>2. AlphabetTokens = [k \in 1..n |-> Char(Alphabet[k])]
    BY <2>1 DEF AlphabetTokens
  <2> HIDE DEF n
  <2>3. \A k \in 1..n : AlphabetTokens[k] \in U
    BY <2>2 DEF ToSet
  <2>4. AlphabetTokens \in [1..n -> U]
    <3> HIDE DEF U
    <3> QED
      BY <2>2, <2>3
  <2> QED
    BY <1>3, <2>4
<1>5. opts.special \in Seq(U)
  <2>1. opts.special \in Seq(Token)
    BY DEF IsOptions, Options
  <2>2. opts.special \in [1..Len(opts.special) -> ToSet(opts.special)] /\ Len(opts.special) \in Nat
    BY <2>1 DEF ToSet
  <2> QED
    BY <2>2
<1>6. <<>> \in Vocabs(U)
  BY DEF Vocabs, Once
<1> HIDE DEF U
<1>7. AddTokens(<<>>, opts.special) \in Vocabs(U)
  BY <1>5, <1>6, AddTokensFacts
<1>8. BaseTokens \in Vocabs(U)
  BY <1>4, <1>7, AddTokensFacts DEF BaseTokens
<1> QED
  BY <1>8, VocabOwn

-------------------------------------------------------------------------------
(* tokenize_words: the words as symbols. *)

\* The words over some ids: lists of symbols linked within the word.
WordsOfLength(ids, n) ==
    [0..(n - 1) -> [c : ids, prev : (0..(n - 1)) \cup {NoSym}, next : (0..(n - 1)) \cup {NoSym},
                    len : Nat]]

WordsOver(ids) == UNION {WordsOfLength(ids, n) : n \in Nat}

\* The ids of a larger vocabulary do as well.
LEMMA WordsGrow ==
    ASSUME NEW ids, NEW more, ids \subseteq more
    PROVE  WordsOver(ids) \subseteq WordsOver(more)
<1>1. ASSUME NEW n \in Nat, NEW w \in WordsOfLength(ids, n) PROVE w \in WordsOfLength(more, n)
  BY <1>1 DEF WordsOfLength
<1> QED
  BY <1>1 DEF WordsOver

\* Word::add.
LEMMA WordOfTyped ==
    ASSUME NEW ids, NEW syms \in Seq(ids \X Nat)
    PROVE  WordOf(syms) \in WordsOver(ids)
<1> DEFINE n == Len(syms)
<1>1. n \in Nat /\ DOMAIN syms = 1..n
  OBVIOUS
<1>2. ASSUME NEW i \in 0..(n - 1)
      PROVE  /\ syms[i + 1][1] \in ids /\ syms[i + 1][2] \in Nat
             /\ i - 1 \in (0..(n - 1)) \cup {NoSym}
             /\ (IF i + 1 < n THEN i + 1 ELSE NoSym) \in (0..(n - 1)) \cup {NoSym}
  BY <1>1 DEF NoSym
<1>3. WordOf(syms) \in WordsOfLength(ids, n)
  BY <1>2 DEF WordOf, WordsOfLength
<1> QED
  BY <1>1, <1>3 DEF WordsOver

\* What a word has been turned into so far.
Tokenized(U, toks) ==
    {a \in [toks : Vocabs(U), syms : Seq(Nat \X Nat)] :
       Extends(a.toks, toks) /\ a.syms \in Seq(IdsOf(a.toks) \X Nat)}

LEMMA IsTokenized ==
    ASSUME NEW U, NEW toks, NEW new \in Vocabs(U), Extends(new, toks),
           NEW syms \in Seq(IdsOf(new) \X Nat)
    PROVE  [toks |-> new, syms |-> syms] \in Tokenized(U, toks)
<1>1. syms \in Seq(Nat \X Nat)
  <2>1. IdsOf(new) \X Nat \subseteq Nat \X Nat
    BY VocabOwn
  <2> HIDE DEF Tokenized
  <2> QED
    BY <2>1
<1> DEFINE a == [toks |-> new, syms |-> syms]
<1>2. a \in [toks : Vocabs(U), syms : Seq(Nat \X Nat)]
  BY <1>1
<1>3. a.toks = new /\ a.syms = syms
  OBVIOUS
<1> HIDE DEF a
<1>4. a \in Tokenized(U, toks)
  BY <1>2, <1>3 DEF Tokenized
<1> QED
  BY <1>4 DEF a

LEMMA TokenizeCharTyped ==
    ASSUME NEW U, NEW toks \in Vocabs(U), NEW a \in Tokenized(U, toks),
           NEW w \in Seq(Characters), NEW k \in DOMAIN w, KeyAt(w, k) \in U
    PROVE  TokenizeChar(a, w, k) \in Tokenized(U, toks)
<1> DEFINE key == KeyAt(w, k)
           new == IF Composite(key) THEN AddToken(a.toks, key) ELSE a.toks
           sym == <<IdOf(new, key), CharLen[w[k]]>>
<1>1. /\ a.toks \in Vocabs(U) /\ Extends(a.toks, toks)
      /\ a.syms \in Seq(IdsOf(a.toks) \X Nat) /\ a.toks \in Seq(U) /\ toks \in Seq(U)
  BY DEF Tokenized, Vocabs
<1>2. new \in Vocabs(U) /\ Extends(new, a.toks)
  BY <1>1, AddTokenFacts, ExtendsOrder
<1>3. CASE ~KnownToken(new, key)
  BY <1>3 DEF TokenizeChar
<1>4. CASE KnownToken(new, key)
  <2>1. TokenizeChar(a, w, k) = [toks |-> new, syms |-> Append(a.syms, sym)]
    BY <1>4 DEF TokenizeChar
  <2> HIDE DEF new, key
  <2>2. new \in Seq(U)
    BY <1>2 DEF Vocabs
  <2>3. Extends(new, toks)
    BY <1>1, <1>2, <2>2, ExtendsOrder
  <2>4. IdsOf(a.toks) \subseteq IdsOf(new) /\ IdsOf(new) \subseteq Nat
    BY <1>1, <1>2, <2>2, ExtendsIds, VocabOwn
  <2>5. sym \in IdsOf(new) \X Nat
    <3>1. IdOf(new, key) \in IdsOf(new)
      BY <1>2, <1>4, IdOfFacts
    <3>2. CharLen[w[k]] \in Nat
      BY CharAssumption
    <3> QED
      BY <3>1, <3>2
  <2> HIDE DEF sym
  <2>6. a.syms \in Seq(IdsOf(new) \X Nat)
    BY <1>1, <2>4
  <2>7. Append(a.syms, sym) \in Seq(IdsOf(new) \X Nat)
    BY <2>5, <2>6
  <2> QED
    BY <1>2, <2>1, <2>3, <2>7, IsTokenized
<1> QED
  BY <1>3, <1>4

LEMMA TokenizeWordTyped ==
    ASSUME NEW U, NEW toks \in Vocabs(U), NEW w \in Seq(Characters),
           \A k \in DOMAIN w : KeyAt(w, k) \in U
    PROVE  TokenizeWord(toks, w) \in Tokenized(U, toks)
<1>1. Len(w) \in Nat /\ DOMAIN w = 1..Len(w)
  OBVIOUS
<1>2. [toks |-> toks, syms |-> <<>>] \in Tokenized(U, toks)
  <2>1. toks \in Seq(U)
    BY DEF Vocabs
  <2>2. Extends(toks, toks)
    BY <2>1, ExtendsOrder
  <2>3. <<>> \in Seq(IdsOf(toks) \X Nat)
    OBVIOUS
  <2> QED
    BY <2>2, <2>3, IsTokenized
<1>3. \A a \in Tokenized(U, toks), k \in 1..Len(w) : TokenizeChar(a, w, k) \in Tokenized(U, toks)
  BY <1>1, TokenizeCharTyped
<1>4. PICK f : TokenizeWordRun(f, Tokenized(U, toks), Len(w), toks, w)
  BY <1>1, <1>2, <1>3, TokenizeWordTrace
<1> QED
  BY <1>1, <1>4 DEF TokenizeWordRun

\* What the words have been turned into so far.
TokenizedAll(U, toks) ==
    {a \in [toks : Vocabs(U), words : Seq(WordsOver(Nat))] :
       Extends(a.toks, toks) /\ a.words \in Seq(WordsOver(IdsOf(a.toks)))}

LEMMA IsTokenizedAll ==
    ASSUME NEW U, NEW toks, NEW new \in Vocabs(U), Extends(new, toks),
           NEW ws \in Seq(WordsOver(IdsOf(new)))
    PROVE  [toks |-> new, words |-> ws] \in TokenizedAll(U, toks)
<1>1. ws \in Seq(WordsOver(Nat))
  <2>1. WordsOver(IdsOf(new)) \subseteq WordsOver(Nat)
    BY VocabOwn, WordsGrow
  <2> QED
    BY <2>1
<1> DEFINE a == [toks |-> new, words |-> ws]
<1>2. a \in [toks : Vocabs(U), words : Seq(WordsOver(Nat))]
  BY <1>1
<1>3. a.toks = new /\ a.words = ws
  OBVIOUS
<1> HIDE DEF a
<1>4. a \in TokenizedAll(U, toks)
  BY <1>2, <1>3 DEF TokenizedAll
<1> QED
  BY <1>4 DEF a

LEMMA AddWordTyped ==
    ASSUME NEW U, NEW toks \in Vocabs(U), NEW a \in TokenizedAll(U, toks),
           NEW w \in Seq(Characters), \A k \in DOMAIN w : KeyAt(w, k) \in U
    PROVE  /\ AddWord(a, w) \in TokenizedAll(U, toks)
           /\ Len(AddWord(a, w).words) = Len(a.words) + 1
<1> DEFINE r == TokenizeWord(a.toks, w)
           word == WordOf(r.syms)
<1>1. /\ a.toks \in Vocabs(U) /\ Extends(a.toks, toks) /\ a.toks \in Seq(U) /\ toks \in Seq(U)
      /\ a.words \in Seq(WordsOver(IdsOf(a.toks)))
  BY DEF TokenizedAll, Vocabs
<1>2. /\ r.toks \in Vocabs(U) /\ Extends(r.toks, a.toks) /\ r.toks \in Seq(U)
      /\ r.syms \in Seq(IdsOf(r.toks) \X Nat)
  <2>1. r \in Tokenized(U, a.toks)
    BY <1>1, TokenizeWordTyped
  <2> HIDE DEF r
  <2> QED
    BY <2>1 DEF Tokenized, Vocabs
<1>3. AddWord(a, w) = [toks |-> r.toks, words |-> Append(a.words, word)]
  BY DEF AddWord
<1> HIDE DEF r
<1>4. Extends(r.toks, toks)
  BY <1>1, <1>2, ExtendsOrder
<1>5. word \in WordsOver(IdsOf(r.toks))
  BY <1>2, WordOfTyped
<1>6. WordsOver(IdsOf(a.toks)) \subseteq WordsOver(IdsOf(r.toks))
  <2>1. IdsOf(a.toks) \subseteq IdsOf(r.toks)
    BY <1>1, <1>2, ExtendsIds
  <2> QED
    BY <2>1, WordsGrow
<1> HIDE DEF word
<1>7. a.words \in Seq(WordsOver(IdsOf(r.toks)))
  BY <1>1, <1>6
<1>8. /\ Append(a.words, word) \in Seq(WordsOver(IdsOf(r.toks)))
      /\ Len(Append(a.words, word)) = Len(a.words) + 1
  BY <1>5, <1>7
<1>9. [toks |-> r.toks, words |-> Append(a.words, word)] \in TokenizedAll(U, toks)
  BY <1>2, <1>4, <1>8, IsTokenizedAll
<1> QED
  BY <1>3, <1>8, <1>9

LEMMA TokenizeAllTyped ==
    ASSUME NEW U, idToWord \in Vocabs(U), NEW order \in Seq(Seq(Characters)),
           \A j \in DOMAIN order : \A k \in DOMAIN order[j] : KeyAt(order[j], k) \in U
    PROVE  /\ TokenizeAll(order) \in TokenizedAll(U, idToWord)
           /\ Len(TokenizeAll(order).words) = Len(order)
<1> DEFINE V == TokenizedAll(U, idToWord)
           n == Len(order)
<1>1. n \in Nat /\ DOMAIN order = 1..n
  OBVIOUS
<1>2. [toks |-> idToWord, words |-> <<>>] \in V
  <2>1. idToWord \in Seq(U)
    BY DEF Vocabs
  <2>2. Extends(idToWord, idToWord)
    BY <2>1, ExtendsOrder
  <2>3. <<>> \in Seq(WordsOver(IdsOf(idToWord)))
    OBVIOUS
  <2> QED
    BY <2>2, <2>3, IsTokenizedAll
<1>3. \A a \in V, k \in 1..n : /\ AddWord(a, order[k]) \in V
                               /\ Len(AddWord(a, order[k]).words) = Len(a.words) + 1
  BY <1>1, AddWordTyped
<1> HIDE DEF V
<1>4. PICK f : TokenizeAllRun(f, V, n, order)
  <2> HIDE DEF n
  <2> QED
    BY <1>1, <1>2, <1>3, TokenizeAllTrace
<1> DEFINE T == {k \in 0..n : Len(f[k].words) = k}
<1>5. 0 \in T
  BY <1>1, <1>4 DEF TokenizeAllRun
<1>6. ASSUME NEW k \in 1..n, k - 1 \in T PROVE k \in T
  <2>1. k \in 0..n /\ k - 1 \in 0..n /\ f[k - 1] \in V
    <3>1. k \in 0..n /\ k - 1 \in 0..n
      BY <1>1
    <3>2. f \in [0..n -> V]
      BY <1>4 DEF TokenizeAllRun
    <3> QED
      BY <3>1, <3>2
  <2>2. f[k] = AddWord(f[k - 1], order[k]) /\ Len(f[k - 1].words) = k - 1
    BY <1>4, <1>6 DEF TokenizeAllRun
  <2>3. Len(f[k].words) = k - 1 + 1
    BY <1>3, <2>1, <2>2
  <2> QED
    BY <2>1, <2>3
<1>7. n \in T
  <2>1. n \in 0..n
    BY <1>1
  <2>2. \A k \in 0..n : k \in T
    <3> HIDE DEF T, n
    <3> QED
      BY <1>1, <1>5, <1>6, InductUpto
  <2> QED
    BY <2>1, <2>2
<1> QED
  BY <1>4, <1>7 DEF TokenizeAllRun, V

-------------------------------------------------------------------------------
(* Word::merge: the word keeps its symbols' types, the changes name its ids. *)

Pairs(ids) == ids \X ids

Changes(ids) == Seq(Pairs(ids) \X Int)

\* The symbols of a word.
LEMMA SymbolTyped ==
    ASSUME NEW ids, NEW n \in Nat, NEW w \in WordsOfLength(ids, n)
    PROVE  /\ DOMAIN w = 0..(n - 1)
           /\ \A i \in 0..(n - 1) :
                /\ w[i].c \in ids /\ w[i].len \in Nat
                /\ w[i].prev \in (0..(n - 1)) \cup {NoSym}
                /\ w[i].next \in (0..(n - 1)) \cup {NoSym}
                /\ w[i] = [c |-> w[i].c, prev |-> w[i].prev, next |-> w[i].next, len |-> w[i].len]
BY DEF WordsOfLength

LEMMA AbsorbRightTyped ==
    ASSUME NEW ids, NEW n \in Nat, NEW w \in WordsOfLength(ids, n), NEW r \in ids,
           NEW i \in 0..(n - 1), w[i].next \in 0..(n - 1)
    PROVE  AbsorbRight(w, i, r) \in WordsOfLength(ids, n)
<1> DEFINE j == w[i].next
           m == w[j].next
           Sym == [c : ids, prev : (0..(n - 1)) \cup {NoSym}, next : (0..(n - 1)) \cup {NoSym},
                   len : Nat]
           first == [c |-> r, prev |-> w[i].prev, next |-> m, len |-> w[i].len + w[j].len]
           at(k) == CASE k = i -> first
                      [] k = j -> [w[j] EXCEPT !.len = 0]
                      [] k = m -> [w[m] EXCEPT !.prev = i]
                      [] OTHER -> w[k]
<1>1. DOMAIN w = 0..(n - 1) /\ \A k \in 0..(n - 1) : w[k] \in Sym
  BY DEF WordsOfLength
<1>2. first \in Sym
  BY <1>1
<1>3. [w[j] EXCEPT !.len = 0] \in Sym
  BY <1>1
<1>4. m \in 0..(n - 1) => [w[m] EXCEPT !.prev = i] \in Sym
  BY <1>1
<1>5. AbsorbRight(w, i, r) = [k \in 0..(n - 1) |-> at(k)]
  BY <1>1 DEF AbsorbRight
<1>6. ASSUME NEW k \in 0..(n - 1) PROVE at(k) \in Sym
  <2> HIDE DEF first, Sym
  <2> QED
    BY <1>1, <1>2, <1>3, <1>4
<1> HIDE DEF at
<1> QED
  BY <1>5, <1>6 DEF WordsOfLength

LEMMA ChangesAtTyped ==
    ASSUME NEW ids, NEW n \in Nat, NEW w \in WordsOfLength(ids, n), NEW p \in Pairs(ids),
           NEW r \in ids, NEW i \in 0..(n - 1), w[i].next \in 0..(n - 1)
    PROVE  ChangesAt(w, i, p, r) \in Changes(ids)
<1> DEFINE l == w[i].prev
           m == w[w[i].next].next
           before == << <<<<w[l].c, p[1]>>, -1>>, <<<<w[l].c, r>>, 1>> >>
           after == << <<<<p[2], w[m].c>>, -1>>, <<<<r, w[m].c>>, 1>> >>
           Change == Pairs(ids) \X Int
<1>1. p[1] \in ids /\ p[2] \in ids
  BY DEF Pairs
<1>2. l # NoSym => w[l].c \in ids
  BY SymbolTyped, ZenonT(30)
<1>3. m # NoSym => w[m].c \in ids
  BY SymbolTyped, ZenonT(30)
<1>4. l # NoSym => before \in Seq(Change)
  <2>1. l # NoSym => <<<<w[l].c, p[1]>>, -1>> \in Change /\ <<<<w[l].c, r>>, 1>> \in Change
    BY <1>1, <1>2 DEF Pairs
  <2> HIDE DEF Change
  <2> QED
    BY <2>1
<1>5. m # NoSym => after \in Seq(Change)
  <2>1. m # NoSym => <<<<p[2], w[m].c>>, -1>> \in Change /\ <<<<r, w[m].c>>, 1>> \in Change
    BY <1>1, <1>3 DEF Pairs
  <2> HIDE DEF Change
  <2> QED
    BY <2>1
<1>6. ChangesAt(w, i, p, r)
        = (IF l = NoSym THEN <<>> ELSE before) \o (IF m = NoSym THEN <<>> ELSE after)
  BY DEF ChangesAt
<1> HIDE DEF l, m, before, after, Change
<1>7. <<>> \in Seq(Change)
  OBVIOUS
<1>8. /\ (IF l = NoSym THEN <<>> ELSE before) \in Seq(Change)
      /\ (IF m = NoSym THEN <<>> ELSE after) \in Seq(Change)
  BY <1>4, <1>5, <1>7
<1>9. \A a, b \in Seq(Change) : a \o b \in Seq(Change)
  OBVIOUS
<1>10. ChangesAt(w, i, p, r) \in Seq(Change)
  BY <1>6, <1>8, <1>9
<1> QED
  BY <1>10 DEF Changes, Change

\* What Word::merge has made of a word of n symbols so far.
Merging(ids, n) == [word : WordsOfLength(ids, n), changes : Changes(ids)]

LEMMA MergeStepTyped ==
    ASSUME NEW ids, NEW n \in Nat, NEW a \in Merging(ids, n), NEW p \in Pairs(ids),
           NEW r \in ids, NEW i \in 0..(n - 1), NEW max
    PROVE  MergeStep(a, i, p, r, max) \in Merging(ids, n)
<1>1. CASE ~Matches(a.word, i, p, max)
  BY <1>1 DEF MergeStep
<1>2. CASE Matches(a.word, i, p, max)
  <2>1. a.word \in WordsOfLength(ids, n) /\ a.changes \in Changes(ids)
    BY DEF Merging
  <2>2. a.word[i].next \in 0..(n - 1)
    <3>1. a.word[i].next # NoSym
      BY <1>2 DEF Matches, HasRight
    <3>2. \A w \in WordsOfLength(ids, n) : w[i].next \in (0..(n - 1)) \cup {NoSym}
      BY SymbolTyped
    <3>3. a.word[i].next \in (0..(n - 1)) \cup {NoSym}
      BY <2>1, <3>2
    <3> QED
      BY <3>1, <3>3
  <2>3. /\ AbsorbRight(a.word, i, r) \in WordsOfLength(ids, n)
        /\ ChangesAt(a.word, i, p, r) \in Changes(ids)
    BY <2>1, <2>2, AbsorbRightTyped, ChangesAtTyped
  <2>4. \A b, c \in Changes(ids) : b \o c \in Changes(ids)
    BY DEF Changes
  <2>5. MergeStep(a, i, p, r, max) = [word    |-> AbsorbRight(a.word, i, r),
                                      changes |-> a.changes \o ChangesAt(a.word, i, p, r)]
    BY <1>2 DEF MergeStep
  <2> QED
    BY <2>1, <2>3, <2>4, <2>5 DEF Merging
<1> QED
  BY <1>1, <1>2

\* The size of a word.
LEMMA WordSize ==
    ASSUME NEW n \in Nat
    PROVE  IsFiniteSet(0..(n - 1)) /\ Cardinality(0..(n - 1)) = n
<1>1. IsFiniteSet(0..(n - 1)) /\ Cardinality(0..(n - 1)) = IF 0 > n - 1 THEN 0 ELSE (n - 1) - 0 + 1
  BY FS_Interval
<1> QED
  BY <1>1

LEMMA MergeWordTyped ==
    ASSUME NEW ids, NEW w \in WordsOver(ids), NEW p \in Pairs(ids), NEW r \in ids, NEW max
    PROVE  /\ MergeWord(w, p, r, max).word \in WordsOver(ids)
           /\ MergeWord(w, p, r, max).changes \in Changes(ids)
<1>1. PICK n \in Nat : w \in WordsOfLength(ids, n)
  BY DEF WordsOver
<1>2. Cardinality(DOMAIN w) = n
  BY <1>1, SymbolTyped, WordSize
<1>3. [word |-> w, changes |-> <<>>] \in Merging(ids, n)
  <2>1. <<>> \in Changes(ids)
    BY DEF Changes
  <2> QED
    BY <1>1, <2>1 DEF Merging
<1>4. \A a \in Merging(ids, n), k \in 1..n : MergeStep(a, k - 1, p, r, max) \in Merging(ids, n)
  <2>1. \A k \in 1..n : k - 1 \in 0..(n - 1)
    OBVIOUS
  <2> QED
    BY <2>1, MergeStepTyped
<1>5. PICK f : MergeWordRun(f, Merging(ids, n), n, w, p, r, max)
  BY <1>2, <1>3, <1>4, MergeWordTrace
<1>6. MergeWord(w, p, r, max) \in Merging(ids, n)
  <2>1. n \in 0..n
    OBVIOUS
  <2> QED
    BY <1>5, <2>1 DEF MergeWordRun
<1> QED
  BY <1>6 DEF Merging, WordsOver

LEMMA NetChangeTyped ==
    ASSUME NEW ids, NEW changes \in Changes(ids), NEW p
    PROVE  NetChange(changes, p) \in Int
<1>1. Len(changes) \in Nat /\ DOMAIN changes = 1..Len(changes)
  BY DEF Changes
<1>2. ASSUME NEW a \in Int, NEW k \in 1..Len(changes) PROVE CountChange(a, p, changes[k]) \in Int
  <2>1. changes[k][2] \in Int
    BY <1>1 DEF Changes
  <2> QED
    BY <2>1 DEF CountChange
<1>3. PICK f : NetChangeRun(f, Int, Len(changes), changes, p)
  <2>1. 0 \in Int
    OBVIOUS
  <2> QED
    BY <1>1, <1>2, <2>1, NetChangeTrace
<1>4. f \in [0..Len(changes) -> Int] /\ NetChange(changes, p) = f[Len(changes)]
  BY <1>3 DEF NetChangeRun
<1> QED
  BY <1>1, <1>4

\* A change names a pair of the word's ids.
LEMMA ChangedPairsTyped ==
    ASSUME NEW ids, NEW changes \in Changes(ids)
    PROVE  ChangedPairs(changes) \subseteq Pairs(ids)
<1>1. \A k \in DOMAIN changes : changes[k] \in Pairs(ids) \X Int
  BY DEF Changes
<1> QED
  BY <1>1 DEF ChangedPairs

LEMMA VectorPairsTyped ==
    ASSUME NEW ids, NEW w \in WordsOver(ids)
    PROVE  VectorPairs(w) \subseteq Pairs(ids) /\ \A p : VectorOccurrences(w, p) \in Nat
<1>1. PICK n \in Nat : w \in WordsOfLength(ids, n)
  BY DEF WordsOver
<1>2. \A j \in Adjacent(w) : j \in 0..(n - 1) /\ j + 1 \in 0..(n - 1)
  BY <1>1, SymbolTyped DEF Adjacent
<1>3. \A j \in Adjacent(w) : w[j].c \in ids /\ w[j + 1].c \in ids
  BY <1>1, <1>2, SymbolTyped
<1>4. VectorPairs(w) \subseteq Pairs(ids)
  BY <1>3 DEF VectorPairs, Pairs
<1>5. ASSUME NEW p PROVE VectorOccurrences(w, p) \in Nat
  <2> DEFINE S == {j \in Adjacent(w) : <<w[j].c, w[j + 1].c>> = p}
  <2>1. S \subseteq 0..(n - 1)
    BY <1>2
  <2>2. IsFiniteSet(S)
    BY <2>1, WordSize, FS_Subset
  <2>3. Cardinality(S) \in Nat
    BY <2>2, FS_CardinalityType
  <2> QED
    BY <2>3 DEF VectorOccurrences
<1> QED
  BY <1>4, <1>5

LEMMA ToInt32Typed ==
    ASSUME NEW n \in Int
    PROVE  ToInt32(n) \in Int
<1> DEFINE m == 2 * HalfInt32
<1>1. HalfInt32 \in Int /\ m \in Int /\ m > 0
  BY HardwareAssumption
<1>2. n + HalfInt32 \in Int
  BY <1>1
<1> HIDE DEF m
<1>3. (n + HalfInt32) % m \in Int
  BY <1>1, <1>2
<1> QED
  BY <1>1, <1>3 DEF ToInt32, m

-------------------------------------------------------------------------------
(* The heap's bags, the statistics and the slices. *)

LEMMA SetBag ==
    ASSUME NEW S
    PROVE  IsABag(SetToBag(S)) /\ DOMAIN SetToBag(S) = S
BY DEF SetToBag, IsABag

LEMMA BagSum ==
    ASSUME NEW b, NEW c, IsABag(b), IsABag(c)
    PROVE  IsABag(b (+) c) /\ DOMAIN (b (+) c) = DOMAIN b \cup DOMAIN c
<1>1. DOMAIN (b (+) c) = DOMAIN b \cup DOMAIN c
  BY DEF (+)
<1>2. ASSUME NEW e \in DOMAIN b \cup DOMAIN c
      PROVE  (b (+) c)[e] \in {n \in Nat : n > 0}
  <2>1. /\ e \in DOMAIN b => b[e] \in Nat /\ b[e] > 0
        /\ e \in DOMAIN c => c[e] \in Nat /\ c[e] > 0
    BY DEF IsABag
  <2>2. (b (+) c)[e] = (IF e \in DOMAIN b THEN b[e] ELSE 0) + (IF e \in DOMAIN c THEN c[e] ELSE 0)
    BY DEF (+)
  <2> QED
    BY <2>1, <2>2
<1>3. b (+) c = [e \in DOMAIN b \cup DOMAIN c |-> (b (+) c)[e]]
  BY DEF (+)
<1> QED
  BY <1>1, <1>2, <1>3 DEF IsABag

LEMMA BagRest ==
    ASSUME NEW b, NEW c, IsABag(b), IsABag(c)
    PROVE  IsABag(b (-) c) /\ DOMAIN (b (-) c) \subseteq DOMAIN b
<1> DEFINE B == [e \in DOMAIN b |-> IF e \in DOMAIN c THEN b[e] - c[e] ELSE b[e]]
           D == {d \in DOMAIN B : B[d] > 0}
<1>1. b (-) c = [e \in D |-> B[e]]
  BY DEF (-)
<1>2. ASSUME NEW e \in D PROVE B[e] \in {n \in Nat : n > 0} /\ e \in DOMAIN b
  <2>1. e \in DOMAIN b /\ B[e] > 0
    OBVIOUS
  <2>2. /\ b[e] \in Nat /\ (e \in DOMAIN c => c[e] \in Nat)
    BY <2>1 DEF IsABag
  <2>3. B[e] \in Int
    BY <2>1, <2>2
  <2> QED
    BY <2>1, <2>3
<1> HIDE DEF B, D
<1> QED
  BY <1>1, <1>2 DEF IsABag

LEMMA EmptyBagFacts ==
    IsABag(EmptyBag) /\ DOMAIN EmptyBag = {}
BY SetBag DEF EmptyBag

\* Pairs over some ids, with a count and the words they were seen in.
StatsOver(st, ids, places) ==
    \A p \in DOMAIN st : p \in Pairs(ids) /\ st[p].count \in Int /\ st[p].positions \subseteq places

\* Heap entries of pairs with statistics.
HeapOver(h, st, places) ==
    IsABag(h) /\ \A e \in DOMAIN h : e.pair \in DOMAIN st /\ e.positions \subseteq places

LEMMA EntryFields ==
    ASSUME NEW p, NEW s
    PROVE  Entry(p, s).pair = p /\ Entry(p, s).positions = s.positions
BY DEF Entry

LEMMA EntriesTyped ==
    ASSUME NEW st, NEW places, \A p \in DOMAIN st : st[p].positions \subseteq places,
           NEW ps \in SUBSET DOMAIN st
    PROVE  HeapOver(Entries(st, ps), st, places)
<1> DEFINE S == {Entry(p, st[p]) : p \in {q \in ps : st[q].count > 0}}
<1>1. ASSUME NEW e \in S PROVE e.pair \in DOMAIN st /\ e.positions \subseteq places
  <2>1. PICK p \in ps : e = Entry(p, st[p])
    OBVIOUS
  <2> QED
    BY <2>1, EntryFields
<1>2. Entries(st, ps) = SetToBag(S)
  BY DEF Entries
<1> HIDE DEF S
<1> QED
  BY <1>1, <1>2, SetBag DEF HeapOver

LEMMA HeapOverSum ==
    ASSUME NEW h, NEW g, NEW st, NEW places, HeapOver(h, st, places), HeapOver(g, st, places)
    PROVE  HeapOver(h (+) g, st, places)
BY BagSum DEF HeapOver

LEMMA HeapOverRest ==
    ASSUME NEW h, NEW st, NEW places, HeapOver(h, st, places), NEW S
    PROVE  HeapOver(h (-) SetToBag(S), st, places)
<1>1. IsABag(h) /\ IsABag(SetToBag(S))
  BY SetBag DEF HeapOver
<1>2. IsABag(h (-) SetToBag(S)) /\ DOMAIN (h (-) SetToBag(S)) \subseteq DOMAIN h
  BY <1>1, BagRest
<1> QED
  BY <1>2 DEF HeapOver

\* Words over some ids, and how often each was fed.
IsWords(ws, cs, ids) == ws \in Seq(WordsOver(ids)) /\ cs \in Seq(Nat) /\ Len(cs) = Len(ws)

LEMMA WordsFacts ==
    ASSUME NEW ids, NEW ws, NEW cs, IsWords(ws, cs, ids)
    PROVE  /\ Len(ws) \in Nat /\ DOMAIN ws = 1..Len(ws) /\ IsFiniteSet(DOMAIN ws)
           /\ \A k \in DOMAIN ws : ws[k] \in WordsOver(ids) /\ cs[k] \in Nat
<1>1. Len(ws) \in Nat /\ DOMAIN ws = 1..Len(ws) /\ DOMAIN cs = 1..Len(ws)
  BY DEF IsWords
<1>2. IsFiniteSet(1..Len(ws))
  BY <1>1, FS_Interval
<1>3. \A k \in DOMAIN ws : ws[k] \in WordsOver(ids)
  BY DEF IsWords
<1>4. \A k \in DOMAIN ws : cs[k] \in Nat
  BY <1>1 DEF IsWords
<1> QED
  BY <1>1, <1>2, <1>3, <1>4

\* count_pairs.
LEMMA PairStatsTyped ==
    ASSUME NEW ids, IsWords(words, counts, ids)
    PROVE  StatsOver(PairStats, ids, DOMAIN words)
<1> DEFINE found == UNION {VectorPairs(words[k]) : k \in DOMAIN words}
<1>1. DOMAIN PairStats = found
  BY DEF PairStats
<1>2. found \subseteq Pairs(ids)
  <2>1. \A k \in DOMAIN words : VectorPairs(words[k]) \subseteq Pairs(ids)
    BY WordsFacts, VectorPairsTyped
  <2> QED
    BY <2>1
<1>3. ASSUME NEW p \in found
      PROVE  PairStats[p].count \in Int /\ PairStats[p].positions \subseteq DOMAIN words
  <2> DEFINE f == [k \in DOMAIN words |-> counts[k] * VectorOccurrences(words[k], p)]
             places == {k \in DOMAIN words : p \in VectorPairs(words[k])}
  <2>1. PairStats[p] = [count |-> SumFunction(f), positions |-> places]
    BY DEF PairStats
  <2>2. f \in [DOMAIN words -> Int]
    <3>1. ASSUME NEW k \in DOMAIN words PROVE counts[k] * VectorOccurrences(words[k], p) \in Int
      <4>1. counts[k] \in Int /\ VectorOccurrences(words[k], p) \in Int
        BY WordsFacts, VectorPairsTyped
      <4> QED
        BY <4>1
    <3> QED
      BY <3>1
  <2>3. IsFiniteSet(DOMAIN words)
    BY WordsFacts
  <2> HIDE DEF f
  <2>4. SumFunction(f) \in Int
    BY <2>2, <2>3, SumInt
  <2> QED
    BY <2>1, <2>4
<1> HIDE DEF found
<1> QED
  BY <1>1, <1>2, <1>3 DEF StatsOver

\* The order of a finite set's elements.
LEMMA OrderFacts ==
    ASSUME NEW S, IsFiniteSet(S), NEW order \in SetToSeqs(S)
    PROVE  order \in Seq(S) /\ Len(order) \in Nat /\ DOMAIN order = 1..Len(order)
<1>1. Cardinality(S) \in Nat
  BY FS_CardinalityType
<1>2. order \in [1..Cardinality(S) -> S]
  BY DEF SetToSeqs
<1> QED
  BY <1>1, <1>2

\* There is at least one worker.
LEMMA WorkersTyped ==
    ASSUME NEW n \in Nat
    PROVE  NumWorkers(n) \in Nat \ {0}
<1> DEFINE hw == IF Hardware = 0 THEN 4 ELSE Min({Hardware, 16})
<1>1. Hardware \in Nat
  BY HardwareAssumption
<1>2. hw \in Nat \ {0}
  <2>1. Hardware # 0 => Min({Hardware, 16}) \in {Hardware, 16}
    BY <1>1, MinOfTwo
  <2> QED
    BY <1>1, <2>1
<1>3. NumWorkers(n) = IF n = 0 THEN 1 ELSE Min({hw, n})
  BY DEF NumWorkers
<1> HIDE DEF hw
<1>4. Min({hw, n}) \in {hw, n}
  BY <1>2, MinOfTwo
<1> QED
  BY <1>2, <1>3, <1>4

\* Every slice holds some of the positions.
LEMMA SlicesTyped ==
    ASSUME NEW S, NEW order \in Seq(S)
    PROVE  /\ IsFiniteSet(DOMAIN Slices(order))
           /\ \A t \in DOMAIN Slices(order) : Slices(order)[t] \subseteq S
<1> DEFINE n == Len(order)
           hw == NumWorkers(n)
           chunk == (n + hw - 1) \div hw
           slice(t) == {order[k] : k \in (t * chunk + 1)..Min({(t + 1) * chunk, n})}
<1>1. n \in Nat /\ DOMAIN order = 1..n
  OBVIOUS
<1>2. hw \in Nat \ {0}
  BY <1>1, WorkersTyped
<1>3. Slices(order) = [t \in 0..(hw - 1) |-> slice(t)]
  BY DEF Slices
<1> HIDE DEF n, hw
<1>4. chunk \in Nat
  <2>1. n + hw - 1 \in Nat
    BY <1>1, <1>2
  <2> QED
    BY <1>2, <2>1, Quotient
<1> HIDE DEF chunk
<1>5. ASSUME NEW t \in 0..(hw - 1) PROVE slice(t) \subseteq S
  <2>1. t \in Nat /\ t * chunk \in Nat /\ (t + 1) * chunk \in Nat
    BY <1>2, <1>4
  <2>2. Min({(t + 1) * chunk, n}) \in Int /\ Min({(t + 1) * chunk, n}) <= n
    <3> DEFINE hi == (t + 1) * chunk
    <3>1. hi \in Int
      BY <2>1
    <3> HIDE DEF hi
    <3>2. Min({hi, n}) \in {hi, n} /\ Min({hi, n}) <= n
      <4>1. hi \in Int /\ n \in Int
        BY <1>1, <3>1
      <4> HIDE DEF n
      <4> QED
        BY <4>1, MinOfTwo
    <3> QED
      BY <1>1, <3>1, <3>2 DEF hi
  <2>3. \A k \in (t * chunk + 1)..Min({(t + 1) * chunk, n}) : k \in 1..n
    BY <1>1, <2>1, <2>2
  <2>4. \A k \in 1..n : order[k] \in S
    BY <1>1
  <2> QED
    BY <2>3, <2>4
<1>6. IsFiniteSet(0..(hw - 1))
  BY <1>2, FS_Interval
<1> HIDE DEF slice
<1> QED
  BY <1>3, <1>5, <1>6

\* Words and changes that Word::merge made at some places.
IsMerged(merged, places, ids) ==
    /\ DOMAIN merged = places
    /\ \A w \in places : /\ merged[w].word \in WordsOver(ids)
                         /\ merged[w].changes \in Changes(ids)

LEMMA SliceDeltaTyped ==
    ASSUME NEW ids, IsWords(words, counts, ids), NEW merged, NEW places \in SUBSET DOMAIN words,
           IsMerged(merged, places, ids), NEW slice \in SUBSET places, NEW p
    PROVE  SliceDelta(merged, slice, p) \in Int
<1> DEFINE f == [w \in slice |-> ToInt32(counts[w]) * NetChange(merged[w].changes, p)]
<1>1. IsFiniteSet(slice)
  BY WordsFacts, FS_Subset
<1>2. f \in [slice -> Int]
  <2>1. ASSUME NEW w \in slice
        PROVE  ToInt32(counts[w]) * NetChange(merged[w].changes, p) \in Int
    <3>1. counts[w] \in Int
      BY WordsFacts
    <3>2. ToInt32(counts[w]) \in Int
      BY <3>1, ToInt32Typed
    <3>3. merged[w].changes \in Changes(ids)
      BY DEF IsMerged
    <3>4. NetChange(merged[w].changes, p) \in Int
      BY <3>3, NetChangeTyped
    <3> QED
      BY <3>2, <3>4
  <2> QED
    BY <2>1
<1>3. SliceDelta(merged, slice, p) = SumFunction(f)
  BY DEF SliceDelta
<1> HIDE DEF f
<1> QED
  BY <1>1, <1>2, <1>3, SumInt

LEMMA AffectedTyped ==
    ASSUME NEW ids, NEW merged, NEW places, IsMerged(merged, places, ids), NEW slices,
           \A t \in DOMAIN slices : slices[t] \subseteq places
    PROVE  Affected(merged, slices) \subseteq Pairs(ids)
<1>1. \A w \in places : ChangedPairs(merged[w].changes) \subseteq Pairs(ids)
  BY ChangedPairsTyped DEF IsMerged
<1>2. ASSUME NEW p \in Affected(merged, slices) PROVE p \in Pairs(ids)
  <2>1. PICK t \in DOMAIN slices : p \in UNION {ChangedPairs(merged[w].changes) : w \in slices[t]}
    BY <1>2 DEF Affected
  <2>2. PICK w \in slices[t] : p \in ChangedPairs(merged[w].changes)
    BY <2>1
  <2> QED
    BY <1>1, <2>2
<1> QED
  BY <1>2

\* The statistics after a merge.
LEMMA NewStatsTyped ==
    ASSUME NEW ids, IsWords(words, counts, ids), StatsOver(stats, ids, DOMAIN words),
           NEW merged, NEW places \in SUBSET DOMAIN words, IsMerged(merged, places, ids),
           NEW slices, IsFiniteSet(DOMAIN slices),
           \A t \in DOMAIN slices : slices[t] \subseteq places,
           NEW affected \in SUBSET Pairs(ids), NEW newWords
    PROVE  /\ StatsOver(NewStats(merged, slices, affected, newWords), ids, DOMAIN words)
           /\ DOMAIN NewStats(merged, slices, affected, newWords) = DOMAIN stats \cup affected
<1> DEFINE new == NewStats(merged, slices, affected, newWords)
<1>1. DOMAIN new = DOMAIN stats \cup affected
  BY DEF NewStats
<1>2. ASSUME NEW p \in DOMAIN stats \cup affected
      PROVE  p \in Pairs(ids) /\ new[p].count \in Int /\ new[p].positions \subseteq DOMAIN words
  <2>1. p \in Pairs(ids)
    BY DEF StatsOver
  <2>2. CASE p \notin affected
    <3>1. new[p] = stats[p]
      BY <2>2 DEF NewStats
    <3> HIDE DEF new
    <3> QED
      BY <2>1, <2>2, <3>1 DEF StatsOver
  <2>3. CASE p \in affected
    <3> DEFINE f == [t \in DOMAIN slices |-> SliceDelta(merged, slices[t], p)]
               at == {w \in DOMAIN merged : p \in VectorPairs(newWords[w])}
               old == StatsOf(stats, p).count
    <3>1. new[p] = [count |-> old + SumFunction(f), positions |-> at]
      BY <2>3 DEF NewStats
    <3>2. old \in Int
      BY DEF StatsOf, StatsOver
    <3>3. SumFunction(f) \in Int
      <4>1. f \in [DOMAIN slices -> Int]
        BY SliceDeltaTyped
      <4> HIDE DEF f
      <4> QED
        BY <4>1, SumInt
    <3>4. at \subseteq DOMAIN words
      BY DEF IsMerged
    <3> HIDE DEF new, f, at, old
    <3> QED
      BY <2>1, <3>1, <3>2, <3>3, <3>4
  <2> QED
    BY <2>2, <2>3
<1> HIDE DEF new
<1>3. StatsOver(new, ids, DOMAIN words)
  BY <1>1, <1>2 DEF StatsOver
<1> QED
  BY <1>1, <1>3 DEF new

-------------------------------------------------------------------------------
(* The invariant. *)

Phases == {"idle", "tokenize", "count", "loop", "write"}

Statuses == {"none", "OK", "FailedPrecondition"}

\* The words of a training and their pairs, over the ids there are.
PairsInv ==
    /\ IsWords(words, counts, Ids)
    /\ StatsOver(stats, Ids, DOMAIN words)
    /\ HeapOver(heap, stats, DOMAIN words)

\* The token a pair spells.
Spelling(toks, p) ==
    [pre |-> toks[p[1] + 1].pre, text |-> toks[p[1] + 1].text \o toks[p[2] + 1].text,
     suf |-> toks[p[2] + 1].suf]

\* A merge names two tokens, and the token they spell.
MergesOver(ms, toks) ==
    /\ ms \in Seq(Pairs(IdsOf(toks)) \X IdsOf(toks))
    /\ \A k \in DOMAIN ms : toks[ms[k][2] + 1] = Spelling(toks, ms[k][1])

\* What train() has not computed yet.
PhaseInv ==
    /\ pc \in Phases /\ status \in Statuses
    /\ pc \in {"idle", "tokenize", "count"} => stats = <<>> /\ heap = EmptyBag /\ merges = <<>>
    /\ pc \in {"idle", "tokenize"} => words = <<>> /\ counts = <<>>

IInv ==
    /\ IsCorpus(corpus) /\ IsOptions(opts)
    /\ IsVocab(idToWord)
    /\ PairsInv
    /\ MergesOver(merges, idToWord)
    /\ PhaseInv
    /\ VocabConsistent

\* Between phases nothing is typed wrongly, whatever the ids.
LEMMA NothingYet ==
    ASSUME NEW ids
    PROVE  /\ IsWords(<<>>, <<>>, ids)
           /\ \A places : StatsOver(<<>>, ids, places)
           /\ \A st, places : HeapOver(EmptyBag, st, places)
           /\ \A toks : MergesOver(<<>>, toks)
<1>1. IsWords(<<>>, <<>>, ids)
  BY DEF IsWords
<1>2. \A places : StatsOver(<<>>, ids, places)
  BY DEF StatsOver
<1>3. \A st, places : HeapOver(EmptyBag, st, places)
  BY EmptyBagFacts DEF HeapOver
<1>4. \A toks : MergesOver(<<>>, toks)
  BY DEF MergesOver
<1> QED
  BY <1>1, <1>2, <1>3, <1>4

LEMMA EmptyVocab ==
    IsVocab(<<>>)
BY DEF IsVocab, Vocabs, Once

\* A step that touches none of the variables of a training and keeps the model.
LEMMA KeepPairs ==
    ASSUME IInv, UNCHANGED loopVars
    PROVE  IsVocab(idToWord)' /\ PairsInv' /\ MergesOver(merges', idToWord')
BY DEF IInv, loopVars, PairsInv, Ids

LEMMA KeepModel ==
    ASSUME VocabConsistent, UNCHANGED model
    PROVE  VocabConsistent'
BY DEF VocabConsistent

LEMMA InitInv ==
    ASSUME Init
    PROVE  IInv
<1>1. corpus = EmptyBag /\ opts \in OptionSets /\ idToWord = <<>> /\ words = <<>>
      /\ counts = <<>> /\ stats = <<>> /\ heap = EmptyBag /\ merges = <<>>
      /\ status = "none" /\ pc = "idle"
  BY DEF Init
<1>2. IsCorpus(corpus)
  <2>1. DOMAIN corpus = {} /\ IsABag(corpus)
    BY <1>1, EmptyBagFacts
  <2> QED
    BY <2>1, FS_EmptySet DEF IsCorpus
<1>3. IsOptions(opts)
  BY <1>1, OptionAssumption DEF IsOptions
<1>4. PairsInv
  BY <1>1, NothingYet DEF PairsInv
<1>5. MergesOver(merges, idToWord)
  BY <1>1, NothingYet
<1>6. PhaseInv
  BY <1>1 DEF PhaseInv, Phases, Statuses
<1>7. VocabConsistent
  <2>1. model.vocab = <<>> /\ model.merges = <<>>
    BY DEF Init, EmptyModel
  <2> QED
    BY <2>1 DEF VocabConsistent
<1> QED
  BY <1>1, <1>2, <1>3, <1>4, <1>5, <1>6, <1>7, EmptyVocab DEF IInv

-------------------------------------------------------------------------------
(* Each action keeps it. *)

LEMMA FeedInv ==
    ASSUME IInv, Feed
    PROVE  IInv'
<1>1. PICK b \in Batches : corpus' = corpus (+) b
  BY DEF Feed
<1>2. UNCHANGED <<opts, loopVars, model, status, pc>>
  BY DEF Feed
<1>3. IsCorpus(corpus')
  <2>1. IsCorpus(corpus) /\ IsCorpus(b)
    BY BatchAssumption DEF IInv, IsCorpus
  <2>2. IsABag(corpus (+) b) /\ DOMAIN (corpus (+) b) = DOMAIN corpus \cup DOMAIN b
    BY <2>1, BagSum DEF IsCorpus
  <2>3. IsFiniteSet(DOMAIN corpus \cup DOMAIN b)
    BY <2>1, FS_Union DEF IsCorpus
  <2> QED
    BY <1>1, <2>1, <2>2, <2>3 DEF IsCorpus
<1>4. IsVocab(idToWord)' /\ PairsInv' /\ MergesOver(merges', idToWord')
  BY <1>2, KeepPairs
<1>5. PhaseInv'
  BY <1>2 DEF IInv, PhaseInv, loopVars
<1>6. VocabConsistent'
  BY <1>2, KeepModel DEF IInv
<1>7. IsOptions(opts')
  BY <1>2 DEF IInv
<1> QED
  BY <1>3, <1>4, <1>5, <1>6, <1>7 DEF IInv

LEMMA TrainEmptyInv ==
    ASSUME IInv, TrainEmpty
    PROVE  IInv'
<1>1. UNCHANGED <<corpus, opts, loopVars, model, pc>> /\ status' = "FailedPrecondition"
  BY DEF TrainEmpty
<1>2. IsVocab(idToWord)' /\ PairsInv' /\ MergesOver(merges', idToWord')
  BY <1>1, KeepPairs
<1>3. PhaseInv'
  BY <1>1 DEF IInv, PhaseInv, loopVars, Statuses
<1>4. VocabConsistent'
  BY <1>1, KeepModel DEF IInv
<1>5. IsCorpus(corpus') /\ IsOptions(opts')
  BY <1>1 DEF IInv
<1> QED
  BY <1>2, <1>3, <1>4, <1>5 DEF IInv

LEMMA StopLoopInv ==
    ASSUME IInv, StopLoop
    PROVE  IInv'
<1>1. UNCHANGED <<corpus, opts, loopVars, model, status>> /\ pc = "loop" /\ pc' = "write"
  BY DEF StopLoop
<1>2. IsVocab(idToWord)' /\ PairsInv' /\ MergesOver(merges', idToWord')
  BY <1>1, KeepPairs
<1>3. PhaseInv'
  BY <1>1 DEF IInv, PhaseInv, loopVars, Phases
<1>4. VocabConsistent'
  BY <1>1, KeepModel DEF IInv
<1>5. IsCorpus(corpus') /\ IsOptions(opts')
  BY <1>1 DEF IInv
<1> QED
  BY <1>2, <1>3, <1>4, <1>5 DEF IInv

LEMMA StartTrainInv ==
    ASSUME IInv, StartTrain
    PROVE  IInv'
<1>1. /\ pc = "idle" /\ pc' = "tokenize" /\ idToWord' = BaseTokens
      /\ opts' = [opts EXCEPT !.prefix = @ \/ model.prefix, !.suffix = @ \/ model.suffix]
      /\ UNCHANGED <<corpus, words, counts, texts, stats, heap, merges, model, status>>
  BY DEF StartTrain
<1>2. /\ stats' = <<>> /\ heap' = EmptyBag /\ merges' = <<>> /\ words' = <<>> /\ counts' = <<>>
  BY <1>1 DEF IInv, PhaseInv
<1>3. IsVocab(idToWord')
  BY <1>1, BaseTokensVocab DEF IInv
<1>4. IsOptions(opts')
  <2>1. opts \in Options /\ IsFiniteSet(opts.initial)
    BY DEF IInv, IsOptions
  <2>2. opts' \in Options /\ opts'.initial = opts.initial
    <3> DEFINE pre == opts.prefix \/ model.prefix
               suf == opts.suffix \/ model.suffix
    <3>1. pre \in BOOLEAN /\ suf \in BOOLEAN
      OBVIOUS
    <3>2. opts' = [opts EXCEPT !.prefix = pre, !.suffix = suf]
      BY <1>1
    <3> HIDE DEF pre, suf
    <3> QED
      BY <2>1, <3>1, <3>2 DEF Options
  <2> QED
    BY <2>1, <2>2 DEF IsOptions
<1>5. PairsInv'
  BY <1>2, NothingYet DEF PairsInv
<1>6. MergesOver(merges', idToWord')
  BY <1>2, NothingYet
<1>7. PhaseInv'
  BY <1>1, <1>2 DEF IInv, PhaseInv, Phases
<1>8. VocabConsistent'
  BY <1>1, KeepModel DEF IInv
<1>9. IsCorpus(corpus')
  BY <1>1 DEF IInv
<1> QED
  BY <1>3, <1>4, <1>5, <1>6, <1>7, <1>8, <1>9 DEF IInv

LEMMA TokenizeWordsInv ==
    ASSUME IInv, TokenizeWords
    PROVE  IInv'
<1>1. /\ pc = "tokenize" /\ pc' = "count"
      /\ UNCHANGED <<corpus, opts, stats, heap, merges, model, status>>
  BY DEF TokenizeWords
<1>2. PICK order \in SetToSeqs(DOMAIN corpus) :
        /\ idToWord' = TokenizeAll(order).toks
        /\ words' = TokenizeAll(order).words
        /\ counts' = [k \in DOMAIN order |-> corpus[order[k]]]
  BY DEF TokenizeWords
<1>3. IsCorpus(corpus) /\ IsOptions(opts) /\ IsVocab(idToWord)
  BY DEF IInv
<1>4. /\ order \in Seq(DOMAIN corpus) /\ Len(order) \in Nat /\ DOMAIN order = 1..Len(order)
      /\ order \in Seq(Seq(Characters))
  BY <1>3, OrderFacts DEF IsCorpus
<1> DEFINE keys == {KeyAt(order[x[1]], x[2]) : x \in Nat \X Nat}
           U == ToSet(idToWord) \cup keys
           r == TokenizeAll(order)
<1>5. idToWord \in Vocabs(U)
  <2>1. ToSet(idToWord) \subseteq U
    OBVIOUS
  <2> HIDE DEF U
  <2> QED
    BY <1>3, <2>1 DEF IsVocab, Vocabs
<1>6. \A j \in DOMAIN order : \A k \in DOMAIN order[j] : KeyAt(order[j], k) \in U
  <2>1. ASSUME NEW j \in DOMAIN order, NEW k \in DOMAIN order[j]
        PROVE  KeyAt(order[j], k) \in keys
    <3>1. j \in Nat /\ order[j] \in Seq(Characters)
      BY <1>4
    <3>2. k \in Nat
      BY <3>1
    <3>3. <<j, k>> \in Nat \X Nat /\ <<j, k>>[1] = j /\ <<j, k>>[2] = k
      BY <3>1, <3>2
    <3> QED
      BY <3>3
  <2> HIDE DEF keys
  <2> QED
    BY <2>1
<1> HIDE DEF U, r
<1>7. r \in TokenizedAll(U, idToWord) /\ Len(r.words) = Len(order)
  BY <1>4, <1>5, <1>6, TokenizeAllTyped DEF r
<1>8. r.toks \in Vocabs(U) /\ r.words \in Seq(WordsOver(IdsOf(r.toks)))
  BY <1>7 DEF TokenizedAll
<1>9. idToWord' = r.toks /\ words' = r.words /\ Ids' = IdsOf(r.toks)
  BY <1>2 DEF r, Ids, IdsOf
<1>10. IsVocab(idToWord')
  BY <1>8, <1>9, VocabOwn
<1>11. IsWords(words', counts', Ids')
  <2>1. \A k \in 1..Len(order) : corpus[order[k]] \in Nat
    BY <1>3, <1>4 DEF IsCorpus, IsABag
  <2>2. counts' \in Seq(Nat) /\ Len(counts') = Len(order)
    BY <1>2, <1>4, <2>1
  <2> QED
    BY <1>7, <1>8, <1>9, <2>2 DEF IsWords
<1>12. stats' = <<>> /\ heap' = EmptyBag /\ merges' = <<>>
  BY <1>1 DEF IInv, PhaseInv
<1>13. PairsInv'
  BY <1>11, <1>12, NothingYet DEF PairsInv
<1>14. MergesOver(merges', idToWord')
  BY <1>12, NothingYet
<1>15. PhaseInv'
  BY <1>1, <1>12 DEF IInv, PhaseInv, Phases
<1>16. VocabConsistent'
  BY <1>1, KeepModel DEF IInv
<1>17. IsCorpus(corpus') /\ IsOptions(opts')
  BY <1>1, <1>3
<1> QED
  BY <1>10, <1>13, <1>14, <1>15, <1>16, <1>17 DEF IInv

LEMMA CountPairsInv ==
    ASSUME IInv, CountPairs
    PROVE  IInv'
<1>1. /\ pc = "count" /\ pc' = "loop" /\ stats' = PairStats
      /\ heap' = Entries(PairStats, DOMAIN PairStats) /\ merges' = <<>>
      /\ UNCHANGED <<corpus, opts, idToWord, words, counts, texts, model, status>>
  BY DEF CountPairs
<1>2. IsWords(words, counts, Ids)
  BY DEF IInv, PairsInv
<1>3. StatsOver(PairStats, Ids, DOMAIN words)
  BY <1>2, PairStatsTyped
<1>4. HeapOver(Entries(PairStats, DOMAIN PairStats), PairStats, DOMAIN words)
  <2>1. \A p \in DOMAIN PairStats : PairStats[p].positions \subseteq DOMAIN words
    BY <1>3 DEF StatsOver
  <2> QED
    BY <2>1, EntriesTyped
<1>5. Ids' = Ids
  BY <1>1 DEF Ids
<1>6. PairsInv'
  BY <1>1, <1>2, <1>3, <1>4, <1>5 DEF PairsInv
<1>7. MergesOver(merges', idToWord')
  BY <1>1, NothingYet
<1>8. PhaseInv'
  BY <1>1 DEF IInv, PhaseInv, Phases
<1>9. VocabConsistent'
  BY <1>1, KeepModel DEF IInv
<1>10. IsCorpus(corpus') /\ IsOptions(opts') /\ IsVocab(idToWord')
  BY <1>1 DEF IInv
<1> QED
  BY <1>6, <1>7, <1>8, <1>9, <1>10 DEF IInv

LEMMA RefreshStaleInv ==
    ASSUME IInv, RefreshStale
    PROVE  IInv'
<1>1. /\ pc = "loop"
      /\ UNCHANGED <<corpus, opts, idToWord, words, counts, texts, stats, merges, model, status, pc>>
  BY DEF RefreshStale
<1>2. PICK e \in Tops :
        heap' = (heap (-) SetToBag({e})) (+) SetToBag({Entry(e.pair, stats[e.pair])})
  BY DEF RefreshStale
<1>3. HeapOver(heap, stats, DOMAIN words) /\ StatsOver(stats, Ids, DOMAIN words)
  BY DEF IInv, PairsInv
<1>4. e.pair \in DOMAIN stats
  BY <1>3 DEF Tops, HeapOver
<1>5. HeapOver(heap (-) SetToBag({e}), stats, DOMAIN words)
  BY <1>3, HeapOverRest
<1>6. HeapOver(SetToBag({Entry(e.pair, stats[e.pair])}), stats, DOMAIN words)
  <2> DEFINE f == Entry(e.pair, stats[e.pair])
  <2>1. f.pair \in DOMAIN stats /\ f.positions \subseteq DOMAIN words
    BY <1>3, <1>4, EntryFields DEF StatsOver
  <2> HIDE DEF f
  <2>2. HeapOver(SetToBag({f}), stats, DOMAIN words)
    BY <2>1, SetBag DEF HeapOver
  <2> QED
    BY <2>2 DEF f
<1>7. HeapOver(heap', stats, DOMAIN words)
  BY <1>2, <1>5, <1>6, HeapOverSum
<1>8. PairsInv'
  BY <1>1, <1>7 DEF IInv, PairsInv, Ids
<1>9. MergesOver(merges', idToWord')
  BY <1>1 DEF IInv
<1>10. PhaseInv'
  BY <1>1 DEF IInv, PhaseInv
<1>11. VocabConsistent'
  BY <1>1, KeepModel DEF IInv
<1>12. IsCorpus(corpus') /\ IsOptions(opts') /\ IsVocab(idToWord')
  BY <1>1 DEF IInv
<1> QED
  BY <1>8, <1>9, <1>10, <1>11, <1>12 DEF IInv

\* Adding a token keeps the types of what names the ids there were.
LEMMA GrowTyped ==
    ASSUME NEW ids, NEW more, ids \subseteq more
    PROVE  /\ \A ws, cs : IsWords(ws, cs, ids) => IsWords(ws, cs, more)
           /\ \A st, places : StatsOver(st, ids, places) => StatsOver(st, more, places)
           /\ Pairs(ids) \subseteq Pairs(more)
<1>1. Pairs(ids) \subseteq Pairs(more)
  BY DEF Pairs
<1>2. ASSUME NEW ws, NEW cs, IsWords(ws, cs, ids) PROVE IsWords(ws, cs, more)
  <2>1. WordsOver(ids) \subseteq WordsOver(more)
    BY WordsGrow
  <2>2. ws \in Seq(WordsOver(more))
    BY <1>2, <2>1 DEF IsWords
  <2> QED
    BY <1>2, <2>2 DEF IsWords
<1>3. \A st, places : StatsOver(st, ids, places) => StatsOver(st, more, places)
  BY <1>1 DEF StatsOver
<1> QED
  BY <1>1, <1>2, <1>3

\* The vocabulary with the token a pair spells, and its id.
LEMMA MergedVocab ==
    ASSUME IsVocab(idToWord), NEW new
    PROVE  LET toks == AddToken(idToWord, new)
           IN /\ IsVocab(toks) /\ IdsOf(idToWord) \subseteq IdsOf(toks)
              /\ \A i \in IdsOf(idToWord) : toks[i + 1] = idToWord[i + 1]
              /\ IdOf(toks, new) \in IdsOf(toks) /\ toks[IdOf(toks, new) + 1] = new
<1> DEFINE toks == AddToken(idToWord, new)
           U == ToSet(idToWord) \cup {new}
<1>1. idToWord \in Vocabs(U)
  <2>1. ToSet(idToWord) \subseteq U
    OBVIOUS
  <2> HIDE DEF U
  <2> QED
    BY <2>1 DEF IsVocab, Vocabs
<1>2. new \in U
  OBVIOUS
<1> HIDE DEF U
<1>3. toks \in Vocabs(U) /\ Extends(toks, idToWord) /\ KnownToken(toks, new)
  BY <1>1, <1>2, AddTokenFacts
<1> HIDE DEF toks
<1>4. idToWord \in Seq(U) /\ toks \in Seq(U)
  BY <1>1, <1>3 DEF Vocabs
<1>5. IsVocab(toks) /\ IdsOf(idToWord) \subseteq IdsOf(toks)
      /\ \A i \in IdsOf(idToWord) : toks[i + 1] = idToWord[i + 1]
  BY <1>3, <1>4, VocabOwn, ExtendsIds
<1>6. IdOf(toks, new) \in IdsOf(toks) /\ toks[IdOf(toks, new) + 1] = new
  BY <1>3, IdOfFacts
<1> QED
  BY <1>5, <1>6 DEF toks

\* One more merge, and the tokens behind the ones there were.
LEMMA AppendMerge ==
    ASSUME NEW ms, NEW old, MergesOver(ms, old), NEW toks, IdsOf(old) \subseteq IdsOf(toks),
           \A i \in IdsOf(old) : toks[i + 1] = old[i + 1],
           NEW p \in Pairs(IdsOf(old)), NEW id \in IdsOf(toks), toks[id + 1] = Spelling(old, p)
    PROVE  MergesOver(Append(ms, <<p, id>>), toks)
<1> DEFINE n == Len(ms)
           last == <<p, id>>
           X == Pairs(IdsOf(toks)) \X IdsOf(toks)
           new == Append(ms, last)
<1>1. \A q \in Pairs(IdsOf(old)) : Spelling(toks, q) = Spelling(old, q)
  <2>1. \A q \in Pairs(IdsOf(old)) : q[1] \in IdsOf(old) /\ q[2] \in IdsOf(old)
    BY DEF Pairs
  <2> QED
    BY <2>1 DEF Spelling
<1>2. Pairs(IdsOf(old)) \X IdsOf(old) \subseteq X
  BY DEF Pairs
<1>3. ms \in Seq(Pairs(IdsOf(old)) \X IdsOf(old))
  BY DEF MergesOver
<1>4. \A k \in DOMAIN ms : ms[k][1] \in Pairs(IdsOf(old)) /\ ms[k][2] \in IdsOf(old)
  <2>1. \A k \in DOMAIN ms : ms[k] \in Pairs(IdsOf(old)) \X IdsOf(old)
    BY <1>3
  <2> QED
    BY <2>1
<1>5. last \in X /\ last[1] = p /\ last[2] = id
  BY <1>2 DEF Pairs
<1> HIDE DEF last, X
<1>6. ms \in Seq(X)
  BY <1>2, <1>3
<1>7. /\ n \in Nat /\ DOMAIN ms = 1..n /\ DOMAIN new = 1..(n + 1) /\ new \in Seq(X)
      /\ \A k \in 1..n : new[k] = ms[k]
      /\ new[n + 1] = last
  BY <1>5, <1>6
<1> HIDE DEF n, new
<1>8. ASSUME NEW k \in DOMAIN new PROVE toks[new[k][2] + 1] = Spelling(toks, new[k][1])
  <2>1. CASE k \in 1..n
    <3>1. new[k] = ms[k] /\ ms[k][1] \in Pairs(IdsOf(old)) /\ ms[k][2] \in IdsOf(old)
      BY <1>4, <1>7, <2>1
    <3>2. old[ms[k][2] + 1] = Spelling(old, ms[k][1])
      BY <1>7, <2>1 DEF MergesOver
    <3> QED
      BY <1>1, <3>1, <3>2
  <2>2. CASE k = n + 1
    BY <1>1, <1>5, <1>7, <2>2
  <2> QED
    BY <1>7, <2>1, <2>2
<1>9. MergesOver(new, toks)
  BY <1>7, <1>8 DEF MergesOver, X
<1> QED
  BY <1>9 DEF new, last

LEMMA MergeTopInv ==
    ASSUME IInv, MergeTop
    PROVE  IInv'
<1> DEFINE New(e) == MergedToken(e.pair)
           Toks(e) == AddToken(idToWord, New(e))
           Id(e) == IdOf(Toks(e), New(e))
           Merged(e) == [w \in e.positions |-> MergeWord(words[w], e.pair, Id(e), opts.max_len)]
           After(e) == [w \in DOMAIN words |->
                          IF w \in e.positions THEN Merged(e)[w].word ELSE words[w]]
           Moved(e, order) == Affected(Merged(e), Slices(order))
           Stats(e, order) == NewStats(Merged(e), Slices(order), Moved(e, order), After(e))
           Result(e, order) ==
             /\ idToWord' = Toks(e)
             /\ merges' = Append(merges, <<e.pair, Id(e)>>)
             /\ words' = After(e)
             /\ stats' = Stats(e, order)
             /\ heap' = (heap (-) SetToBag({e})) (+) Entries(Stats(e, order), Moved(e, order))
<1>0. PICK e \in Tops : \E order \in SetToSeqs(e.positions) : Result(e, order)
  BY DEF MergeTop
<1>1. PICK order \in SetToSeqs(e.positions) : Result(e, order)
  <2> HIDE DEF Result
  <2> QED
    BY <1>0
<1>2. pc = "loop" /\ UNCHANGED <<corpus, opts, counts, texts, model, status, pc>>
  BY DEF MergeTop
<1>3. /\ IsVocab(idToWord) /\ IsWords(words, counts, Ids) /\ StatsOver(stats, Ids, DOMAIN words)
      /\ HeapOver(heap, stats, DOMAIN words)
  BY DEF IInv, PairsInv
<1>4. e.pair \in DOMAIN stats /\ e.positions \subseteq DOMAIN words
  BY <1>3 DEF Tops, HeapOver
<1> DEFINE new == New(e)
           toks == Toks(e)
           id == Id(e)
           merged == Merged(e)
           slices == Slices(order)
           moved == Moved(e, order)
           newStats == Stats(e, order)
<1>5. /\ IsVocab(toks) /\ Ids \subseteq IdsOf(toks)
      /\ \A i \in Ids : toks[i + 1] = idToWord[i + 1]
      /\ id \in IdsOf(toks) /\ toks[id + 1] = new
  BY <1>3, MergedVocab DEF Ids, IdsOf
<1>6. idToWord' = toks /\ Ids' = IdsOf(toks) /\ MergedToken(e.pair) = new
  BY <1>1 DEF Ids, IdsOf
<1>7. merged = [w \in e.positions |-> MergeWord(words[w], e.pair, id, opts.max_len)]
  OBVIOUS
<1>8. words' = [w \in DOMAIN words |-> IF w \in e.positions THEN merged[w].word ELSE words[w]]
  BY <1>1
<1>9. /\ moved = Affected(merged, slices)
      /\ newStats = NewStats(merged, slices, moved, words')
      /\ stats' = newStats
      /\ heap' = (heap (-) SetToBag({e})) (+) Entries(newStats, moved)
  BY <1>1
<1>10. merges' = Append(merges, <<e.pair, id>>)
  BY <1>1
<1> DEFINE ids == IdsOf(toks)
<1> HIDE DEF Result, New, Toks, Id, Merged, After, Moved, Stats, toks, id, merged, moved, newStats, new, ids
<1>11. /\ IsWords(words, counts, ids) /\ StatsOver(stats, ids, DOMAIN words)
       /\ Pairs(Ids) \subseteq Pairs(ids) /\ e.pair \in Pairs(Ids) /\ e.pair \in Pairs(ids)
  <2>1. Ids \subseteq ids
    BY <1>5 DEF ids
  <2>2. e.pair \in Pairs(Ids)
    BY <1>3, <1>4 DEF StatsOver
  <2> QED
    BY <1>3, <2>1, <2>2, GrowTyped
<1>12. id \in ids /\ Ids' = ids
  BY <1>5, <1>6 DEF ids
<1>13. IsMerged(merged, e.positions, ids)
  <2>1. ASSUME NEW w \in e.positions
        PROVE  merged[w].word \in WordsOver(ids) /\ merged[w].changes \in Changes(ids)
    <3>1. words[w] \in WordsOver(ids)
      BY <1>4, <1>11, WordsFacts
    <3>2. merged[w] = MergeWord(words[w], e.pair, id, opts.max_len)
      BY <1>7
    <3> QED
      BY <1>11, <1>12, <3>1, <3>2, MergeWordTyped
  <2>2. DOMAIN merged = e.positions
    BY <1>7
  <2> QED
    BY <2>1, <2>2 DEF IsMerged
<1>14. IsWords(words', counts', ids) /\ DOMAIN words' = DOMAIN words
  <2>1. \A k \in DOMAIN words : words'[k] \in WordsOver(ids)
    BY <1>8, <1>11, <1>13, WordsFacts DEF IsMerged
  <2>2. DOMAIN words = 1..Len(words) /\ Len(words) \in Nat /\ DOMAIN words' = DOMAIN words
    BY <1>8, <1>11, WordsFacts
  <2>3. words' = [k \in 1..Len(words) |-> words'[k]]
    BY <1>8, <2>2
  <2>4. words' \in Seq(WordsOver(ids)) /\ Len(words') = Len(words)
    BY <2>1, <2>2, <2>3
  <2>5. counts' \in Seq(Nat) /\ Len(counts') = Len(words)
    BY <1>2, <1>11 DEF IsWords
  <2> QED
    BY <2>2, <2>4, <2>5 DEF IsWords
<1>15. /\ IsFiniteSet(DOMAIN slices)
       /\ \A t \in DOMAIN slices : slices[t] \subseteq e.positions
  <2>1. IsFiniteSet(e.positions)
    BY <1>4, <1>11, WordsFacts, FS_Subset
  <2>2. order \in Seq(e.positions)
    BY <1>1, <2>1, OrderFacts
  <2> QED
    BY <2>2, SlicesTyped
<1> HIDE DEF slices
<1>16. moved \subseteq Pairs(ids)
  BY <1>9, <1>13, <1>15, AffectedTyped
<1>17. StatsOver(newStats, ids, DOMAIN words) /\ DOMAIN newStats = DOMAIN stats \cup moved
  BY <1>4, <1>9, <1>11, <1>13, <1>15, <1>16, NewStatsTyped, SMTT(30)
<1>18. HeapOver(heap', newStats, DOMAIN words)
  <2>1. HeapOver(heap, newStats, DOMAIN words)
    BY <1>3, <1>17 DEF HeapOver
  <2>2. HeapOver(heap (-) SetToBag({e}), newStats, DOMAIN words)
    BY <2>1, HeapOverRest
  <2>3. HeapOver(Entries(newStats, moved), newStats, DOMAIN words)
    <3>1. \A p \in DOMAIN newStats : newStats[p].positions \subseteq DOMAIN words
      BY <1>17 DEF StatsOver
    <3> QED
      BY <1>17, <3>1, EntriesTyped
  <2> QED
    BY <1>9, <2>2, <2>3, HeapOverSum
<1>19. PairsInv'
  BY <1>9, <1>12, <1>14, <1>17, <1>18 DEF PairsInv
<1>20. new = Spelling(idToWord, e.pair)
  BY <1>6 DEF MergedToken, Spelling
<1>21. MergesOver(merges', idToWord')
  <2>1. MergesOver(merges, idToWord)
    BY DEF IInv
  <2>2. Ids = IdsOf(idToWord)
    BY DEF Ids, IdsOf
  <2>3. id \in IdsOf(toks)
    BY <1>5
  <2>4. MergesOver(Append(merges, <<e.pair, id>>), toks)
    BY <1>5, <1>11, <1>20, <2>1, <2>2, <2>3, AppendMerge
  <2> QED
    BY <1>6, <1>10, <2>4
<1>22. PhaseInv'
  BY <1>2 DEF IInv, PhaseInv
<1>23. VocabConsistent'
  BY <1>2, KeepModel DEF IInv
<1>24. IsCorpus(corpus') /\ IsOptions(opts') /\ IsVocab(idToWord')
  BY <1>2, <1>5, <1>6 DEF IInv
<1> QED
  BY <1>19, <1>21, <1>22, <1>23, <1>24 DEF IInv

\* What is written back is consistent.
LEMMA WriteBackInv ==
    ASSUME IInv, WriteBack
    PROVE  IInv'
<1>1. /\ pc' = "idle" /\ status' = "OK" /\ UNCHANGED <<corpus, opts>>
      /\ idToWord' = <<>> /\ words' = <<>> /\ counts' = <<>>
      /\ stats' = <<>> /\ heap' = EmptyBag /\ merges' = <<>>
      /\ model'.vocab = idToWord /\ model'.merges = MergeMap(merges)
  BY DEF WriteBack
<1>2. PairsInv'
  BY <1>1, NothingYet DEF PairsInv
<1>3. MergesOver(merges', idToWord')
  BY <1>1, NothingYet
<1>4. PhaseInv'
  BY <1>1 DEF PhaseInv, Phases, Statuses
<1>5. IsCorpus(corpus') /\ IsOptions(opts') /\ IsVocab(idToWord')
  BY <1>1, EmptyVocab DEF IInv
<1>6. \A i, j \in DOMAIN idToWord : idToWord[i] = idToWord[j] => i = j
  BY DEF IInv, IsVocab, Vocabs, Once
<1>7. ASSUME NEW p \in DOMAIN MergeMap(merges)
      PROVE  idToWord[MergeMap(merges)[p].id + 1] = Spelling(idToWord, p)
  <2> DEFINE at == {i \in DOMAIN merges : merges[i][1] = p}
             k == Max(at)
  <2>1. p \in {merges[i][1] : i \in DOMAIN merges} /\ MergeMap(merges)[p].id = merges[k][2]
    BY <1>7 DEF MergeMap
  <2>2. Len(merges) \in Nat /\ DOMAIN merges = 1..Len(merges)
    BY DEF IInv, MergesOver
  <2>3. at # {} /\ at \in SUBSET (1..Len(merges))
    BY <2>1, <2>2
  <2> HIDE DEF at
  <2>4. k \in at
    BY <2>2, <2>3, MaxWithin
  <2>5. k \in DOMAIN merges /\ merges[k][1] = p
    BY <2>4 DEF at
  <2> HIDE DEF k
  <2>6. idToWord[merges[k][2] + 1] = Spelling(idToWord, merges[k][1])
    BY <2>5 DEF IInv, MergesOver
  <2> QED
    BY <2>1, <2>5, <2>6
<1>8. VocabConsistent'
  BY <1>1, <1>6, <1>7 DEF VocabConsistent, Spelling
<1> QED
  BY <1>2, <1>3, <1>4, <1>5, <1>8 DEF IInv

LEMMA NextInv ==
    ASSUME IInv, [Next]_vars
    PROVE  IInv'
<1>1. CASE Feed
  BY <1>1, FeedInv
<1>2. CASE TrainEmpty
  BY <1>2, TrainEmptyInv
<1>3. CASE StartTrain
  BY <1>3, StartTrainInv
<1>4. CASE TokenizeWords
  BY <1>4, TokenizeWordsInv
<1>5. CASE CountPairs
  BY <1>5, CountPairsInv
<1>6. CASE RefreshStale
  BY <1>6, RefreshStaleInv
<1>7. CASE MergeTop
  BY <1>7, MergeTopInv
<1>8. CASE StopLoop
  BY <1>8, StopLoopInv
<1>9. CASE WriteBack
  BY <1>9, WriteBackInv
<1>10. CASE UNCHANGED vars
  <2>1. UNCHANGED <<corpus, opts, loopVars, model, status, pc>>
    BY <1>10 DEF vars
  <2>2. IsVocab(idToWord)' /\ PairsInv' /\ MergesOver(merges', idToWord')
    BY <2>1, KeepPairs
  <2>3. PhaseInv'
    BY <2>1 DEF IInv, PhaseInv, loopVars
  <2>4. VocabConsistent'
    BY <2>1, KeepModel DEF IInv
  <2>5. IsCorpus(corpus') /\ IsOptions(opts')
    BY <2>1 DEF IInv
  <2> QED
    BY <2>2, <2>3, <2>4, <2>5 DEF IInv
<1> QED
  BY <1>1, <1>2, <1>3, <1>4, <1>5, <1>6, <1>7, <1>8, <1>9, <1>10 DEF Next, TrainStep, Done

(***************************************************************************)
(* The invariant holds in every state.                                     *)
(***************************************************************************)
THEOREM Inductive == Spec => []IInv
BY InitInv, NextInv, PTL DEF Spec

-------------------------------------------------------------------------------
(* What it says of the trainer. *)

LEMMA InvTypes ==
    ASSUME IInv
    PROVE  TypeOK
<1>1. /\ IsWords(words, counts, Ids) /\ StatsOver(stats, Ids, DOMAIN words)
      /\ HeapOver(heap, stats, DOMAIN words)
  BY DEF IInv, PairsInv
<1>2. IsABag(corpus) /\ IsABag(heap)
  BY <1>1 DEF IInv, IsCorpus, HeapOver
<1>3. ASSUME NEW k \in DOMAIN words, NEW i \in DOMAIN words[k]
      PROVE  /\ words[k][i].c \in Ids /\ words[k][i].len \in Nat
             /\ {words[k][i].prev, words[k][i].next} \subseteq DOMAIN words[k] \cup {NoSym}
  <2>1. words[k] \in WordsOver(Ids)
    BY <1>1, WordsFacts
  <2>2. PICK n \in Nat : words[k] \in WordsOfLength(Ids, n)
    BY <2>1 DEF WordsOver
  <2> DEFINE w == words[k]
  <2> HIDE DEF w
  <2>3. w \in WordsOfLength(Ids, n) /\ i \in DOMAIN w
    BY <2>2 DEF w
  <2>4. /\ w[i].c \in Ids /\ w[i].len \in Nat
        /\ w[i].prev \in DOMAIN w \cup {NoSym} /\ w[i].next \in DOMAIN w \cup {NoSym}
    BY <2>3, SymbolTyped, ZenonT(30)
  <2> QED
    BY <2>4 DEF w
<1>4. \A p \in DOMAIN stats : p \in Ids \X Ids /\ stats[p].count \in Int
                              /\ stats[p].positions \subseteq DOMAIN words
  BY <1>1 DEF StatsOver, Pairs
<1>5. \A k \in DOMAIN merges : merges[k] \in (Ids \X Ids) \X Ids
  BY DEF IInv, MergesOver, Pairs, Ids, IdsOf
<1>6. pc \in {"idle", "tokenize", "count", "loop", "write"}
      /\ status \in {"none", "OK", "FailedPrecondition"}
  BY DEF IInv, PhaseInv, Phases, Statuses
<1> QED
  BY <1>2, <1>3, <1>4, <1>5, <1>6 DEF TypeOK

(***************************************************************************)
(* Whatever is fed, with whatever options: the words, the pair counts, the *)
(* heap and the merges of a training only ever name tokens it has.         *)
(***************************************************************************)
THEOREM TypeCorrect == Spec => []TypeOK
BY Inductive, InvTypes, PTL

(***************************************************************************)
(* What train() writes into the model is consistent: no token string has   *)
(* two ids, and each merge names the token its two parts spell.            *)
(***************************************************************************)
THEOREM VocabularyConsistent == Spec => []VocabConsistent
<1>1. IInv => VocabConsistent
  BY DEF IInv
<1> QED
  BY Inductive, <1>1, PTL

-------------------------------------------------------------------------------
(* Sums over finite sets, once more: what they are, and how they are split. *)

\* Induction over the parts of a finite set, one element at a time.
LEMMA PartsInduct ==
    ASSUME NEW S, IsFiniteSet(S), NEW T, {} \in T,
           \A s \in SUBSET S : s # {} /\ (\A x \in s : s \ {x} \in T) => s \in T
    PROVE  \A s \in SUBSET S : s \in T
<1> DEFINE N == Cardinality(S)
           G == {m \in 0..N : \A s \in SUBSET S : Cardinality(s) = m => s \in T}
<1>1. N \in Nat
  BY FS_CardinalityType
<1>2. 0 \in G
  <2>1. \A s \in SUBSET S : Cardinality(s) = 0 => s = {}
    BY PartSizes
  <2>2. 0 \in 0..N
    BY <1>1
  <2> QED
    BY <2>1, <2>2
<1>3. ASSUME NEW m \in 1..N, m - 1 \in G PROVE m \in G
  <2>1. ASSUME NEW s \in SUBSET S, Cardinality(s) = m PROVE s \in T
    <3>1. s # {} /\ \A x \in s : Cardinality(s \ {x}) = m - 1
      BY <1>1, <2>1, PartSizes
    <3>2. \A x \in s : s \ {x} \in T
      BY <1>3, <3>1
    <3> QED
      BY <3>1, <3>2
  <2>2. m \in 0..N
    BY <1>1
  <2> QED
    BY <2>1, <2>2
<1>4. \A m \in 0..N : m \in G
  <2> HIDE DEF G, N
  <2> QED
    BY <1>1, <1>2, <1>3, InductUpto
<1>5. ASSUME NEW s \in SUBSET S PROVE s \in T
  <2>1. Cardinality(s) \in 0..N
    BY PartSizes
  <2>2. Cardinality(s) \in G
    BY <1>4, <2>1
  <2> QED
    BY <2>2
<1> QED
  BY <1>5

\* A sum is the value of that function on the whole set.
LEMMA SumValue ==
    ASSUME NEW S, IsFiniteSet(S), NEW f \in [S -> Int]
    PROVE  \E it \in [SUBSET S -> Int] : SumFcn(it, f, S) /\ SumFunction(f) = it[S]
<1> DEFINE Step(it) == it = [s \in SUBSET DOMAIN f |->
                               IF s = {} THEN 0
                               ELSE f[CHOOSE x \in s : TRUE] + it[s \ {CHOOSE x \in s : TRUE}]]
           it == CHOOSE it : Step(it)
           T == {s \in SUBSET S : it[s] \in Int}
<1>1. DOMAIN f = S
  OBVIOUS
<1>2. Step(it)
  <2>1. PICK g \in [SUBSET S -> Int] : SumFcn(g, f, S)
    BY SumExists
  <2>2. Step(g)
    BY <1>1, <2>1 DEF SumFcn
  <2> HIDE DEF Step
  <2> QED
    BY <2>2
<1>3. SumFunction(f) = it[S]
  BY <1>1 DEF SumFunction, SumFunctionOnSet, FoldFunctionOnSet, MapThenFoldSet
<1> HIDE DEF it
<1>4. SumFcn(it, f, S)
  BY <1>1, <1>2 DEF SumFcn
<1> HIDE DEF Step
<1>5. {} \in T
  BY <1>4 DEF SumFcn
<1>6. ASSUME NEW s \in SUBSET S, s # {}, \A x \in s : s \ {x} \in T PROVE s \in T
  <2> DEFINE x == CHOOSE x \in s : TRUE
  <2>1. x \in s
    BY <1>6
  <2>2. it[s] = f[x] + it[s \ {x}]
    BY <1>4, <1>6 DEF SumFcn
  <2> HIDE DEF x
  <2>3. it[s \ {x}] \in Int /\ f[x] \in Int
    BY <1>6, <2>1
  <2> QED
    BY <2>2, <2>3
<1>7. \A s \in SUBSET S : s \in T
  <2> HIDE DEF T
  <2> QED
    BY <1>5, <1>6, PartsInduct
<1>8. it \in [SUBSET S -> Int]
  <2>1. it = [s \in SUBSET S |-> it[s]]
    BY <1>4 DEF SumFcn
  <2>2. \A s \in SUBSET S : it[s] \in Int
    BY <1>7
  <2> QED
    BY <2>1, <2>2
<1> QED
  BY <1>3, <1>4, <1>8

\* Whichever element a sum starts with.
StartsAnywhere(it, f, S) == \A s \in SUBSET S : \A x \in s : it[s] = f[x] + it[s \ {x}]

LEMMA SumAny ==
    ASSUME NEW S, IsFiniteSet(S), NEW f \in [S -> Int],
           NEW it \in [SUBSET S -> Int], SumFcn(it, f, S)
    PROVE  StartsAnywhere(it, f, S)
<1> DEFINE T == {s \in SUBSET S : \A x \in s : it[s] = f[x] + it[s \ {x}]}
<1>1. {} \in T
  OBVIOUS
<1>2. ASSUME NEW s \in SUBSET S, s # {}, \A x \in s : s \ {x} \in T PROVE s \in T
  <2> DEFINE c == CHOOSE x \in s : TRUE
  <2>1. c \in s
    BY <1>2
  <2>2. it[s] = f[c] + it[s \ {c}]
    BY <1>2 DEF SumFcn
  <2> HIDE DEF c
  <2>3. ASSUME NEW x \in s PROVE it[s] = f[x] + it[s \ {x}]
    <3>1. CASE x = c
      BY <2>2, <3>1
    <3>2. CASE x # c
      <4>1. it[s \ {c}] = f[x] + it[(s \ {c}) \ {x}]
        BY <1>2, <2>1, <3>2
      <4>2. it[s \ {x}] = f[c] + it[(s \ {x}) \ {c}]
        BY <1>2, <2>1, <3>2
      <4>3. (s \ {c}) \ {x} = (s \ {x}) \ {c}
        OBVIOUS
      <4> DEFINE rest == it[(s \ {x}) \ {c}]
      <4>4. f[x] \in Int /\ f[c] \in Int /\ rest \in Int
        BY <2>1
      <4>5. it[s] = f[c] + (f[x] + rest) /\ it[s \ {x}] = f[c] + rest
        BY <2>2, <4>1, <4>2, <4>3
      <4> HIDE DEF rest
      <4> QED
        BY <4>4, <4>5
    <3> QED
      BY <3>1, <3>2
  <2> QED
    BY <2>3
<1>3. \A s \in SUBSET S : s \in T
  <2> HIDE DEF T
  <2> QED
    BY <1>1, <1>2, PartsInduct
<1> QED
  BY <1>3 DEF StartsAnywhere

\* Sums of functions that agree on what both sum up.
LEMMA SumAgree ==
    ASSUME NEW S, IsFiniteSet(S), NEW f \in [S -> Int],
           NEW it \in [SUBSET S -> Int], SumFcn(it, f, S),
           NEW U \in SUBSET S, NEW g \in [U -> Int], \A x \in U : f[x] = g[x]
    PROVE  SumFunction(g) = it[U]
<1> DEFINE T == {s \in SUBSET U : \A jt \in [SUBSET U -> Int] : SumFcn(jt, g, U) => jt[s] = it[s]}
<1>1. IsFiniteSet(U)
  BY FS_Subset
<1>2. {} \in T
  BY DEF SumFcn
<1>3. ASSUME NEW s \in SUBSET U, s # {}, \A x \in s : s \ {x} \in T PROVE s \in T
  <2> DEFINE c == CHOOSE x \in s : TRUE
  <2>1. c \in s
    BY <1>3
  <2>2. ASSUME NEW jt \in [SUBSET U -> Int], SumFcn(jt, g, U) PROVE jt[s] = it[s]
    <3>1. it[s] = f[c] + it[s \ {c}]
      BY <1>3 DEF SumFcn
    <3>2. jt[s] = g[c] + jt[s \ {c}]
      BY <1>3, <2>2 DEF SumFcn
    <3> HIDE DEF c
    <3>3. jt[s \ {c}] = it[s \ {c}] /\ f[c] = g[c]
      BY <1>3, <2>1, <2>2
    <3> QED
      BY <3>1, <3>2, <3>3
  <2> QED
    BY <2>2
<1>4. \A s \in SUBSET U : s \in T
  <2> HIDE DEF T
  <2> QED
    BY <1>1, <1>2, <1>3, PartsInduct
<1>5. PICK jt \in [SUBSET U -> Int] : SumFcn(jt, g, U) /\ SumFunction(g) = jt[U]
  BY <1>1, SumValue
<1>6. U \in T
  BY <1>4
<1> QED
  BY <1>5, <1>6

\* An empty sum.
LEMMA SumEmpty ==
    ASSUME NEW f \in [{} -> Int]
    PROVE  SumFunction(f) = 0
<1>1. IsFiniteSet({})
  BY FS_EmptySet
<1>2. PICK it \in [SUBSET {} -> Int] : SumFcn(it, f, {}) /\ SumFunction(f) = it[{}]
  BY <1>1, SumValue
<1> QED
  BY <1>2 DEF SumFcn

\* Sums are linear.
LEMMA SumPlus ==
    ASSUME NEW S, IsFiniteSet(S), NEW f \in [S -> Int], NEW g \in [S -> Int], NEW h \in [S -> Int],
           \A x \in S : h[x] = f[x] + g[x]
    PROVE  SumFunction(h) = SumFunction(f) + SumFunction(g)
<1>1. PICK it \in [SUBSET S -> Int] : SumFcn(it, f, S) /\ SumFunction(f) = it[S]
  BY SumValue
<1>2. PICK jt \in [SUBSET S -> Int] : SumFcn(jt, g, S) /\ SumFunction(g) = jt[S]
  BY SumValue
<1>3. PICK kt \in [SUBSET S -> Int] : SumFcn(kt, h, S) /\ SumFunction(h) = kt[S]
  BY SumValue
<1> DEFINE T == {s \in SUBSET S : kt[s] = it[s] + jt[s]}
<1>4. {} \in T
  BY <1>1, <1>2, <1>3 DEF SumFcn
<1>5. ASSUME NEW s \in SUBSET S, s # {}, \A x \in s : s \ {x} \in T PROVE s \in T
  <2> DEFINE c == CHOOSE x \in s : TRUE
             r == s \ {c}
  <2>1. c \in s
    BY <1>5
  <2>2. it[s] = f[c] + it[r] /\ jt[s] = g[c] + jt[r] /\ kt[s] = h[c] + kt[r]
    BY <1>1, <1>2, <1>3, <1>5 DEF SumFcn
  <2>3. r \in SUBSET S /\ kt[r] = it[r] + jt[r]
    <3> HIDE DEF c
    <3> QED
      BY <1>5, <2>1
  <2>4. h[c] = f[c] + g[c] /\ f[c] \in Int /\ g[c] \in Int
    <3> HIDE DEF c
    <3> QED
      BY <2>1
  <2> HIDE DEF r, c
  <2>5. it[r] \in Int /\ jt[r] \in Int
    BY <2>3
  <2> QED
    BY <2>2, <2>3, <2>4, <2>5
<1>6. \A s \in SUBSET S : s \in T
  <2> HIDE DEF T
  <2> QED
    BY <1>4, <1>5, PartsInduct
<1>7. S \in T
  BY <1>6
<1> QED
  BY <1>1, <1>2, <1>3, <1>7

\* Sums are monotone.
LEMMA SumAtMost ==
    ASSUME NEW S, IsFiniteSet(S), NEW f \in [S -> Int], NEW g \in [S -> Int],
           \A x \in S : f[x] <= g[x]
    PROVE  SumFunction(f) <= SumFunction(g)
<1>1. PICK it \in [SUBSET S -> Int] : SumFcn(it, f, S) /\ SumFunction(f) = it[S]
  BY SumValue
<1>2. PICK jt \in [SUBSET S -> Int] : SumFcn(jt, g, S) /\ SumFunction(g) = jt[S]
  BY SumValue
<1> DEFINE T == {s \in SUBSET S : it[s] <= jt[s]}
<1>4. {} \in T
  BY <1>1, <1>2 DEF SumFcn
<1>5. ASSUME NEW s \in SUBSET S, s # {}, \A x \in s : s \ {x} \in T PROVE s \in T
  <2> DEFINE c == CHOOSE x \in s : TRUE
             r == s \ {c}
  <2>1. c \in s
    BY <1>5
  <2>2. it[s] = f[c] + it[r] /\ jt[s] = g[c] + jt[r]
    BY <1>1, <1>2, <1>5 DEF SumFcn
  <2>3. r \in SUBSET S /\ it[r] <= jt[r]
    <3> HIDE DEF c
    <3> QED
      BY <1>5, <2>1
  <2>4. f[c] <= g[c] /\ f[c] \in Int /\ g[c] \in Int
    <3> HIDE DEF c
    <3> QED
      BY <2>1
  <2> HIDE DEF r, c
  <2>5. it[r] \in Int /\ jt[r] \in Int
    BY <2>3
  <2> QED
    BY <2>2, <2>3, <2>4, <2>5
<1>6. \A s \in SUBSET S : s \in T
  <2> HIDE DEF T
  <2> QED
    BY <1>4, <1>5, PartsInduct
<1>7. S \in T
  BY <1>6
<1> QED
  BY <1>1, <1>2, <1>7

\* g is f on U, and f is zero elsewhere.
ZeroOutside(f, S, g, U) ==
    /\ f \in [S -> Int] /\ g \in [U -> Int] /\ U \in SUBSET S
    /\ \A x \in S \ U : f[x] = 0
    /\ \A x \in U : f[x] = g[x]

\* What a function is zero outside of is all there is to sum.
LEMMA SumWithin ==
    ASSUME NEW S, IsFiniteSet(S), NEW f, NEW g, NEW U, ZeroOutside(f, S, g, U)
    PROVE  SumFunction(f) = SumFunction(g)
<1>9. /\ f \in [S -> Int] /\ g \in [U -> Int] /\ U \in SUBSET S
      /\ \A x \in S \ U : f[x] = 0
      /\ \A x \in U : f[x] = g[x]
  BY DEF ZeroOutside
<1>1. PICK it \in [SUBSET S -> Int] : SumFcn(it, f, S) /\ SumFunction(f) = it[S]
  BY <1>9, SumValue
<1>0. \A s \in SUBSET S : \A x \in s : it[s] = f[x] + it[s \ {x}]
  <2>1. StartsAnywhere(it, f, S)
    BY <1>9, <1>1, SumAny
  <2> QED
    BY <2>1 DEF StartsAnywhere
<1> DEFINE T == {s \in SUBSET S : it[s] = it[s \cap U]}
<1>2. {} \in T
  OBVIOUS
<1>3. ASSUME NEW s \in SUBSET S, s # {}, \A x \in s : s \ {x} \in T PROVE s \in T
  <2>1. PICK c \in s : TRUE
    BY <1>3
  <2>2. it[s] = f[c] + it[s \ {c}] /\ it[s \ {c}] = it[(s \ {c}) \cap U]
    BY <1>9, <1>0, <1>3
  <2>3. CASE c \in U
    <3>1. s \cap U \in SUBSET S /\ c \in s \cap U /\ (s \cap U) \ {c} = (s \ {c}) \cap U
      BY <1>9, <2>3
    <3>2. it[s \cap U] = f[c] + it[(s \cap U) \ {c}]
      BY <1>9, <1>0, <3>1
    <3>3. it[(s \ {c}) \cap U] = it[(s \cap U) \ {c}]
      BY <3>1
    <3>4. it[s] = it[s \cap U]
      BY <2>2, <3>2, <3>3
    <3> QED
      BY <3>4
  <2>4. CASE c \notin U
    <3>1. f[c] = 0 /\ (s \ {c}) \cap U = s \cap U /\ s \cap U \in SUBSET S
      BY <1>9, <2>4
    <3>2. it[s \cap U] \in Int
      BY <3>1
    <3>3. it[s] = 0 + it[s \cap U]
      BY <2>2, <3>1
    <3> QED
      BY <3>2, <3>3
  <2> QED
    BY <2>3, <2>4
<1>4. \A s \in SUBSET S : s \in T
  <2> HIDE DEF T
  <2> QED
    BY <1>2, <1>3, PartsInduct
<1>5. S \in T /\ S \cap U = U
  BY <1>9, <1>4
<1>6. SumFunction(g) = it[U]
  <2>1. f \in [S -> Int] /\ g \in [U -> Int]
    BY <1>9
  <2>2. U \in SUBSET S
    BY <1>9
  <2>3. \A x \in U : f[x] = g[x]
    BY <1>9
  <2>4. SumFcn(it, f, S)
    BY <1>1
  <2> QED
    BY <2>1, <2>2, <2>3, <2>4, SumAgree
<1> QED
  BY <1>1, <1>5, <1>6

\* A sum over two disjoint parts.
Splits(f, S, g, A, h, B) ==
    /\ f \in [S -> Int] /\ g \in [A -> Int] /\ h \in [B -> Int]
    /\ A \cup B = S /\ A \cap B = {}
    /\ \A x \in A : g[x] = f[x]
    /\ \A x \in B : h[x] = f[x]

LEMMA SumParts ==
    ASSUME NEW S, IsFiniteSet(S), NEW f, NEW g, NEW h, NEW A, NEW B, Splits(f, S, g, A, h, B)
    PROVE  SumFunction(f) = SumFunction(g) + SumFunction(h)
<1> DEFINE a == [x \in S |-> IF x \in A THEN f[x] ELSE 0]
           b == [x \in S |-> IF x \in A THEN 0 ELSE f[x]]
<1>0. /\ f \in [S -> Int] /\ g \in [A -> Int] /\ h \in [B -> Int]
      /\ A \in SUBSET S /\ B \in SUBSET S /\ A \cup B = S /\ A \cap B = {}
      /\ \A x \in A : g[x] = f[x]
      /\ \A x \in B : h[x] = f[x]
  BY DEF Splits
<1>1. /\ a \in [S -> Int] /\ b \in [S -> Int]
      /\ \A x \in S : f[x] = a[x] + b[x]
      /\ \A x \in S \ A : a[x] = 0
      /\ \A x \in S \ B : b[x] = 0
      /\ \A x \in A : g[x] = a[x]
      /\ \A x \in B : h[x] = b[x]
  BY <1>0
<1> HIDE DEF a, b
<1>2. SumFunction(f) = SumFunction(a) + SumFunction(b)
  BY <1>0, <1>1, SumPlus
<1>3. SumFunction(a) = SumFunction(g)
  <2>1. ZeroOutside(a, S, g, A)
    BY <1>0, <1>1 DEF ZeroOutside
  <2> QED
    BY <2>1, SumWithin
<1>4. SumFunction(b) = SumFunction(h)
  <2>1. ZeroOutside(b, S, h, B)
    BY <1>0, <1>1 DEF ZeroOutside
  <2> QED
    BY <2>1, SumWithin
<1> QED
  BY <1>2, <1>3, <1>4

-------------------------------------------------------------------------------
(* The list inside a word. *)

\* The live symbols are linked both ways, from left to right.
Linked(w) ==
    \A i \in Live(w) :
      /\ w[i].next # NoSym =>
           w[i].next \in Live(w) /\ w[w[i].next].prev = i /\ i < w[i].next
      /\ w[i].prev # NoSym => w[i].prev \in Live(w) /\ w[w[i].prev].next = i

\* Nothing was merged in the word yet.
Fresh(w) ==
    \A i \in DOMAIN w :
      /\ w[i].len # 0
      /\ w[i].prev = i - 1
      /\ w[i].next = IF i + 1 \in DOMAIN w THEN i + 1 ELSE NoSym

LEMMA FreshLinked ==
    ASSUME NEW ids, NEW n \in Nat, NEW w \in WordsOfLength(ids, n), Fresh(w)
    PROVE  Linked(w) /\ Live(w) = 0..(n - 1)
<1>1. DOMAIN w = 0..(n - 1)
  BY SymbolTyped
<1>2. Live(w) = 0..(n - 1)
  BY <1>1 DEF Live, Fresh
<1>3. ASSUME NEW i \in 0..(n - 1)
      PROVE  /\ w[i].next # NoSym => w[i].next \in 0..(n - 1) /\ w[w[i].next].prev = i /\ i < w[i].next
             /\ w[i].prev # NoSym => w[i].prev \in 0..(n - 1) /\ w[w[i].prev].next = i
  <2>1. /\ w[i].prev = i - 1 /\ w[i].next = IF i + 1 \in 0..(n - 1) THEN i + 1 ELSE NoSym
        /\ \A k \in 0..(n - 1) : w[k].prev = k - 1
                                /\ w[k].next = IF k + 1 \in 0..(n - 1) THEN k + 1 ELSE NoSym
    BY <1>1 DEF Fresh
  <2>2. w[i].next # NoSym => i + 1 \in 0..(n - 1) /\ w[i].next = i + 1 /\ w[i + 1].prev = i
    <3>1. i + 1 \in 0..(n - 1) => w[i + 1].prev = (i + 1) - 1
      BY <2>1
    <3>2. (i + 1) - 1 = i
      OBVIOUS
    <3>3. w[i].next # NoSym => i + 1 \in 0..(n - 1) /\ w[i].next = i + 1
      BY <2>1
    <3> QED
      BY <3>1, <3>2, <3>3
  <2>3. w[i].prev # NoSym => i - 1 \in 0..(n - 1) /\ w[i].prev = i - 1 /\ w[i - 1].next = i
    BY <2>1 DEF NoSym
  <2> QED
    BY <2>2, <2>3
<1> QED
  BY <1>2, <1>3 DEF Linked

\* In such a word the neighbours in the vector are those in the list.
LEMMA FreshOccurrences ==
    ASSUME NEW ids, NEW n \in Nat, NEW w \in WordsOfLength(ids, n), Fresh(w), NEW p
    PROVE  VectorOccurrences(w, p) = Occurrences(w, p) /\ PairsOf(w) = VectorPairs(w)
<1>1. DOMAIN w = 0..(n - 1) /\ Live(w) = 0..(n - 1)
  BY FreshLinked, SymbolTyped
<1>2. \A i \in 0..(n - 1) : w[i].next = IF i + 1 \in 0..(n - 1) THEN i + 1 ELSE NoSym
  BY <1>1 DEF Fresh
<1>3. Adjacent(w) = {k \in Live(w) : HasRight(w, k)}
  <2>1. Adjacent(w) = {j \in 0..(n - 1) : j + 1 \in 0..(n - 1)}
    BY <1>1 DEF Adjacent
  <2>2. \A k \in 0..(n - 1) : HasRight(w, k) <=> k + 1 \in 0..(n - 1)
    BY <1>1, <1>2 DEF HasRight, NoSym
  <2> QED
    BY <1>1, <2>1, <2>2
<1>4. \A i \in {k \in Live(w) : HasRight(w, k)} : PairFrom(w, i) = <<w[i].c, w[i + 1].c>>
  BY <1>1, <1>2 DEF PairFrom, HasRight
<1>5. {i \in Live(w) : HasRight(w, i) /\ PairFrom(w, i) = p}
        = {j \in Adjacent(w) : <<w[j].c, w[j + 1].c>> = p}
  BY <1>3, <1>4
<1>6. PairsOf(w) = VectorPairs(w)
  BY <1>3, <1>4 DEF PairsOf, VectorPairs
<1> QED
  BY <1>5, <1>6 DEF Occurrences, VectorOccurrences

\* What is linked, and to what, after a symbol absorbed its right neighbour.
LEMMA Absorbed ==
    ASSUME NEW ids, NEW n \in Nat, NEW w \in WordsOfLength(ids, n), Linked(w), NEW r,
           NEW i \in Live(w), w[i].next # NoSym
    PROVE  LET j == w[i].next
               m == w[j].next
               v == AbsorbRight(w, i, r)
           IN /\ i \in DOMAIN w /\ j \in Live(w) /\ i < j /\ w[j].prev = i
              /\ m # NoSym => m \in Live(w) /\ j < m /\ w[m].prev = j
              /\ DOMAIN v = DOMAIN w /\ Live(v) = Live(w) \ {j}
              /\ v[i].c = r /\ v[i].prev = w[i].prev /\ v[i].next = m
              /\ v[i].len = w[i].len + w[j].len
              /\ m # NoSym => v[m].c = w[m].c /\ v[m].prev = i /\ v[m].next = w[m].next
              /\ \A k \in DOMAIN w \ {i, j, m} : v[k] = w[k]
              /\ \A k \in DOMAIN w \ {i} : v[k].c = w[k].c /\ v[k].next = w[k].next
              /\ \A k \in DOMAIN w \ {i, j} : v[k].len = w[k].len
<1> DEFINE j == w[i].next
           m == w[j].next
           v == AbsorbRight(w, i, r)
           first == [c |-> r, prev |-> w[i].prev, next |-> m, len |-> w[i].len + w[j].len]
           at(k) == CASE k = i -> first
                      [] k = j -> [w[j] EXCEPT !.len = 0]
                      [] k = m -> [w[m] EXCEPT !.prev = i]
                      [] OTHER -> w[k]
<1>1. /\ DOMAIN w = 0..(n - 1) /\ Live(w) \subseteq 0..(n - 1)
      /\ \A k \in 0..(n - 1) :
           /\ w[k].len \in Nat
           /\ w[k] = [c |-> w[k].c, prev |-> w[k].prev, next |-> w[k].next, len |-> w[k].len]
  BY SymbolTyped DEF Live
<1>2. i \in 0..(n - 1) /\ j \in Live(w) /\ i < j /\ w[j].prev = i
  BY <1>1 DEF Linked
<1>3. m # NoSym => m \in Live(w) /\ j < m /\ w[m].prev = j
  BY <1>2 DEF Linked
<1>4. v = [k \in DOMAIN w |-> at(k)]
  BY DEF AbsorbRight
<1>5. i # j /\ (m # NoSym => m # i /\ m # j)
  BY <1>1, <1>2, <1>3
<1>6. NoSym \notin DOMAIN w
  BY <1>1 DEF NoSym
<1> HIDE DEF v
<1>7. v[i] = first
  <2>1. i # j /\ i # m
    BY <1>1, <1>2, <1>5, <1>6
  <2>2. at(i) = first
    BY <2>1
  <2> QED
    BY <1>1, <1>2, <1>4, <2>2
<1>8. v[j] = [w[j] EXCEPT !.len = 0]
  <2>1. at(j) = [w[j] EXCEPT !.len = 0]
    BY <1>5
  <2> QED
    BY <1>1, <1>2, <1>4, <2>1
<1>9. m # NoSym => v[m] = [w[m] EXCEPT !.prev = i]
  <2>1. m # NoSym => at(m) = [w[m] EXCEPT !.prev = i]
    BY <1>5
  <2> QED
    BY <1>1, <1>3, <1>4, <2>1
<1>10. \A k \in DOMAIN w \ {i, j, m} : v[k] = w[k]
  BY <1>4
<1> HIDE DEF j, m, at
<1>11. /\ v[i].c = r /\ v[i].prev = w[i].prev /\ v[i].next = m /\ v[i].len = w[i].len + w[j].len
  BY <1>7
<1>12. v[j].len = 0 /\ v[j].c = w[j].c /\ v[j].next = w[j].next
  <2>1. w[j] = [c |-> w[j].c, prev |-> w[j].prev, next |-> w[j].next, len |-> w[j].len]
    BY <1>1, <1>2
  <2> QED
    BY <1>8, <2>1
<1>13. m # NoSym => v[m].c = w[m].c /\ v[m].prev = i /\ v[m].next = w[m].next /\ v[m].len = w[m].len
  <2>1. m # NoSym =>
          w[m] = [c |-> w[m].c, prev |-> w[m].prev, next |-> w[m].next, len |-> w[m].len]
    BY <1>1, <1>3
  <2> QED
    BY <1>9, <2>1
<1>14. \A k \in DOMAIN w \ {i} : v[k].c = w[k].c /\ v[k].next = w[k].next
  BY <1>6, <1>10, <1>12, <1>13
<1>15. \A k \in DOMAIN w \ {i, j} : v[k].len = w[k].len
  BY <1>6, <1>10, <1>13
<1>16. DOMAIN v = DOMAIN w
  BY <1>4
<1>17. Live(v) = Live(w) \ {j}
  <2>1. w[i].len \in Nat /\ w[j].len \in Nat /\ w[i].len # 0
    BY <1>1, <1>2 DEF Live
  <2>2. v[i].len # 0
    BY <1>11, <2>1
  <2> QED
    BY <1>1, <1>2, <1>12, <1>15, <1>16, <2>2 DEF Live
<1> QED
  BY <1>1, <1>2, <1>3, <1>10, <1>11, <1>13, <1>14, <1>15, <1>16, <1>17 DEF j, m, v

LEMMA AbsorbLinked ==
    ASSUME NEW ids, NEW n \in Nat, NEW w \in WordsOfLength(ids, n), Linked(w), NEW r,
           NEW i \in Live(w), w[i].next # NoSym
    PROVE  Linked(AbsorbRight(w, i, r))
<1> DEFINE j == w[i].next
           m == w[j].next
           v == AbsorbRight(w, i, r)
<1>1. /\ i \in DOMAIN w /\ j \in Live(w) /\ i < j /\ w[j].prev = i
      /\ m # NoSym => m \in Live(w) /\ j < m /\ w[m].prev = j
      /\ DOMAIN v = DOMAIN w /\ Live(v) = Live(w) \ {j}
      /\ v[i].prev = w[i].prev /\ v[i].next = m
      /\ m # NoSym => v[m].prev = i /\ v[m].next = w[m].next
      /\ \A k \in DOMAIN w \ {i, j, m} : v[k] = w[k]
      /\ \A k \in DOMAIN w \ {i} : v[k].next = w[k].next
  BY Absorbed
<1>2. DOMAIN w = 0..(n - 1) /\ Live(w) \subseteq 0..(n - 1) /\ j # NoSym
  BY SymbolTyped DEF Live
<1> HIDE DEF j, m, v
<1>3. ASSUME NEW k \in Live(v), v[k].next # NoSym
      PROVE  v[k].next \in Live(v) /\ v[v[k].next].prev = k /\ k < v[k].next
  <2>1. CASE k = i
    <3>1. v[k].next = m /\ m # NoSym
      BY <1>1, <1>3, <2>1
    <3>2. m \in Live(w) /\ j < m /\ i < j /\ v[m].prev = i
      BY <1>1, <3>1
    <3>3. i \in Int /\ j \in Int /\ m \in Int
      BY <1>1, <1>2, <3>2
    <3>4. i < m /\ m # j
      BY <3>2, <3>3
    <3> QED
      BY <1>1, <2>1, <3>1, <3>2, <3>4
  <2>2. CASE k # i
    <3> DEFINE b == w[k].next
    <3>1. k \in Live(w) /\ k # j /\ k \in DOMAIN w
      BY <1>1, <1>2
    <3>2. v[k].next = b /\ b # NoSym
      BY <1>1, <1>3, <2>2, <3>1
    <3>3. b \in Live(w) /\ w[b].prev = k /\ k < b
      BY <3>1, <3>2 DEF Linked
    <3> HIDE DEF b
    <3>4. b # j
      BY <1>1, <2>2, <3>3
    <3>5. b # m
      <4>1. SUFFICES ASSUME b = m PROVE FALSE
        OBVIOUS
      <4>2. w[m].prev = j
        BY <1>1, <3>2, <4>1
      <4> QED
        BY <3>1, <3>3, <4>1, <4>2
    <3>6. v[b].prev = k
      <4>1. CASE b = i
        BY <1>1, <3>3, <4>1
      <4>2. CASE b # i
        BY <1>1, <1>2, <3>3, <3>4, <3>5, <4>2
      <4> QED
        BY <4>1, <4>2
    <3> QED
      BY <1>1, <3>2, <3>3, <3>4, <3>6
  <2> QED
    BY <2>1, <2>2
<1>4. ASSUME NEW k \in Live(v), v[k].prev # NoSym
      PROVE  v[k].prev \in Live(v) /\ v[v[k].prev].next = k
  <2>1. CASE k = m
    <3>1. m # NoSym
      BY <1>1, <1>2, <2>1 DEF NoSym
    <3>2. v[k].prev = i /\ v[i].next = m
      BY <1>1, <2>1, <3>1
    <3>3. i # j /\ i \in Live(w)
      <4>1. i \in Int /\ j \in Int
        BY <1>1, <1>2
      <4> QED
        BY <1>1, <4>1
    <3> QED
      BY <1>1, <2>1, <3>2, <3>3
  <2>2. CASE k # m
    <3> DEFINE a == w[k].prev
    <3>1. k \in Live(w) /\ k # j /\ k \in DOMAIN w
      BY <1>1, <1>2
    <3>2. v[k].prev = a
      BY <1>1, <2>2, <3>1
    <3>3. a \in Live(w) /\ w[a].next = k
      BY <1>4, <3>1, <3>2 DEF Linked
    <3> HIDE DEF a
    <3>4. a # j
      BY <2>2, <3>3 DEF m
    <3>5. a # i
      BY <3>1, <3>3 DEF j
    <3>6. v[a].next = w[a].next
      BY <1>1, <1>2, <3>3, <3>5
    <3> QED
      BY <1>1, <3>2, <3>3, <3>4, <3>6
  <2> QED
    BY <2>1, <2>2
<1>5. Linked(v)
  BY <1>3, <1>4 DEF Linked
<1> QED
  BY <1>5 DEF v

-------------------------------------------------------------------------------
(* Word::merge reports every change of the counts. *)

Ind(b) == IF b THEN 1 ELSE 0

\* The size of a finite set, with and without one element.
LEMMA SizeWithout ==
    ASSUME NEW S, IsFiniteSet(S), NEW x
    PROVE  /\ IsFiniteSet(S \ {x}) /\ Cardinality(S) \in Nat
           /\ Cardinality(S) = Cardinality(S \ {x}) + Ind(x \in S)
<1>1. IsFiniteSet(S \ {x}) /\ Cardinality(S) \in Nat /\ Cardinality(S \ {x}) \in Nat
  BY FS_Subset, FS_CardinalityType
<1>2. CASE x \in S
  <2>1. Cardinality(S \ {x}) = Cardinality(S) - 1
    BY <1>2, FS_RemoveElement
  <2> QED
    BY <1>1, <1>2, <2>1 DEF Ind
<1>3. CASE x \notin S
  <2>1. S \ {x} = S
    BY <1>3
  <2>2. Ind(x \in S) = 0 /\ Cardinality(S \ {x}) = Cardinality(S)
    BY <1>3, <2>1 DEF Ind
  <2> QED
    BY <1>1, <2>2
<1> QED
  BY <1>1, <1>2, <1>3

\* Where a pair occurs in the list.
Places(w, q) == {k \in Live(w) : HasRight(w, k) /\ PairFrom(w, k) = q}

\* What a merge at i reports about pair q.
ChangeOf(w, i, p, r, q) ==
    LET l == w[i].prev
        m == w[w[i].next].next
    IN (IF l = NoSym THEN 0 ELSE Ind(<<w[l].c, r>> = q) - Ind(<<w[l].c, p[1]>> = q))
         + (IF m = NoSym THEN 0 ELSE Ind(<<r, w[m].c>> = q) - Ind(<<p[2], w[m].c>> = q))

LEMMA PlacesFinite ==
    ASSUME NEW ids, NEW n \in Nat, NEW w \in WordsOfLength(ids, n), NEW q
    PROVE  IsFiniteSet(Places(w, q)) /\ Occurrences(w, q) = Cardinality(Places(w, q))
           /\ Occurrences(w, q) \in 0..n
<1>1. Places(w, q) \subseteq 0..(n - 1)
  BY SymbolTyped DEF Places, Live
<1>2. IsFiniteSet(0..(n - 1)) /\ Cardinality(0..(n - 1)) = n
  BY WordSize
<1>3. IsFiniteSet(Places(w, q)) /\ Cardinality(Places(w, q)) <= n
  BY <1>1, <1>2, FS_Subset
<1>4. Cardinality(Places(w, q)) \in Nat
  BY <1>3, FS_CardinalityType
<1>5. Occurrences(w, q) = Cardinality(Places(w, q))
  BY DEF Occurrences, Places
<1> QED
  BY <1>3, <1>4, <1>5

LEMMA AbsorbOccurrences ==
    ASSUME NEW ids, NEW n \in Nat, NEW w \in WordsOfLength(ids, n), Linked(w), NEW r,
           NEW p, NEW i \in Live(w), w[i].next # NoSym, p = PairFrom(w, i), NEW q,
           NEW v, v = AbsorbRight(w, i, r), v \in WordsOfLength(ids, n)
    PROVE  Occurrences(v, q) = Occurrences(w, q) + ChangeOf(w, i, p, r, q) - Ind(p = q)
<1> DEFINE j == w[i].next
           l == w[i].prev
           m == w[j].next
<1>1. /\ i \in DOMAIN w /\ j \in Live(w) /\ i < j /\ w[j].prev = i
      /\ m # NoSym => m \in Live(w) /\ j < m /\ w[m].prev = j
      /\ DOMAIN v = DOMAIN w /\ Live(v) = Live(w) \ {j}
      /\ v[i].c = r /\ v[i].prev = w[i].prev /\ v[i].next = m
      /\ \A k \in DOMAIN w \ {i} : v[k].c = w[k].c /\ v[k].next = w[k].next
  BY Absorbed
<1>2. DOMAIN w = 0..(n - 1) /\ Live(w) \subseteq 0..(n - 1)
  BY SymbolTyped DEF Live
<1>3. l # NoSym => l \in Live(w) /\ w[l].next = i /\ l < i
  <2>1. l # NoSym => l \in Live(w) /\ w[l].next = i
    BY DEF Linked
  <2>2. i # NoSym
    BY <1>1, <1>2 DEF NoSym
  <2>3. l # NoSym => l < w[l].next
    BY <2>1, <2>2 DEF Linked
  <2> QED
    BY <2>1, <2>3
<1>4. j # NoSym
  OBVIOUS
<1>5. p = <<w[i].c, w[j].c>> /\ p[1] = w[i].c /\ p[2] = w[j].c
  BY DEF PairFrom
<1>6. NoSym \notin DOMAIN w /\ NoSym \notin Live(w)
  BY <1>2 DEF NoSym
<1>7. i # j /\ l # i /\ l # j /\ (m # NoSym => m # i /\ m # j)
  <2>1. i \in Int /\ j \in Int /\ (m # NoSym => m \in Int) /\ (l # NoSym => l \in Int)
    BY <1>1, <1>2, <1>3
  <2>2. l = NoSym => l # i /\ l # j
    BY <1>1, <1>6
  <2> QED
    BY <1>1, <1>3, <2>1, <2>2
<1>8. ChangeOf(w, i, p, r, q)
        = (IF l = NoSym THEN 0 ELSE Ind(<<w[l].c, r>> = q) - Ind(<<w[l].c, w[i].c>> = q))
           + (IF m = NoSym THEN 0 ELSE Ind(<<r, w[m].c>> = q) - Ind(<<w[j].c, w[m].c>> = q))
  BY <1>5 DEF ChangeOf
<1> DEFINE A == Places(w, q)
           B == Places(v, q)
<1> HIDE DEF j, l, m
<1>9. \A k : k \in A <=> k \in Live(w) /\ w[k].next # NoSym /\ <<w[k].c, w[w[k].next].c>> = q
  BY DEF Places, HasRight, PairFrom
<1>10. \A k : k \in B <=> k \in Live(v) /\ v[k].next # NoSym /\ <<v[k].c, v[v[k].next].c>> = q
  BY DEF Places, HasRight, PairFrom
<1> HIDE DEF A, B
<1>11. l \in A <=> l # NoSym /\ <<w[l].c, w[i].c>> = q
  BY <1>1, <1>2, <1>3, <1>6, <1>9
<1>12. i \in A <=> p = q
  BY <1>4, <1>5, <1>9 DEF j
<1>13. j \in A <=> m # NoSym /\ <<w[j].c, w[m].c>> = q
  BY <1>1, <1>9 DEF m
<1>14. l \in B <=> l # NoSym /\ <<w[l].c, r>> = q
  <2>1. CASE l = NoSym
    BY <1>1, <1>6, <1>10, <2>1
  <2>2. CASE l # NoSym
    <3>1. v[l].next = i /\ v[l].c = w[l].c /\ l \in Live(v)
      BY <1>1, <1>2, <1>3, <1>7, <2>2
    <3>2. i # NoSym
      BY <1>1, <1>6
    <3> QED
      BY <1>1, <1>10, <2>2, <3>1, <3>2
  <2> QED
    BY <2>1, <2>2
<1>15. i \in B <=> m # NoSym /\ <<r, w[m].c>> = q
  <2>1. i \in Live(v)
    BY <1>1, <1>7
  <2>2. m # NoSym => v[m].c = w[m].c
    BY <1>1, <1>2, <1>7
  <2> QED
    BY <1>1, <1>10, <2>1, <2>2
<1>16. j \notin B
  BY <1>1, <1>10
<1>17. ((A \ {l}) \ {i}) \ {j} = ((B \ {l}) \ {i}) \ {j}
  <2>1. ASSUME NEW k, k # l, k # i, k # j PROVE k \in A <=> k \in B
    <3>1. CASE k \notin Live(w)
      BY <1>1, <1>9, <1>10, <3>1
    <3>2. CASE k \in Live(w)
      <4>1. k \in Live(v) /\ v[k].c = w[k].c /\ v[k].next = w[k].next
        BY <1>1, <1>2, <2>1, <3>2
      <4>2. w[k].next # NoSym => v[w[k].next].c = w[w[k].next].c
        <5>1. w[k].next # NoSym => w[k].next \in Live(w) /\ w[w[k].next].prev = k
          BY <3>2 DEF Linked
        <5>2. w[k].next # i
          BY <1>1, <1>6, <2>1, <5>1 DEF l
        <5> QED
          BY <1>1, <1>2, <5>1, <5>2
      <4> QED
        BY <1>9, <1>10, <3>2, <4>1, <4>2
    <3> QED
      BY <3>1, <3>2
  <2> QED
    BY <2>1
<1>18. /\ IsFiniteSet(A) /\ IsFiniteSet(B)
       /\ Occurrences(w, q) = Cardinality(A) /\ Occurrences(v, q) = Cardinality(B)
  BY PlacesFinite DEF A, B
<1> DEFINE rest == Cardinality(((A \ {l}) \ {i}) \ {j})
<1>19. Cardinality(A) = rest + Ind(j \in A) + Ind(i \in A) + Ind(l \in A) /\ rest \in Nat
  <2>1. IsFiniteSet(A \ {l}) /\ Cardinality(A) = Cardinality(A \ {l}) + Ind(l \in A)
    BY <1>18, SizeWithout
  <2>2. /\ IsFiniteSet((A \ {l}) \ {i})
        /\ Cardinality(A \ {l}) = Cardinality((A \ {l}) \ {i}) + Ind(i \in A \ {l})
    BY <2>1, SizeWithout
  <2>3. /\ Cardinality((A \ {l}) \ {i}) = rest + Ind(j \in (A \ {l}) \ {i})
        /\ IsFiniteSet(((A \ {l}) \ {i}) \ {j})
    BY <2>2, SizeWithout
  <2>4. i \in A \ {l} <=> i \in A
    BY <1>7
  <2>5. j \in (A \ {l}) \ {i} <=> j \in A
    BY <1>7
  <2>6. rest \in Nat
    BY <2>3, FS_CardinalityType
  <2> HIDE DEF rest
  <2> QED
    BY <2>1, <2>2, <2>3, <2>4, <2>5, <2>6 DEF Ind
<1>20. Cardinality(B) = rest + Ind(i \in B) + Ind(l \in B)
  <2>1. IsFiniteSet(B \ {l}) /\ Cardinality(B) = Cardinality(B \ {l}) + Ind(l \in B)
    BY <1>18, SizeWithout
  <2>2. /\ IsFiniteSet((B \ {l}) \ {i})
        /\ Cardinality(B \ {l}) = Cardinality((B \ {l}) \ {i}) + Ind(i \in B \ {l})
    BY <2>1, SizeWithout
  <2>3. ((B \ {l}) \ {i}) \ {j} = (B \ {l}) \ {i}
    BY <1>16
  <2>4. rest = Cardinality((B \ {l}) \ {i})
    BY <1>17, <2>3
  <2>5. i \in B \ {l} <=> i \in B
    BY <1>7
  <2> HIDE DEF rest
  <2> QED
    BY <1>19, <2>1, <2>2, <2>4, <2>5 DEF Ind
<1> HIDE DEF rest
<1> QED
  BY <1>8, <1>11, <1>12, <1>13, <1>14, <1>15, <1>18, <1>19, <1>20 DEF Ind

LEMMA NetEmpty ==
    ASSUME NEW q
    PROVE  NetChange(<<>>, q) = 0
<1>1. DOMAIN <<>> = 1..0
  OBVIOUS
<1>2. PICK f : NetChangeRun(f, Int, 0, <<>>, q)
  <2>1. \A a \in Int, k \in 1..0 : CountChange(a, q, <<>>[k]) \in Int
    OBVIOUS
  <2>2. 0 \in Nat /\ 0 \in Int
    OBVIOUS
  <2> QED
    BY <1>1, <2>1, <2>2, NetChangeTrace
<1> QED
  BY <1>2 DEF NetChangeRun

\* One change more.
LEMMA NetAppend ==
    ASSUME NEW ids, NEW s \in Changes(ids), NEW c \in Pairs(ids) \X Int, NEW q
    PROVE  NetChange(Append(s, c), q) = CountChange(NetChange(s, q), q, c)
<1> DEFINE n == Len(s)
           t == Append(s, c)
<1>1. /\ n \in Nat /\ DOMAIN s = 1..n /\ DOMAIN t = 1..(n + 1)
      /\ \A k \in 1..n : t[k] = s[k] /\ s[k] \in Pairs(ids) \X Int
      /\ t[n + 1] = c
  BY DEF Changes
<1> HIDE DEF n, t
<1>2. \A a \in Int, d \in Pairs(ids) \X Int : CountChange(a, q, d) \in Int
  <2>1. \A d \in Pairs(ids) \X Int : d[2] \in Int
    OBVIOUS
  <2> QED
    BY <2>1 DEF CountChange
<1>3. PICK f : NetChangeRun(f, Int, n, s, q)
  <2>1. \A a \in Int, k \in 1..n : CountChange(a, q, s[k]) \in Int
    BY <1>1, <1>2
  <2>2. 0 \in Int
    OBVIOUS
  <2> QED
    BY <1>1, <2>1, <2>2, NetChangeTrace
<1>4. PICK g : NetChangeRun(g, Int, n + 1, t, q)
  <2>1. \A a \in Int, k \in 1..(n + 1) : CountChange(a, q, t[k]) \in Int
    <3>1. \A k \in 1..(n + 1) : t[k] \in Pairs(ids) \X Int
      BY <1>1
    <3> QED
      BY <1>2, <3>1
  <2>2. 0 \in Int /\ n + 1 \in Nat
    BY <1>1
  <2> QED
    BY <1>1, <2>1, <2>2, NetChangeTrace
<1> DEFINE T == {k \in 0..n : g[k] = f[k]}
<1>5. 0 \in T
  BY <1>1, <1>3, <1>4 DEF NetChangeRun
<1>6. ASSUME NEW k \in 1..n, k - 1 \in T PROVE k \in T
  <2>1. f[k] = CountChange(f[k - 1], q, s[k])
    BY <1>3 DEF NetChangeRun
  <2>2. g[k] = CountChange(g[k - 1], q, t[k])
    <3>1. k \in 1..(n + 1)
      BY <1>1
    <3> QED
      BY <1>4, <3>1 DEF NetChangeRun
  <2>3. t[k] = s[k] /\ g[k - 1] = f[k - 1] /\ k \in 0..n
    BY <1>1, <1>6
  <2> QED
    BY <2>1, <2>2, <2>3
<1>7. g[n] = f[n]
  <2>1. \A k \in 0..n : k \in T
    <3> HIDE DEF T
    <3> QED
      BY <1>1, <1>5, <1>6, InductUpto
  <2> QED
    BY <1>1, <2>1
<1>8. g[n + 1] = CountChange(g[n], q, c)
  <2>1. n + 1 \in 1..(n + 1) /\ (n + 1) - 1 = n
    BY <1>1
  <2>2. g[n + 1] = CountChange(g[(n + 1) - 1], q, t[n + 1])
    BY <1>4, <2>1 DEF NetChangeRun
  <2> QED
    BY <1>1, <2>1, <2>2
<1>9. NetChange(s, q) = f[n] /\ NetChange(t, q) = g[n + 1]
  BY <1>3, <1>4 DEF NetChangeRun
<1> QED
  BY <1>7, <1>8, <1>9 DEF t

\* Two changes more: one pair less, another one more.
LEMMA NetTwo ==
    ASSUME NEW ids, NEW s \in Changes(ids), NEW a \in Pairs(ids), NEW b \in Pairs(ids), NEW q
    PROVE  /\ s \o << <<a, -1>>, <<b, 1>> >> \in Changes(ids)
           /\ NetChange(s \o << <<a, -1>>, <<b, 1>> >>, q)
                = NetChange(s, q) + (Ind(b = q) - Ind(a = q))
<1> DEFINE c == <<a, -1>>
           d == <<b, 1>>
           C == Pairs(ids) \X Int
<1>1. c \in C /\ d \in C /\ c[1] = a /\ c[2] = -1 /\ d[1] = b /\ d[2] = 1
  OBVIOUS
<1> HIDE DEF c, d, C
<1>2. s \in Seq(C)
  BY DEF Changes, C
<1>3. s \o <<c, d>> = Append(Append(s, c), d)
  BY <1>1, <1>2
<1>4. Append(s, c) \in Changes(ids) /\ s \o <<c, d>> \in Changes(ids)
  BY <1>1, <1>2 DEF Changes, C
<1>5. NetChange(Append(s, c), q) = CountChange(NetChange(s, q), q, c)
  BY <1>1, NetAppend DEF C
<1>6. NetChange(Append(Append(s, c), d), q) = CountChange(NetChange(Append(s, c), q), q, d)
  BY <1>1, <1>4, NetAppend DEF C
<1>7. NetChange(s, q) \in Int
  BY NetChangeTyped
<1>8. NetChange(s \o <<c, d>>, q) = NetChange(s, q) + (Ind(b = q) - Ind(a = q))
  <2>1. \A x \in Int : CountChange(x, q, c) = x - Ind(a = q)
    BY <1>1 DEF CountChange, Ind
  <2>2. \A x \in Int : CountChange(x, q, d) = x + Ind(b = q)
    BY <1>1 DEF CountChange, Ind
  <2>3. Ind(a = q) \in Int /\ Ind(b = q) \in Int
    BY DEF Ind
  <2>4. NetChange(Append(s, c), q) = NetChange(s, q) - Ind(a = q)
    BY <1>5, <1>7, <2>1
  <2>5. NetChange(s \o <<c, d>>, q) = (NetChange(s, q) - Ind(a = q)) + Ind(b = q)
    <3> DEFINE t == Append(s, c)
    <3>1. NetChange(s \o <<c, d>>, q) = NetChange(Append(t, d), q)
      BY <1>3
    <3>2. NetChange(Append(t, d), q) = CountChange(NetChange(t, q), q, d)
      BY <1>6
    <3>3. NetChange(t, q) = NetChange(s, q) - Ind(a = q)
      BY <2>4
    <3> HIDE DEF t
    <3>4. NetChange(t, q) \in Int
      BY <1>7, <2>3, <3>3
    <3> QED
      BY <2>2, <3>1, <3>2, <3>3, <3>4
  <2> QED
    BY <1>7, <2>3, <2>5
<1> QED
  BY <1>4, <1>8 DEF c, d

\* What Word::merge reports at one place, added up.
LEMMA NetOfMerge ==
    ASSUME NEW ids, NEW n \in Nat, NEW w \in WordsOfLength(ids, n), NEW p \in Pairs(ids),
           NEW r \in ids, NEW i \in 0..(n - 1), w[i].next \in 0..(n - 1),
           NEW s \in Changes(ids), NEW q
    PROVE  NetChange(s \o ChangesAt(w, i, p, r), q) = NetChange(s, q) + ChangeOf(w, i, p, r, q)
<1> DEFINE l == w[i].prev
           m == w[w[i].next].next
           before == IF l = NoSym THEN <<>> ELSE << <<<<w[l].c, p[1]>>, -1>>, <<<<w[l].c, r>>, 1>> >>
           after == IF m = NoSym THEN <<>> ELSE << <<<<p[2], w[m].c>>, -1>>, <<<<r, w[m].c>>, 1>> >>
           first == IF l = NoSym THEN 0 ELSE Ind(<<w[l].c, r>> = q) - Ind(<<w[l].c, p[1]>> = q)
           second == IF m = NoSym THEN 0 ELSE Ind(<<r, w[m].c>> = q) - Ind(<<p[2], w[m].c>> = q)
<1>1. ChangesAt(w, i, p, r) = before \o after
  BY DEF ChangesAt
<1>2. ChangeOf(w, i, p, r, q) = first + second
  BY DEF ChangeOf
<1>3. l # NoSym => w[l].c \in ids
  BY SymbolTyped, ZenonT(30)
<1>4. m # NoSym => w[m].c \in ids
  BY SymbolTyped, ZenonT(30)
<1>5. p[1] \in ids /\ p[2] \in ids
  BY DEF Pairs
<1>6. \A t \in Changes(ids) : t \o <<>> = t /\ NetChange(t, q) \in Int
  <2>1. \A t \in Changes(ids) : t \o <<>> = t
    BY DEF Changes
  <2>2. \A t \in Changes(ids) : NetChange(t, q) \in Int
    BY NetChangeTyped
  <2> QED
    BY <2>1, <2>2
<1> HIDE DEF l, m
<1>7. s \o before \in Changes(ids) /\ NetChange(s \o before, q) = NetChange(s, q) + first
  <2>1. CASE l = NoSym
    BY <1>6, <2>1
  <2>2. CASE l # NoSym
    <3>1. <<w[l].c, p[1]>> \in Pairs(ids) /\ <<w[l].c, r>> \in Pairs(ids)
      BY <1>3, <1>5, <2>2 DEF Pairs
    <3>2. before = << <<<<w[l].c, p[1]>>, -1>>, <<<<w[l].c, r>>, 1>> >>
          /\ first = Ind(<<w[l].c, r>> = q) - Ind(<<w[l].c, p[1]>> = q)
      BY <2>2
    <3> HIDE DEF before, first
    <3> QED
      BY <3>1, <3>2, NetTwo
  <2> QED
    BY <2>1, <2>2
<1>8. \A t \in Changes(ids) : NetChange(t \o after, q) = NetChange(t, q) + second
  <2>1. CASE m = NoSym
    BY <1>6, <2>1
  <2>2. CASE m # NoSym
    <3>1. <<p[2], w[m].c>> \in Pairs(ids) /\ <<r, w[m].c>> \in Pairs(ids)
      BY <1>4, <1>5, <2>2 DEF Pairs
    <3>2. after = << <<<<p[2], w[m].c>>, -1>>, <<<<r, w[m].c>>, 1>> >>
          /\ second = Ind(<<r, w[m].c>> = q) - Ind(<<p[2], w[m].c>> = q)
      BY <2>2
    <3> HIDE DEF after, second
    <3> QED
      BY <3>1, <3>2, NetTwo
  <2> QED
    BY <2>1, <2>2
<1>9. s \o (before \o after) = (s \o before) \o after
  <2>1. before \in Seq((Int \X Int) \X Int) \/ TRUE
    OBVIOUS
  <2>2. \E A : s \in Seq(A) /\ before \in Seq(A) /\ after \in Seq(A)
    <3> DEFINE A == Pairs(ids) \X Int
    <3>1. s \in Seq(A)
      BY DEF Changes
    <3>2. l # NoSym => <<<<w[l].c, p[1]>>, -1>> \in A /\ <<<<w[l].c, r>>, 1>> \in A
      BY <1>3, <1>5 DEF Pairs
    <3>3. m # NoSym => <<<<p[2], w[m].c>>, -1>> \in A /\ <<<<r, w[m].c>>, 1>> \in A
      BY <1>4, <1>5 DEF Pairs
    <3> HIDE DEF A
    <3>4. before \in Seq(A)
      BY <3>2
    <3>5. after \in Seq(A)
      BY <3>3
    <3> QED
      BY <3>1, <3>4, <3>5
  <2> HIDE DEF before, after
  <2> QED
    BY <2>2, SMTT(30)
<1>10. first \in Int /\ second \in Int /\ NetChange(s, q) \in Int
  BY <1>6 DEF Ind
<1> HIDE DEF before, after, first, second
<1>11. NetChange((s \o before) \o after, q) = NetChange(s \o before, q) + second
  BY <1>7, <1>8
<1> QED
  BY <1>1, <1>2, <1>7, <1>9, <1>10, <1>11

-------------------------------------------------------------------------------
(* Word::merge over a whole word. *)

\* The changes account for how often every pair occurs now; the merged pair's own
\* count is left alone.
Accounts(w, p, a) ==
    \A q : IF q = p
           THEN Occurrences(a.word, q) <= Occurrences(w, q) + NetChange(a.changes, q)
           ELSE Occurrences(a.word, q) = Occurrences(w, q) + NetChange(a.changes, q)

\* What is true of a word while pair p is merged in it.
Accounted(ids, n, w, p) ==
    {a \in Merging(ids, n) : Linked(a.word) /\ Accounts(w, p, a)}

LEMMA MergeStepAccounts ==
    ASSUME NEW ids, NEW n \in Nat, NEW w \in WordsOfLength(ids, n), NEW p \in Pairs(ids),
           NEW r \in ids, NEW i \in 0..(n - 1), NEW max, NEW a \in Accounted(ids, n, w, p)
    PROVE  MergeStep(a, i, p, r, max) \in Accounted(ids, n, w, p)
<1> DEFINE b == MergeStep(a, i, p, r, max)
<1>1. a \in Merging(ids, n) /\ Linked(a.word) /\ Accounts(w, p, a)
  BY DEF Accounted
<1>2. CASE ~Matches(a.word, i, p, max)
  BY <1>2 DEF MergeStep
<1>3. CASE Matches(a.word, i, p, max)
  <2> DEFINE u == a.word
             v == AbsorbRight(u, i, r)
             s == a.changes
  <2>1. u \in WordsOfLength(ids, n) /\ s \in Changes(ids) /\ Linked(u)
    BY <1>1 DEF Merging
  <2>2. i \in Live(u) /\ u[i].next # NoSym /\ p = PairFrom(u, i)
    BY <1>3 DEF Matches, HasRight
  <2>3. b = [word |-> v, changes |-> s \o ChangesAt(u, i, p, r)]
    BY <1>3 DEF MergeStep
  <2>4. b \in Merging(ids, n)
    BY <1>1, MergeStepTyped
  <2> HIDE DEF b, u, s, v
  <2>5. b.word = v /\ b.changes = s \o ChangesAt(u, i, p, r)
    BY <2>3
  <2>6. v \in WordsOfLength(ids, n) /\ Linked(v)
    <3>1. v \in WordsOfLength(ids, n)
      BY <2>4, <2>5 DEF Merging
    <3> QED
      BY <2>1, <2>2, <3>1, AbsorbLinked DEF v
  <2>7. u[i].next \in 0..(n - 1)
    <3>1. u[i].next \in (0..(n - 1)) \cup {NoSym}
      BY <2>1, SymbolTyped
    <3> QED
      BY <2>2, <3>1
  <2>8. ASSUME NEW q
        PROVE  IF q = p
               THEN Occurrences(b.word, q) <= Occurrences(w, q) + NetChange(b.changes, q)
               ELSE Occurrences(b.word, q) = Occurrences(w, q) + NetChange(b.changes, q)
    <3>1. Occurrences(v, q) = Occurrences(u, q) + ChangeOf(u, i, p, r, q) - Ind(p = q)
      BY <2>1, <2>2, <2>6, AbsorbOccurrences DEF v
    <3>2. NetChange(b.changes, q) = NetChange(s, q) + ChangeOf(u, i, p, r, q)
      BY <2>1, <2>5, <2>7, NetOfMerge
    <3>3. IF q = p THEN Occurrences(u, q) <= Occurrences(w, q) + NetChange(s, q)
          ELSE Occurrences(u, q) = Occurrences(w, q) + NetChange(s, q)
      BY <1>1 DEF Accounts, u, s
    <3>4. Occurrences(u, q) \in Int /\ Occurrences(w, q) \in Int /\ NetChange(s, q) \in Int
      BY <2>1, PlacesFinite, NetChangeTyped
    <3>5. ChangeOf(u, i, p, r, q) \in Int
      BY DEF ChangeOf, Ind
    <3> QED
      BY <2>5, <3>1, <3>2, <3>3, <3>4, <3>5 DEF Ind
  <2>9. Accounts(w, p, b)
    BY <2>8 DEF Accounts
  <2>10. b \in Accounted(ids, n, w, p)
    BY <2>4, <2>5, <2>6, <2>9 DEF Accounted
  <2> QED
    BY <2>10 DEF b
<1> QED
  BY <1>2, <1>3

LEMMA MergeWordAccounts ==
    ASSUME NEW ids, NEW n \in Nat, NEW w \in WordsOfLength(ids, n), Linked(w),
           NEW p \in Pairs(ids), NEW r \in ids, NEW max
    PROVE  MergeWord(w, p, r, max) \in Accounted(ids, n, w, p)
<1> DEFINE V == Accounted(ids, n, w, p)
<1>1. Cardinality(DOMAIN w) = n
  BY SymbolTyped, WordSize
<1>2. [word |-> w, changes |-> <<>>] \in V
  <2> DEFINE a == [word |-> w, changes |-> <<>>]
  <2>1. <<>> \in Changes(ids)
    BY DEF Changes
  <2>2. a \in Merging(ids, n) /\ a.word = w /\ a.changes = <<>>
    BY <2>1 DEF Merging
  <2> HIDE DEF a
  <2>3. Accounts(w, p, a)
    <3>1. \A q : Occurrences(w, q) \in Int /\ NetChange(<<>>, q) = 0
      BY PlacesFinite, NetEmpty
    <3> QED
      BY <2>2, <3>1 DEF Accounts
  <2>4. a \in V
    BY <2>2, <2>3 DEF Accounted
  <2> QED
    BY <2>4 DEF a
<1>3. \A a \in V, k \in 1..n : MergeStep(a, k - 1, p, r, max) \in V
  <2>1. \A k \in 1..n : k - 1 \in 0..(n - 1)
    OBVIOUS
  <2> QED
    BY <2>1, MergeStepAccounts
<1> HIDE DEF V
<1>4. PICK f : MergeWordRun(f, V, n, w, p, r, max)
  BY <1>1, <1>2, <1>3, MergeWordTrace
<1>5. MergeWord(w, p, r, max) \in V
  <2>1. n \in 0..n
    OBVIOUS
  <2> QED
    BY <1>4, <2>1 DEF MergeWordRun
<1> QED
  BY <1>5 DEF V

-------------------------------------------------------------------------------
(* The slices of the positions, and sums over them. *)

\* The sum of one number.
LEMMA SumSingle ==
    ASSUME NEW x, NEW f \in [{x} -> Int]
    PROVE  SumFunction(f) = f[x]
<1>1. IsFiniteSet({x})
  BY FS_Singleton
<1>2. PICK it \in [SUBSET {x} -> Int] : SumFcn(it, f, {x}) /\ SumFunction(f) = it[{x}]
  BY <1>1, SumValue
<1>3. StartsAnywhere(it, f, {x})
  BY <1>1, <1>2, SumAny
<1>4. it[{x}] = f[x] + it[{x} \ {x}]
  BY <1>3 DEF StartsAnywhere
<1>5. {x} \ {x} = {} /\ it[{}] = 0
  BY <1>2 DEF SumFcn
<1>6. f[x] \in Int /\ it[{x} \ {x}] = 0
  BY <1>5
<1>7. it[{x}] = f[x]
  BY <1>4, <1>6
<1> QED
  BY <1>2, <1>7

\* An order of a set's elements names each of them once.
LEMMA OrderOnto ==
    ASSUME NEW S, IsFiniteSet(S), NEW order \in SetToSeqs(S)
    PROVE  /\ \A x \in S : \E k \in 1..Len(order) : order[k] = x
           /\ \A j, k \in 1..Len(order) : order[j] = order[k] => j = k
<1> DEFINE n == Cardinality(S)
<1>1. n \in Nat
  BY FS_CardinalityType
<1>2. order \in [1..n -> S] /\ \A i, j \in 1..n : i # j => order[i] # order[j]
  BY DEF SetToSeqs
<1>3. Len(order) = n
  BY <1>1, <1>2, OrderFacts
<1>4. order \in Injection(1..n, S)
  BY <1>2 DEF Injection, IsInjective
<1>5. IsFiniteSet(1..n) /\ Cardinality(1..n) = n
  BY <1>1, FS_Interval
<1>6. order \in Surjection(1..n, S)
  BY <1>4, <1>5, FS_Injection
<1>7. \A x \in S : \E k \in 1..n : order[k] = x
  BY <1>6 DEF Surjection
<1> QED
  BY <1>2, <1>3, <1>7

\* Which places of the order a slice holds.
LEMMA SliceHolds ==
    ASSUME NEW S, NEW order \in Seq(S)
    PROVE  \E chunk \in Nat, hw \in Nat \ {0} :
             /\ DOMAIN Slices(order) = 0..(hw - 1)
             /\ Len(order) <= chunk * hw
             /\ \A t \in 0..(hw - 1) :
                  Slices(order)[t] = {order[k] : k \in {i \in 1..Len(order) :
                                                    chunk * t < i /\ i <= chunk * (t + 1)}}
<1> DEFINE n == Len(order)
           hw == NumWorkers(n)
           chunk == (n + hw - 1) \div hw
           slice(t) == {order[k] : k \in (t * chunk + 1)..Min({(t + 1) * chunk, n})}
<1>1. n \in Nat /\ DOMAIN order = 1..n
  OBVIOUS
<1>2. hw \in Nat \ {0}
  BY <1>1, WorkersTyped
<1>3. Slices(order) = [t \in 0..(hw - 1) |-> slice(t)]
  BY DEF Slices
<1> HIDE DEF n, hw
<1>4. chunk \in Nat /\ n <= chunk * hw
  <2>1. n + hw - 1 \in Nat
    BY <1>1, <1>2
  <2>2. chunk \in Nat /\ n + hw - 1 < hw * chunk + hw
    BY <1>2, <2>1, Quotient
  <2> HIDE DEF chunk
  <2>3. hw * chunk = chunk * hw /\ chunk * hw \in Int
    BY <1>2, <2>2
  <2> QED
    BY <1>1, <1>2, <2>2, <2>3
<1> HIDE DEF chunk
<1>5. ASSUME NEW t \in 0..(hw - 1)
      PROVE  slice(t) = {order[k] : k \in {i \in 1..n : chunk * t < i /\ i <= chunk * (t + 1)}}
  <2> DEFINE lo == t * chunk
             hi == (t + 1) * chunk
  <2>1. lo \in Nat /\ hi \in Nat /\ lo = chunk * t /\ hi = chunk * (t + 1)
    BY <1>2, <1>4
  <2> HIDE DEF lo, hi
  <2>2. Min({hi, n}) \in {hi, n} /\ Min({hi, n}) <= n /\ Min({hi, n}) <= hi
    <3>1. hi \in Int /\ n \in Int
      BY <1>1, <2>1
    <3> HIDE DEF n
    <3> QED
      BY <3>1, MinOfTwo
  <2>3. \A k : k \in (lo + 1)..Min({hi, n}) <=> k \in {i \in 1..n : lo < i /\ i <= hi}
    BY <1>1, <2>1, <2>2
  <2>4. slice(t) = {order[k] : k \in (lo + 1)..Min({hi, n})}
    BY DEF lo, hi
  <2> HIDE DEF slice
  <2> QED
    BY <2>1, <2>3, <2>4
<1> HIDE DEF slice
<1>6. /\ DOMAIN Slices(order) = 0..(hw - 1)
      /\ \A t \in 0..(hw - 1) :
           Slices(order)[t] = {order[k] : k \in {i \in 1..n : chunk * t < i /\ i <= chunk * (t + 1)}}
  BY <1>3, <1>5
<1> QED
  BY <1>2, <1>4, <1>6 DEF n

\* Adding up the slices' sums is adding up everything.
LEMMA SlicesSum ==
    ASSUME NEW S, IsFiniteSet(S), NEW order \in SetToSeqs(S), NEW g \in [S -> Int],
           NEW h \in [DOMAIN Slices(order) -> Int],
           \A t \in DOMAIN Slices(order) :
              h[t] = SumFunction([w \in Slices(order)[t] |-> g[w]])
    PROVE  SumFunction(h) = SumFunction(g)
<1> DEFINE n == Len(order)
           slice(t) == Slices(order)[t]
<1>1. order \in Seq(S) /\ n \in Nat /\ DOMAIN order = 1..n
  BY OrderFacts
<1>2. /\ \A x \in S : \E k \in 1..n : order[k] = x
      /\ \A j, k \in 1..n : order[j] = order[k] => j = k
  BY OrderOnto
<1>3. PICK chunk \in Nat, hw \in Nat \ {0} :
        /\ DOMAIN Slices(order) = 0..(hw - 1)
        /\ n <= chunk * hw
        /\ \A t \in 0..(hw - 1) :
             slice(t) = {order[k] : k \in {i \in 1..n : chunk * t < i /\ i <= chunk * (t + 1)}}
  BY <1>1, SliceHolds
<1> HIDE DEF n, slice
<1> DEFINE upto(t) == {order[k] : k \in {i \in 1..n : i <= chunk * t}}
           G(t) == [w \in upto(t) |-> g[w]]
           H(t) == [u \in 0..(t - 1) |-> h[u]]
           part(t) == [w \in slice(t) |-> g[w]]
           T == {t \in 0..hw : SumFunction(G(t)) = SumFunction(H(t))}
<1>4. \A k \in 1..n : order[k] \in S
  BY <1>1
<1>5. \A t \in 0..hw : upto(t) \subseteq S /\ IsFiniteSet(upto(t)) /\ G(t) \in [upto(t) -> Int]
  <2>1. \A t \in 0..hw : upto(t) \subseteq S
    BY <1>4
  <2>2. \A t \in 0..hw : IsFiniteSet(upto(t))
    BY <2>1, FS_Subset
  <2> QED
    BY <2>1, <2>2
<1>6. \A t \in 0..hw : IsFiniteSet(0..(t - 1)) /\ H(t) \in [0..(t - 1) -> Int]
  <2>1. ASSUME NEW t \in 0..hw PROVE IsFiniteSet(0..(t - 1)) /\ H(t) \in [0..(t - 1) -> Int]
    <3>1. t - 1 \in Int /\ 0 \in Int
      OBVIOUS
    <3>2. \A u \in 0..(t - 1) : u \in 0..(hw - 1)
      OBVIOUS
    <3> QED
      BY <1>3, <3>1, <3>2, FS_Interval
  <2> QED
    BY <2>1
<1>7. 0 \in T
  <2>1. chunk * 0 = 0
    OBVIOUS
  <2>2. upto(0) = {}
    BY <1>1, <2>1
  <2>3. 0..(0 - 1) = {}
    OBVIOUS
  <2>4. G(0) \in [{} -> Int] /\ H(0) \in [{} -> Int]
    BY <2>2, <2>3
  <2>5. SumFunction(G(0)) = 0 /\ SumFunction(H(0)) = 0
    <3> HIDE DEF G, H
    <3> QED
      BY <2>4, SumEmpty
  <2>6. 0 \in 0..hw
    OBVIOUS
  <2> HIDE DEF G, H
  <2> QED
    BY <2>5, <2>6
<1>8. ASSUME NEW t \in 1..hw, t - 1 \in T PROVE t \in T
  <2> DEFINE u == t - 1
  <2>1. u \in 0..hw /\ t \in 0..hw /\ u \in 0..(hw - 1) /\ u + 1 = t
    OBVIOUS
  <2>2. slice(u) = {order[k] : k \in {i \in 1..n : chunk * u < i /\ i <= chunk * t}}
    BY <1>3, <2>1
  <2>3. chunk * u \in Int /\ chunk * t \in Int /\ chunk * u <= chunk * t
    BY <2>1
  <2> HIDE DEF u
  <2>4. upto(u) \cup slice(u) = upto(t)
    <3>1. \A k \in 1..n : k <= chunk * t <=> k <= chunk * u \/ (chunk * u < k /\ k <= chunk * t)
      BY <1>1, <2>3
    <3> QED
      BY <2>2, <3>1
  <2>5. upto(u) \cap slice(u) = {}
    <3>1. \A i \in 1..n : ~ (i <= chunk * u /\ chunk * u < i)
      BY <2>3
    <3> QED
      BY <1>2, <2>2, <3>1
  <2>6. SumFunction(G(t)) = SumFunction(G(u)) + SumFunction(part(u))
    <3>1. /\ G(t) \in [upto(t) -> Int] /\ G(u) \in [upto(u) -> Int] /\ IsFiniteSet(upto(t))
          /\ upto(u) \in SUBSET upto(t) /\ slice(u) \in SUBSET upto(t)
      BY <1>5, <2>1, <2>4
    <3>2. part(u) \in [slice(u) -> Int]
      BY <1>5, <2>1, <3>1
    <3>3. /\ \A x \in upto(u) : G(u)[x] = G(t)[x]
          /\ \A x \in slice(u) : part(u)[x] = G(t)[x]
      BY <3>1
    <3> HIDE DEF G, part, upto
    <3>4. Splits(G(t), upto(t), G(u), upto(u), part(u), slice(u))
      BY <2>4, <2>5, <3>1, <3>2, <3>3 DEF Splits
    <3> QED
      BY <3>1, <3>4, SumParts
  <2>7. SumFunction(H(t)) = SumFunction(H(u)) + h[u]
    <3> DEFINE one == [x \in {u} |-> h[x]]
    <3>1. h[u] \in Int
      BY <1>3, <2>1
    <3>2. one \in [{u} -> Int] /\ one[u] = h[u]
      BY <3>1
    <3>3. /\ 0..(u - 1) \in SUBSET (0..(t - 1)) /\ {u} \in SUBSET (0..(t - 1))
          /\ (0..(u - 1)) \cup {u} = 0..(t - 1) /\ (0..(u - 1)) \cap {u} = {}
      BY <2>1
    <3>4. /\ H(t) \in [0..(t - 1) -> Int] /\ H(u) \in [0..(u - 1) -> Int]
          /\ IsFiniteSet(0..(t - 1))
      BY <1>6, <2>1
    <3>5. \A x \in 0..(u - 1) : H(u)[x] = H(t)[x]
      BY <3>3
    <3>6. \A x \in {u} : one[x] = H(t)[x]
      BY <3>3
    <3> HIDE DEF H, one
    <3>7. SumFunction(H(t)) = SumFunction(H(u)) + SumFunction(one)
      <4>1. Splits(H(t), 0..(t - 1), H(u), 0..(u - 1), one, {u})
        BY <3>2, <3>3, <3>4, <3>5, <3>6 DEF Splits
      <4> QED
        BY <3>4, <4>1, SumParts
    <3>8. SumFunction(one) = one[u]
      BY <3>2, SumSingle
    <3> QED
      BY <3>2, <3>7, <3>8
  <2>8. h[u] = SumFunction(part(u))
    BY <1>3, <2>1 DEF slice
  <2>9. SumFunction(G(u)) = SumFunction(H(u))
    <3> HIDE DEF G, H
    <3> QED
      BY <1>8 DEF u
  <2> HIDE DEF G, H, part
  <2> QED
    BY <2>1, <2>6, <2>7, <2>8, <2>9
<1>9. hw \in T
  <2>1. hw \in 0..hw
    OBVIOUS
  <2>2. \A t \in 0..hw : t \in T
    <3> HIDE DEF T
    <3> QED
      BY <1>7, <1>8, InductUpto
  <2> QED
    BY <2>1, <2>2
<1>10. upto(hw) = S
  <2>1. \A k \in 1..n : k <= chunk * hw
    BY <1>1, <1>3
  <2>2. upto(hw) = {order[k] : k \in 1..n}
    BY <2>1
  <2> QED
    BY <1>2, <1>4, <2>2
<1>11. G(hw) = g
  BY <1>10
<1>12. H(hw) = h
  BY <1>3
<1> HIDE DEF G, H
<1> QED
  BY <1>9, <1>11, <1>12

-------------------------------------------------------------------------------
(* The pairs' true counts. *)

TrueCountOf(ws, cs, q) == SumFunction([w \in DOMAIN ws |-> cs[w] * Occurrences(ws[w], q)])

SymbolsOf(ws, cs) == SumFunction([w \in DOMAIN ws |-> cs[w] * Cardinality(DOMAIN ws[w])])

\* A sum of zeros.
LEMMA SumZero ==
    ASSUME NEW S, IsFiniteSet(S), NEW f \in [S -> Int], \A x \in S : f[x] = 0
    PROVE  SumFunction(f) = 0
<1> DEFINE g == [x \in {} |-> 0]
<1>1. g \in [{} -> Int] /\ {} \in SUBSET S /\ \A x \in {} : g[x] = f[x]
  OBVIOUS
<1>2. \A x \in S \ {} : f[x] = 0
  OBVIOUS
<1> HIDE DEF g
<1>3. SumFunction(f) = SumFunction(g)
  <2>1. ZeroOutside(f, S, g, {})
    BY <1>1, <1>2 DEF ZeroOutside
  <2> QED
    BY <2>1, SumWithin
<1>4. SumFunction(g) = 0
  BY <1>1, SumEmpty
<1> QED
  BY <1>3, <1>4

\* No summand exceeds a sum of natural numbers.
LEMMA SumTerm ==
    ASSUME NEW S, IsFiniteSet(S), NEW f \in [S -> Int], \A x \in S : f[x] >= 0, NEW x \in S
    PROVE  0 <= f[x] /\ f[x] <= SumFunction(f)
<1> DEFINE one == [y \in {x} |-> f[y]]
           g == [y \in S |-> IF y = x THEN f[x] ELSE 0]
<1>1. one \in [{x} -> Int] /\ g \in [S -> Int] /\ {x} \in SUBSET S /\ one[x] = f[x]
  OBVIOUS
<1>2. (\A y \in S \ {x} : g[y] = 0) /\ (\A y \in {x} : one[y] = g[y]) /\ \A y \in S : g[y] <= f[y]
  OBVIOUS
<1> HIDE DEF one, g
<1>3. SumFunction(g) = SumFunction(one)
  <2>1. ZeroOutside(g, S, one, {x})
    BY <1>1, <1>2 DEF ZeroOutside
  <2> QED
    BY <2>1, SumWithin
<1>4. SumFunction(one) = one[x]
  BY <1>1, SumSingle
<1>5. SumFunction(g) <= SumFunction(f)
  BY <1>1, <1>2, SumAtMost
<1> QED
  BY <1>1, <1>3, <1>4, <1>5

LEMMA TimesNat ==
    ASSUME NEW a \in Nat, NEW b \in Nat
    PROVE  a * b \in Nat
OBVIOUS

LEMMA TimesMonotone ==
    ASSUME NEW a \in Nat, NEW b \in Int, NEW c \in Int, b <= c
    PROVE  a * b \in Int /\ a * c \in Int /\ a * b <= a * c
BY Monotone

\* How often a pair occurs is bounded by the symbols there are.
LEMMA TrueCountTyped ==
    ASSUME NEW ids, NEW ws, NEW cs, IsWords(ws, cs, ids), NEW q
    PROVE  /\ [w \in DOMAIN ws |-> cs[w] * Occurrences(ws[w], q)] \in [DOMAIN ws -> Int]
           /\ TrueCountOf(ws, cs, q) \in Nat
           /\ TrueCountOf(ws, cs, q) <= SymbolsOf(ws, cs)
           /\ \A w \in DOMAIN ws : Occurrences(ws[w], q) \in Nat
<1> DEFINE f == [w \in DOMAIN ws |-> cs[w] * Occurrences(ws[w], q)]
           g == [w \in DOMAIN ws |-> cs[w] * Cardinality(DOMAIN ws[w])]
           z == [w \in DOMAIN ws |-> 0]
<1>1. ASSUME NEW w \in DOMAIN ws
      PROVE  /\ Occurrences(ws[w], q) \in Nat /\ cs[w] \in Nat
             /\ cs[w] * Occurrences(ws[w], q) \in Nat
             /\ cs[w] * Cardinality(DOMAIN ws[w]) \in Int
             /\ cs[w] * Occurrences(ws[w], q) <= cs[w] * Cardinality(DOMAIN ws[w])
  <2>1. ws[w] \in WordsOver(ids) /\ cs[w] \in Nat
    BY WordsFacts
  <2>2. PICK n \in Nat : ws[w] \in WordsOfLength(ids, n)
    BY <2>1 DEF WordsOver
  <2>3. Occurrences(ws[w], q) \in 0..n
    BY <2>2, PlacesFinite
  <2>4. Cardinality(DOMAIN ws[w]) = n
    BY <2>2, SymbolTyped, WordSize
  <2>5. Occurrences(ws[w], q) \in Nat /\ Occurrences(ws[w], q) <= n
    BY <2>2, <2>3
  <2> QED
    BY <2>1, <2>2, <2>4, <2>5, TimesNat, TimesMonotone
<1>2. IsFiniteSet(DOMAIN ws)
  BY WordsFacts
<1>3. f \in [DOMAIN ws -> Int] /\ g \in [DOMAIN ws -> Int] /\ z \in [DOMAIN ws -> Int]
  BY <1>1
<1>4. \A w \in DOMAIN ws : f[w] <= g[w] /\ z[w] <= f[w] /\ z[w] = 0
  BY <1>1
<1>5. TrueCountOf(ws, cs, q) = SumFunction(f) /\ SymbolsOf(ws, cs) = SumFunction(g)
  BY DEF TrueCountOf, SymbolsOf
<1> HIDE DEF f, g, z
<1>6. SumFunction(f) \in Int
  BY <1>2, <1>3, SumInt
<1>7. SumFunction(f) <= SumFunction(g)
  BY <1>2, <1>3, <1>4, SumAtMost
<1>8. SumFunction(z) <= SumFunction(f) /\ SumFunction(z) = 0
  BY <1>2, <1>3, <1>4, SumAtMost, SumZero
<1> QED
  BY <1>1, <1>3, <1>5, <1>6, <1>7, <1>8 DEF f

\* What fits is not narrowed.
LEMMA NotNarrowed ==
    ASSUME NEW n \in Nat, n < HalfInt32
    PROVE  ToInt32(n) = n
<1>1. HalfInt32 \in Nat \ {0}
  BY HardwareAssumption
<1>2. n + HalfInt32 \in 0..(2 * HalfInt32 - 1)
  BY <1>1
<1>3. (n + HalfInt32) % (2 * HalfInt32) = n + HalfInt32
  <2> DEFINE m == 2 * HalfInt32
             a == n + HalfInt32
  <2>1. m \in Nat \ {0} /\ a \in 0..(m - 1)
    BY <1>1, <1>2
  <2> HIDE DEF m, a
  <2>2. a % m = a
    BY <2>1
  <2> QED
    BY <2>2 DEF m, a
<1> QED
  BY <1>1, <1>3 DEF ToInt32

LEMMA FitsInt32 ==
    ASSUME NEW ids, IsWords(words, counts, ids), CountsFit,
           NEW w \in DOMAIN words, DOMAIN words[w] # {}
    PROVE  ToInt32(counts[w]) = counts[w]
<1> DEFINE g == [k \in DOMAIN words |-> counts[k] * Cardinality(DOMAIN words[k])]
<1>1. \A k \in DOMAIN words : /\ counts[k] \in Nat /\ IsFiniteSet(DOMAIN words[k])
                              /\ Cardinality(DOMAIN words[k]) \in Nat
  <2>1. ASSUME NEW k \in DOMAIN words
        PROVE  /\ counts[k] \in Nat /\ IsFiniteSet(DOMAIN words[k])
               /\ Cardinality(DOMAIN words[k]) \in Nat
    <3>1. words[k] \in WordsOver(ids) /\ counts[k] \in Nat
      BY WordsFacts
    <3>2. PICK n \in Nat : words[k] \in WordsOfLength(ids, n)
      BY <3>1 DEF WordsOver
    <3>3. DOMAIN words[k] = 0..(n - 1)
      BY <3>2, SymbolTyped
    <3> QED
      BY <3>1, <3>3, WordSize
  <2> QED
    BY <2>1
<1>2. \A k \in DOMAIN words : counts[k] * Cardinality(DOMAIN words[k]) \in Nat
  BY <1>1, TimesNat
<1>3. g \in [DOMAIN words -> Int] /\ (\A k \in DOMAIN words : g[k] >= 0) /\ IsFiniteSet(DOMAIN words)
  BY <1>2, WordsFacts
<1>4. SumFunction(g) < HalfInt32
  BY DEF CountsFit, SymbolsFed
<1>5. g[w] = counts[w] * Cardinality(DOMAIN words[w])
  OBVIOUS
<1> HIDE DEF g
<1>6. g[w] <= SumFunction(g) /\ SumFunction(g) \in Int /\ g[w] \in Int
  BY <1>3, SumTerm, SumInt
<1>7. Cardinality(DOMAIN words[w]) \in Nat /\ Cardinality(DOMAIN words[w]) # 0
  BY <1>1, FS_EmptySet
<1>8. counts[w] \in Nat /\ counts[w] <= g[w]
  <2>1. counts[w] * 1 <= counts[w] * Cardinality(DOMAIN words[w]) /\ counts[w] \in Nat
    BY <1>1, <1>7, TimesMonotone
  <2> QED
    BY <1>5, <2>1
<1>9. counts[w] < HalfInt32
  BY <1>4, <1>6, <1>8, HardwareAssumption
<1> QED
  BY <1>8, <1>9, NotNarrowed

\* A word without symbols stays as it is.
LEMMA EmptyMerge ==
    ASSUME NEW w, Cardinality(DOMAIN w) = 0, NEW p, NEW r, NEW max
    PROVE  MergeWord(w, p, r, max) = [word |-> w, changes |-> <<>>]
<1> DEFINE a == [word |-> w, changes |-> <<>>]
           V == {a}
<1>1. 1..Cardinality(DOMAIN w) = 1..0 /\ 0 \in Nat
  OBVIOUS
<1>2. a \in V /\ \A k \in 1..0 : FALSE
  OBVIOUS
<1> HIDE DEF V
<1>4. [word |-> w, changes |-> <<>>] \in V
  BY <1>2
<1>5. \A b \in V, k \in 1..0 : MergeStep(b, k - 1, p, r, max) \in V
  BY <1>2
<1>3. PICK f : MergeWordRun(f, V, 0, w, p, r, max)
  BY <1>1, <1>4, <1>5, MergeWordTrace
<1> QED
  BY <1>3 DEF MergeWordRun

-------------------------------------------------------------------------------
(* What one merge does to the counts. *)

\* A pair no change names keeps its count.
LEMMA NetUnchanged ==
    ASSUME NEW ids, NEW changes \in Changes(ids), NEW q, q \notin ChangedPairs(changes)
    PROVE  NetChange(changes, q) = 0
<1> DEFINE n == Len(changes)
           V == {0}
<1>1. n \in Nat /\ DOMAIN changes = 1..n
  BY DEF Changes
<1>2. \A k \in 1..n : changes[k][1] # q
  BY <1>1 DEF ChangedPairs
<1> HIDE DEF n
<1>3. 0 \in V /\ \A a \in V, k \in 1..n : CountChange(a, q, changes[k]) \in V
  BY <1>2 DEF CountChange
<1> HIDE DEF V
<1>4. PICK f : NetChangeRun(f, V, n, changes, q)
  BY <1>1, <1>3, NetChangeTrace
<1>5. NetChange(changes, q) \in V
  BY <1>1, <1>4 DEF NetChangeRun
<1> QED
  BY <1>5 DEF V

\* The deltas of pair q in the words that were merged.
Deltas(merged, places, q) ==
    [w \in places |-> ToInt32(counts[w]) * NetChange(merged[w].changes, q)]

LEMMA DeltasTyped ==
    ASSUME NEW ids, IsWords(words, counts, ids), NEW merged, NEW places \in SUBSET DOMAIN words,
           IsMerged(merged, places, ids), NEW q
    PROVE  Deltas(merged, places, q) \in [places -> Int]
<1>1. ASSUME NEW w \in places
      PROVE  ToInt32(counts[w]) * NetChange(merged[w].changes, q) \in Int
  <2>1. counts[w] \in Int
    BY WordsFacts
  <2>2. ToInt32(counts[w]) \in Int
    BY <2>1, ToInt32Typed
  <2>3. merged[w].changes \in Changes(ids)
    BY DEF IsMerged
  <2>4. NetChange(merged[w].changes, q) \in Int
    BY <2>3, NetChangeTyped
  <2> QED
    BY <2>2, <2>4
<1> QED
  BY <1>1 DEF Deltas

\* A slice's delta is the sum of its words'; nobody changed an unaffected pair.
LEMMA SliceDeltaSum ==
    ASSUME NEW ids, IsWords(words, counts, ids), NEW merged, NEW places \in SUBSET DOMAIN words,
           IsMerged(merged, places, ids), NEW slice \in SUBSET places, NEW q
    PROVE  /\ SliceDelta(merged, slice, q) = SumFunction([w \in slice |-> Deltas(merged, places, q)[w]])
           /\ q \notin UNION {ChangedPairs(merged[w].changes) : w \in slice}
                => SliceDelta(merged, slice, q) = 0
<1> DEFINE d == [w \in slice |-> ToInt32(counts[w]) * NetChange(merged[w].changes, q)]
<1>1. SliceDelta(merged, slice, q) = SumFunction(d)
  BY DEF SliceDelta
<1>2. d = [w \in slice |-> Deltas(merged, places, q)[w]]
  BY DEF Deltas
<1>3. ASSUME q \notin UNION {ChangedPairs(merged[w].changes) : w \in slice}
      PROVE  SumFunction(d) = 0
  <2>1. ASSUME NEW w \in slice PROVE d[w] = 0
    <3>1. q \notin ChangedPairs(merged[w].changes) /\ merged[w].changes \in Changes(ids)
      BY <1>3 DEF IsMerged
    <3>2. NetChange(merged[w].changes, q) = 0
      BY <3>1, NetUnchanged
    <3>3. ToInt32(counts[w]) \in Int
      BY WordsFacts, ToInt32Typed, SMTT(30)
    <3>4. ToInt32(counts[w]) * 0 = 0
      BY <3>3
    <3> QED
      BY <3>2, <3>4
  <2>2. d \in [slice -> Int] /\ \A w \in slice : d[w] = 0
    BY <2>1
  <2>3. IsFiniteSet(slice)
    BY WordsFacts, FS_Subset
  <2> HIDE DEF d
  <2> QED
    BY <2>2, <2>3, SumZero
<1> QED
  BY <1>1, <1>2, <1>3

\* The deltas of the slices add up to those of the words.
LEMMA NewCount ==
    ASSUME NEW ids, IsWords(words, counts, ids), StatsOver(stats, ids, DOMAIN words),
           NEW merged, NEW places \in SUBSET DOMAIN words,
           IsMerged(merged, places, ids), NEW order \in SetToSeqs(places), NEW newWords, NEW q
    PROVE  StatsOf(NewStats(merged, Slices(order), Affected(merged, Slices(order)), newWords), q).count
             = StatsOf(stats, q).count + SumFunction(Deltas(merged, places, q))
<1> DEFINE slices == Slices(order)
           moved == Affected(merged, slices)
           new == NewStats(merged, slices, moved, newWords)
           h == [t \in DOMAIN slices |-> SliceDelta(merged, slices[t], q)]
           d == Deltas(merged, places, q)
           old == StatsOf(stats, q).count
<1>1. IsFiniteSet(places)
  BY WordsFacts, FS_Subset
<1>2. order \in Seq(places)
  BY <1>1, OrderFacts
<1>3. IsFiniteSet(DOMAIN slices) /\ \A t \in DOMAIN slices : slices[t] \subseteq places
  BY <1>2, SlicesTyped
<1>4. d \in [places -> Int]
  BY DeltasTyped
<1> HIDE DEF d
<1>5. \A t \in DOMAIN slices : SliceDelta(merged, slices[t], q) = SumFunction([w \in slices[t] |-> d[w]])
  BY <1>3, SliceDeltaSum DEF d
<1>6. h \in [DOMAIN slices -> Int]
  BY <1>3, SliceDeltaTyped
<1>7. SumFunction(h) = SumFunction(d)
  <2>1. \A t \in DOMAIN slices : h[t] = SumFunction([w \in slices[t] |-> d[w]])
    BY <1>5
  <2> HIDE DEF h
  <2> QED
    BY <1>1, <1>4, <1>6, <2>1, SlicesSum
<1>8. DOMAIN new = DOMAIN stats \cup moved
  BY DEF NewStats
<1>9. old \in Int
  BY DEF StatsOf, StatsOver
<1>10. CASE q \in moved
  <2>1. new[q].count = old + SumFunction(h)
    BY <1>10 DEF NewStats
  <2>2. StatsOf(new, q) = new[q]
    BY <1>8, <1>10 DEF StatsOf
  <2> QED
    BY <1>7, <2>1, <2>2 DEF d
<1>11. CASE q \notin moved
  <2>1. ASSUME NEW t \in DOMAIN slices PROVE h[t] = 0
    <3>1. CASE q \in UNION {ChangedPairs(merged[w].changes) : w \in slices[t]}
      BY <1>11, <3>1 DEF Affected
    <3>2. CASE q \notin UNION {ChangedPairs(merged[w].changes) : w \in slices[t]}
      <4>1. SliceDelta(merged, slices[t], q) = 0
        BY <1>3, <3>2, SliceDeltaSum
      <4> QED
        BY <4>1
    <3> QED
      BY <3>1, <3>2
  <2>2. SumFunction(h) = 0
    <3> HIDE DEF h
    <3> QED
      BY <1>3, <1>6, <2>1, SumZero
  <2>3. StatsOf(new, q) = StatsOf(stats, q)
    <3>1. CASE q \in DOMAIN stats
      <4>1. new[q] = stats[q]
        BY <1>11, <3>1 DEF NewStats
      <4> QED
        BY <1>8, <3>1, <4>1 DEF StatsOf
    <3>2. CASE q \notin DOMAIN stats
      BY <1>8, <1>11, <3>2 DEF StatsOf
    <3> QED
      BY <3>1, <3>2
  <2> HIDE DEF h, new
  <2>4. old + 0 = old
    BY <1>9
  <2> QED
    BY <1>7, <2>2, <2>3, <2>4 DEF d, new
<1> QED
  BY <1>10, <1>11

-------------------------------------------------------------------------------
(* What one merge does to the words. *)

\* Every word is a list without gaps.
AllLinked(ws) == \A k \in DOMAIN ws : Linked(ws[k])

\* A merged word is still a list without gaps, over the same symbols.
LEMMA MergedLinked ==
    ASSUME NEW ids, NEW w \in WordsOver(ids), Linked(w),
           NEW p \in Pairs(ids), NEW r \in ids, NEW max
    PROVE  Linked(MergeWord(w, p, r, max).word) /\ DOMAIN MergeWord(w, p, r, max).word = DOMAIN w
<1> DEFINE a == MergeWord(w, p, r, max)
<1>1. PICK n \in Nat : w \in WordsOfLength(ids, n)
  BY DEF WordsOver
<1>2. a \in Accounted(ids, n, w, p)
  BY <1>1, MergeWordAccounts
<1>3. a.word \in WordsOfLength(ids, n) /\ Linked(a.word)
  BY <1>2 DEF Accounted, Merging
<1>4. DOMAIN a.word = DOMAIN w
  BY <1>1, <1>3, SymbolTyped
<1> QED
  BY <1>3, <1>4

\* The words of some places with pair p merged into r.
MergedInto(newWords, merged, places, p, r, max) ==
    /\ merged = [w \in places |-> MergeWord(words[w], p, r, max)]
    /\ newWords = [w \in DOMAIN words |-> IF w \in places THEN merged[w].word ELSE words[w]]

LEMMA MergedLists ==
    ASSUME NEW ids, IsWords(words, counts, ids), AllLinked(words),
           NEW p \in Pairs(ids), NEW r \in ids, NEW max, NEW places \in SUBSET DOMAIN words,
           NEW merged, NEW newWords, MergedInto(newWords, merged, places, p, r, max)
    PROVE  AllLinked(newWords) /\ SymbolsOf(newWords, counts) = SymbolsOf(words, counts)
<1>0. /\ merged = [w \in places |-> MergeWord(words[w], p, r, max)]
      /\ newWords = [w \in DOMAIN words |-> IF w \in places THEN merged[w].word ELSE words[w]]
  BY DEF MergedInto
<1>1. ASSUME NEW w \in DOMAIN words
      PROVE  Linked(newWords[w]) /\ DOMAIN newWords[w] = DOMAIN words[w]
  <2>1. words[w] \in WordsOver(ids) /\ Linked(words[w])
    BY WordsFacts DEF AllLinked
  <2>2. CASE w \in places
    <3>1. newWords[w] = MergeWord(words[w], p, r, max).word
      BY <1>0, <2>2
    <3> QED
      BY <2>1, <3>1, MergedLinked
  <2>3. CASE w \notin places
    BY <1>0, <2>1, <2>3
  <2> QED
    BY <2>2, <2>3
<1>2. DOMAIN newWords = DOMAIN words
  BY <1>0
<1>3. [w \in DOMAIN newWords |-> counts[w] * Cardinality(DOMAIN newWords[w])]
        = [w \in DOMAIN words |-> counts[w] * Cardinality(DOMAIN words[w])]
  BY <1>1, <1>2
<1>4. SymbolsOf(newWords, counts) = SymbolsOf(words, counts)
  BY <1>3 DEF SymbolsOf
<1> QED
  BY <1>1, <1>2, <1>4 DEF AllLinked

LEMMA DistributeSum ==
    ASSUME NEW c \in Int, NEW a \in Int, NEW b \in Int
    PROVE  c * (a + b) = c * a + c * b /\ c * a \in Int /\ c * b \in Int
OBVIOUS

\* The occurrences in one word that was merged.
LEMMA MergedOccurrences ==
    ASSUME NEW ids, IsWords(words, counts, ids), CountsFit, NEW w \in DOMAIN words, Linked(words[w]),
           NEW p \in Pairs(ids), NEW r \in ids, NEW max, NEW q
    PROVE  LET a == MergeWord(words[w], p, r, max)
               before == counts[w] * Occurrences(words[w], q)
               after == counts[w] * Occurrences(a.word, q)
               delta == ToInt32(counts[w]) * NetChange(a.changes, q)
           IN /\ before \in Int /\ after \in Int /\ delta \in Int
              /\ after <= before + delta
              /\ q # p => after = before + delta
<1> DEFINE u == words[w]
           a == MergeWord(u, p, r, max)
           c == counts[w]
           net == NetChange(a.changes, q)
           o == Occurrences(u, q)
           oo == Occurrences(a.word, q)
<1>1. u \in WordsOver(ids) /\ c \in Nat
  BY WordsFacts
<1>2. PICK n \in Nat : u \in WordsOfLength(ids, n)
  BY <1>1 DEF WordsOver
<1>3. a \in Accounted(ids, n, u, p)
  BY <1>2, MergeWordAccounts
<1>4. /\ a.word \in WordsOfLength(ids, n) /\ a.changes \in Changes(ids)
      /\ Accounts(u, p, a)
  BY <1>3 DEF Accounted, Merging
<1>6. o \in Int /\ oo \in Int
  BY <1>2, <1>4, PlacesFinite
<1>7. net \in Int
  BY <1>4, NetChangeTyped
<1>8. oo <= o + net /\ (q # p => oo = o + net)
  BY <1>4, <1>6, <1>7 DEF Accounts
<1>9. CASE DOMAIN u # {}
  <2>1. ToInt32(c) = c
    BY <1>9, FitsInt32
  <2> HIDE DEF u, a, c, net, o, oo
  <2>2. c * (o + net) = c * o + c * net /\ c * o \in Int /\ c * net \in Int
    BY <1>1, <1>6, <1>7, DistributeSum
  <2>3. c * oo \in Int /\ c * oo <= c * (o + net)
    BY <1>1, <1>6, <1>7, <1>8, TimesMonotone
  <2>4. q # p => c * oo = c * o + c * net
    BY <1>8, <2>2
  <2>5. c * oo <= c * o + c * net
    BY <2>2, <2>3
  <2> QED
    BY <2>1, <2>2, <2>3, <2>4, <2>5 DEF u, a, c, net, o, oo
<1>10. CASE DOMAIN u = {}
  <2>1. Cardinality(DOMAIN u) = 0
    BY <1>10, FS_EmptySet
  <2>2. a = [word |-> u, changes |-> <<>>]
    <3> HIDE DEF u
    <3> QED
      BY <2>1, EmptyMerge
  <2>3. net = 0 /\ oo = o
    BY <2>2, NetEmpty
  <2>4. ToInt32(c) \in Int
    BY <1>1, ToInt32Typed
  <2> HIDE DEF u, a, c, net, o, oo
  <2>5. ToInt32(c) * net = 0
    BY <2>3, <2>4
  <2>6. c * o \in Int
    BY <1>1, <1>6, DistributeSum
  <2>7. /\ c * oo \in Int /\ ToInt32(c) * net \in Int
        /\ c * oo = c * o + ToInt32(c) * net
        /\ c * oo <= c * o + ToInt32(c) * net
    BY <2>3, <2>5, <2>6
  <2> QED
    BY <2>6, <2>7 DEF u, a, c, net, o, oo
<1> QED
  BY <1>9, <1>10

\* The true counts after the merge of pair p into r at some places.
LEMMA NewTrueCount ==
    ASSUME NEW ids, IsWords(words, counts, ids), CountsFit, AllLinked(words),
           NEW p \in Pairs(ids), NEW r \in ids, NEW max, NEW places \in SUBSET DOMAIN words,
           NEW merged, NEW newWords, MergedInto(newWords, merged, places, p, r, max),
           IsMerged(merged, places, ids), IsWords(newWords, counts, ids), NEW q
    PROVE  /\ TrueCountOf(newWords, counts, q)
                <= TrueCountOf(words, counts, q) + SumFunction(Deltas(merged, places, q))
           /\ q # p => TrueCountOf(newWords, counts, q)
                         = TrueCountOf(words, counts, q) + SumFunction(Deltas(merged, places, q))
<1> DEFINE S == DOMAIN words
           f == [w \in S |-> counts[w] * Occurrences(words[w], q)]
           g == [w \in S |-> counts[w] * Occurrences(newWords[w], q)]
           d == Deltas(merged, places, q)
           e == [w \in S |-> IF w \in places THEN d[w] ELSE 0]
           h == [w \in S |-> f[w] + e[w]]
<1>0. /\ merged = [w \in places |-> MergeWord(words[w], p, r, max)]
      /\ newWords = [w \in DOMAIN words |-> IF w \in places THEN merged[w].word ELSE words[w]]
  BY DEF MergedInto
<1>1. DOMAIN newWords = S /\ IsFiniteSet(S)
  BY <1>0, WordsFacts
<1>2. d \in [places -> Int]
  BY DeltasTyped
<1>3. f \in [S -> Int] /\ g \in [S -> Int]
  <2>1. f \in [S -> Int]
    BY TrueCountTyped
  <2>2. g = [w \in DOMAIN newWords |-> counts[w] * Occurrences(newWords[w], q)]
    BY <1>1
  <2>3. [w \in DOMAIN newWords |-> counts[w] * Occurrences(newWords[w], q)] \in [DOMAIN newWords -> Int]
    BY TrueCountTyped
  <2> QED
    BY <1>1, <2>1, <2>2, <2>3
<1>4. ASSUME NEW w \in S
      PROVE  /\ g[w] <= f[w] + e[w]
             /\ q # p => g[w] = f[w] + e[w]
  <2>1. CASE w \in places
    <3> DEFINE a == MergeWord(words[w], p, r, max)
    <3>1. Linked(words[w])
      BY DEF AllLinked
    <3>2. newWords[w] = a.word /\ merged[w] = a
      BY <1>0, <2>1
    <3>3. f[w] = counts[w] * Occurrences(words[w], q) /\ g[w] = counts[w] * Occurrences(a.word, q)
          /\ e[w] = ToInt32(counts[w]) * NetChange(a.changes, q)
      BY <2>1, <3>2 DEF Deltas
    <3> HIDE DEF f, g, e, a
    <3> QED
      BY <3>1, <3>2, <3>3, MergedOccurrences DEF a
  <2>2. CASE w \notin places
    <3>1. newWords[w] = words[w] /\ e[w] = 0 /\ g[w] = f[w] /\ f[w] \in Int
      BY <1>0, <1>3, <2>2
    <3> HIDE DEF f, g, e
    <3> QED
      BY <3>1
  <2> QED
    BY <2>1, <2>2
<1>5. e \in [S -> Int] /\ h \in [S -> Int]
  <2>1. e \in [S -> Int]
    <3> HIDE DEF d
    <3> QED
      BY <1>2
  <2> HIDE DEF f, e
  <2> QED
    BY <1>3, <2>1
<1>6. SumFunction(e) = SumFunction(d)
  <2>1. ZeroOutside(e, S, d, places)
    <3>1. \A w \in S \ places : e[w] = 0
      OBVIOUS
    <3>2. \A w \in places : e[w] = d[w]
      OBVIOUS
    <3> HIDE DEF e, d
    <3> QED
      BY <1>2, <1>5, <3>1, <3>2 DEF ZeroOutside
  <2> HIDE DEF e, d
  <2> QED
    BY <1>1, <2>1, SumWithin
<1>7. SumFunction(h) = SumFunction(f) + SumFunction(e)
  <2>1. \A w \in S : h[w] = f[w] + e[w]
    OBVIOUS
  <2> HIDE DEF h, f, e
  <2> QED
    BY <1>1, <1>3, <1>5, <2>1, SumPlus
<1>8. \A w \in S : g[w] <= h[w] /\ (q # p => g[w] = h[w])
  <2>1. \A w \in S : h[w] = f[w] + e[w]
    OBVIOUS
  <2> HIDE DEF h, f, e, g
  <2> QED
    BY <1>4, <2>1
<1>9. SumFunction(g) <= SumFunction(h)
  <2> HIDE DEF h, g
  <2> QED
    BY <1>1, <1>3, <1>5, <1>8, SumAtMost
<1>10. q # p => g = h
  <2> HIDE DEF h, g
  <2> QED
    BY <1>3, <1>5, <1>8
<1>11. TrueCountOf(newWords, counts, q) = SumFunction(g) /\ TrueCountOf(words, counts, q) = SumFunction(f)
  BY <1>1 DEF TrueCountOf
<1> HIDE DEF f, g, h, e, d
<1> QED
  BY <1>6, <1>7, <1>9, <1>10, <1>11 DEF d

-------------------------------------------------------------------------------
(* What the symbols of a word that was just tokenized spell. *)

\* The characters known as tokens of their own are the same.
SameBare(new, old) == \A c : KnownToken(new, Char(c)) <=> KnownToken(old, Char(c))

\* The k-th character of a word is not dropped.
KeptAt(toks, text, k) == Composite(KeyAt(text, k)) \/ KnownToken(toks, Char(text[k]))

KeptOf(toks, text) ==
    FlattenSeq([k \in DOMAIN text |-> IF KeptAt(toks, text, k) THEN <<text[k]>> ELSE <<>>])

LEMMA SameKept ==
    ASSUME NEW new, NEW old, SameBare(new, old), NEW text
    PROVE  KeptOf(new, text) = KeptOf(old, text)
BY DEF KeptOf, KeptAt, SameBare

\* The characters of a word that are kept, one after the other.
KeptRun(g, toks, text) ==
    /\ g \in [0..Len(text) -> Seq(Characters)]
    /\ g[0] = <<>>
    /\ \A k \in 1..Len(text) :
         g[k] = IF KeptAt(toks, text, k) THEN Append(g[k - 1], text[k]) ELSE g[k - 1]
    /\ KeptOf(toks, text) = g[Len(text)]

LEMMA KeptTrace ==
    ASSUME NEW toks, NEW text \in Seq(Characters)
    PROVE  \E g : KeptRun(g, toks, text)
<1> DEFINE n == Len(text)
           ss == [k \in DOMAIN text |-> IF KeptAt(toks, text, k) THEN <<text[k]>> ELSE <<>>]
<1>1. n \in Nat /\ DOMAIN text = 1..n /\ \A k \in 1..n : text[k] \in Characters
  OBVIOUS
<1>2. Len(ss) = n /\ \A k \in 1..n : ss[k] = IF KeptAt(toks, text, k) THEN <<text[k]>> ELSE <<>>
  BY <1>1
<1>3. \A k \in 1..n : ss[k] \in Seq(Characters)
  BY <1>1, <1>2
<1>4. KeptOf(toks, text) = FlattenSeq(ss)
  BY DEF KeptOf
<1> HIDE DEF ss, n
<1>5. PICK g : FlattenRun(g, Characters, ss)
  BY <1>1, <1>2, <1>3, FlattenTrace
<1>6. /\ g \in [0..n -> Seq(Characters)] /\ g[0] = <<>>
      /\ \A k \in 1..n : g[k] = g[k - 1] \o ss[k]
      /\ FlattenSeq(ss) = g[n]
  BY <1>2, <1>5 DEF FlattenRun
<1>7. ASSUME NEW k \in 1..n
      PROVE  g[k] = IF KeptAt(toks, text, k) THEN Append(g[k - 1], text[k]) ELSE g[k - 1]
  <2> DEFINE s == g[k - 1]
             c == text[k]
  <2>1. s \in Seq(Characters) /\ c \in Characters
    <3>1. k - 1 \in 0..n
      BY <1>1
    <3> QED
      BY <1>1, <1>6, <3>1
  <2>2. g[k] = s \o ss[k]
    BY <1>6
  <2> HIDE DEF s, c
  <2>3. s \o <<c>> = Append(s, c) /\ s \o <<>> = s
    BY <2>1
  <2> QED
    BY <1>2, <2>2, <2>3 DEF s, c
<1>8. KeptRun(g, toks, text)
  BY <1>4, <1>6, <1>7 DEF KeptRun, n
<1> QED
  BY <1>8

\* The symbols are tokens of one character each, and spell the characters.
Made(toks, syms, chars) ==
    /\ Len(syms) = Len(chars)
    /\ \A i \in 1..Len(chars) :
         syms[i][2] # 0 /\ toks[syms[i][1] + 1].text = <<chars[i]>>

LEMMA MadeAppend ==
    ASSUME NEW toks, NEW A, NEW syms \in Seq(A), NEW S, NEW chars \in Seq(S), NEW new,
           Made(toks, syms, chars), \A i \in 1..Len(chars) : new[syms[i][1] + 1] = toks[syms[i][1] + 1],
           NEW sym, NEW c, sym[2] # 0, new[sym[1] + 1].text = <<c>>
    PROVE  Made(new, Append(syms, sym), Append(chars, c))
<1> DEFINE n == Len(chars)
           more == Append(syms, sym)
           cs == Append(chars, c)
<1>1. n \in Nat /\ Len(syms) = n
  BY DEF Made
<1>2. /\ Len(more) = n + 1 /\ more[n + 1] = sym /\ \A i \in 1..n : more[i] = syms[i]
      /\ Len(cs) = n + 1 /\ cs[n + 1] = c /\ \A i \in 1..n : cs[i] = chars[i]
  BY <1>1
<1> HIDE DEF more, cs
<1>3. ASSUME NEW i \in 1..(n + 1)
      PROVE  more[i][2] # 0 /\ new[more[i][1] + 1].text = <<cs[i]>>
  <2>1. CASE i = n + 1
    BY <1>2, <2>1
  <2>2. CASE i # n + 1
    <3>1. i \in 1..n
      BY <1>1, <2>2
    <3> QED
      BY <1>2, <3>1, ZenonT(30) DEF Made
  <2> QED
    BY <2>1, <2>2
<1>4. Made(new, more, cs)
  BY <1>2, <1>3 DEF Made
<1> QED
  BY <1>4 DEF more, cs

\* A composite token is none of a single character.
LEMMA AddComposite ==
    ASSUME NEW U, NEW toks \in Vocabs(U), NEW key \in U, Composite(key)
    PROVE  SameBare(AddToken(toks, key), toks)
<1>1. CASE KnownToken(toks, key)
  BY <1>1 DEF AddToken, SameBare
<1>2. CASE ~KnownToken(toks, key)
  <2> DEFINE new == Append(toks, key)
  <2>1. AddToken(toks, key) = new
    BY <1>2 DEF AddToken
  <2>2. toks \in Seq(U)
    BY DEF Vocabs
  <2>3. /\ Len(toks) \in Nat /\ DOMAIN toks = 1..Len(toks) /\ DOMAIN new = 1..(Len(toks) + 1)
        /\ \A k \in 1..Len(toks) : new[k] = toks[k]
        /\ new[Len(toks) + 1] = key
    BY <2>2, AppendProperties
  <2> HIDE DEF new
  <2>4. ASSUME NEW c PROVE KnownToken(new, Char(c)) <=> KnownToken(toks, Char(c))
    <3>1. key # Char(c)
      BY DEF Composite, Char
    <3>2. \A k \in 1..(Len(toks) + 1) : k \in 1..Len(toks) \/ k = Len(toks) + 1
      BY <2>3
    <3>3. 1..Len(toks) \subseteq 1..(Len(toks) + 1)
      BY <2>3
    <3> QED
      BY <2>3, <3>1, <3>2, <3>3 DEF KnownToken
  <2> QED
    BY <2>1, <2>4 DEF SameBare
<1> QED
  BY <1>1, <1>2

LEMMA TokenizeCharMade ==
    ASSUME NEW U, NEW toks \in Vocabs(U), NEW a \in Tokenized(U, toks),
           NEW w \in Seq(Characters), NEW k \in DOMAIN w, KeyAt(w, k) \in U,
           NEW base, SameBare(a.toks, base), NEW chars \in Seq(Characters),
           Made(a.toks, a.syms, chars)
    PROVE  LET b == TokenizeChar(a, w, k)
           IN /\ SameBare(b.toks, base)
              /\ Made(b.toks, b.syms, IF KeptAt(base, w, k) THEN Append(chars, w[k]) ELSE chars)
<1> DEFINE key == KeyAt(w, k)
           new == IF Composite(key) THEN AddToken(a.toks, key) ELSE a.toks
           sym == <<IdOf(new, key), CharLen[w[k]]>>
           b == TokenizeChar(a, w, k)
<1>1. /\ a.toks \in Vocabs(U) /\ Extends(a.toks, toks)
      /\ a.syms \in Seq(IdsOf(a.toks) \X Nat) /\ a.toks \in Seq(U) /\ toks \in Seq(U)
  BY DEF Tokenized, Vocabs
<1>2. new \in Vocabs(U) /\ Extends(new, a.toks)
  BY <1>1, AddTokenFacts, ExtendsOrder
<1>3. SameBare(new, a.toks)
  <2>1. CASE Composite(key)
    <3>1. new = AddToken(a.toks, key)
      BY <2>1
    <3> QED
      BY <1>1, <2>1, <3>1, AddComposite
  <2>2. CASE ~Composite(key)
    BY <2>2 DEF SameBare
  <2> QED
    BY <2>1, <2>2
<1>4. SameBare(new, base)
  BY <1>3 DEF SameBare
<1>5. KnownToken(new, key) <=> KeptAt(base, w, k)
  <2>1. CASE Composite(key)
    <3>1. KnownToken(new, key)
      BY <1>1, <2>1, AddTokenFacts
    <3> QED
      BY <2>1, <3>1 DEF KeptAt
  <2>2. CASE ~Composite(key)
    <3>1. key = Char(w[k])
      <4>1. key.pre = (opts.prefix /\ k > 1) /\ key.suf = (opts.suffix /\ k = Len(w))
            /\ key.text = <<w[k]>>
            /\ key = [pre |-> key.pre, text |-> key.text, suf |-> key.suf]
        BY DEF KeyAt
      <4>2. ~key.pre /\ ~key.suf
        BY <2>2 DEF Composite
      <4>3. key.pre = FALSE /\ key.suf = FALSE
        BY <4>1, <4>2
      <4> HIDE DEF key
      <4> QED
        BY <4>1, <4>3 DEF Char
    <3>2. KeptAt(base, w, k) <=> KnownToken(base, Char(w[k]))
      BY <2>2 DEF KeptAt
    <3> HIDE DEF key, new
    <3> QED
      BY <1>4, <3>1, <3>2 DEF SameBare
  <2> QED
    BY <2>1, <2>2
<1>6. CASE ~KnownToken(new, key)
  <2>1. b = a
    BY <1>6 DEF TokenizeChar
  <2> HIDE DEF b, new, key
  <2> QED
    BY <1>5, <1>6, <2>1 DEF b
<1>7. CASE KnownToken(new, key)
  <2>1. b = [toks |-> new, syms |-> Append(a.syms, sym)]
    BY <1>7 DEF TokenizeChar
  <2>2. key.text = <<w[k]>> /\ w[k] \in Characters
    BY DEF KeyAt
  <2>3. CharLen[w[k]] # 0
    BY <2>2, CharAssumption
  <2> HIDE DEF b, new, key
  <2>4. new[IdOf(new, key) + 1] = key
    BY <1>2, <1>7, IdOfFacts
  <2>5. sym[2] # 0 /\ new[sym[1] + 1].text = <<w[k]>>
    BY <2>2, <2>3, <2>4
  <2>6. \A i \in 1..Len(chars) : new[a.syms[i][1] + 1] = a.toks[a.syms[i][1] + 1]
    <3>1. new \in Seq(U)
      BY <1>2 DEF Vocabs
    <3>2. \A j \in IdsOf(a.toks) : new[j + 1] = a.toks[j + 1]
      BY <1>1, <1>2, <3>1, ExtendsIds
    <3>3. ASSUME NEW i \in 1..Len(chars) PROVE a.syms[i][1] \in IdsOf(a.toks)
      <4>1. i \in 1..Len(a.syms)
        BY DEF Made
      <4>2. a.syms[i] \in IdsOf(a.toks) \X Nat
        BY <1>1, <4>1
      <4> QED
        BY <4>2
    <3> QED
      BY <3>2, <3>3
  <2> HIDE DEF sym
  <2>7. Made(new, Append(a.syms, sym), Append(chars, w[k]))
    BY <1>1, <2>5, <2>6, MadeAppend
  <2> QED
    BY <1>4, <1>5, <1>7, <2>1, <2>7 DEF b
<1> QED
  BY <1>6, <1>7

LEMMA TokenizeWordMade ==
    ASSUME NEW U, NEW toks \in Vocabs(U), NEW w \in Seq(Characters),
           \A k \in DOMAIN w : KeyAt(w, k) \in U, NEW base, SameBare(toks, base)
    PROVE  LET r == TokenizeWord(toks, w)
           IN SameBare(r.toks, base) /\ Made(r.toks, r.syms, KeptOf(base, w))
<1> DEFINE n == Len(w)
           V == Tokenized(U, toks)
           r == TokenizeWord(toks, w)
<1>1. n \in Nat /\ DOMAIN w = 1..n
  OBVIOUS
<1>2. [toks |-> toks, syms |-> <<>>] \in V
  <2>1. toks \in Seq(U)
    BY DEF Vocabs
  <2>2. Extends(toks, toks)
    BY <2>1, ExtendsOrder
  <2>3. <<>> \in Seq(IdsOf(toks) \X Nat)
    OBVIOUS
  <2> QED
    BY <2>2, <2>3, IsTokenized
<1>3. \A a \in V, k \in 1..n : TokenizeChar(a, w, k) \in V
  BY <1>1, TokenizeCharTyped
<1>4. PICK f : TokenizeWordRun(f, V, n, toks, w)
  <2> HIDE DEF n, V
  <2> QED
    BY <1>1, <1>2, <1>3, TokenizeWordTrace
<1>5. PICK g : KeptRun(g, base, w)
  BY KeptTrace
<1> HIDE DEF n
<1>6. /\ g \in [0..n -> Seq(Characters)] /\ g[0] = <<>> /\ KeptOf(base, w) = g[n]
      /\ \A k \in 1..n : g[k] = IF KeptAt(base, w, k) THEN Append(g[k - 1], w[k]) ELSE g[k - 1]
  BY <1>5 DEF KeptRun, n
<1>7. /\ f \in [0..n -> V] /\ f[0] = [toks |-> toks, syms |-> <<>>] /\ r = f[n]
      /\ \A k \in 1..n : f[k] = TokenizeChar(f[k - 1], w, k)
  BY <1>4 DEF TokenizeWordRun
<1> DEFINE T == {k \in 0..n : SameBare(f[k].toks, base) /\ Made(f[k].toks, f[k].syms, g[k])}
<1>8. 0 \in T
  <2>1. Made(toks, <<>>, <<>>)
    <3>1. Len(<<>>) = 0 /\ 1..0 = {}
      OBVIOUS
    <3> QED
      BY <3>1 DEF Made
  <2>2. f[0].toks = toks /\ f[0].syms = <<>> /\ 0 \in 0..n
    BY <1>1, <1>7
  <2> QED
    BY <1>6, <2>1, <2>2
<1> HIDE DEF V, r
<1>9. ASSUME NEW k \in 1..n, k - 1 \in T PROVE k \in T
  <2>1. k \in 0..n /\ k - 1 \in 0..n /\ k \in DOMAIN w
    BY <1>1
  <2>2. f[k - 1] \in V /\ g[k - 1] \in Seq(Characters)
    BY <1>6, <1>7, <2>1
  <2>3. SameBare(f[k - 1].toks, base) /\ Made(f[k - 1].toks, f[k - 1].syms, g[k - 1])
    BY <1>9
  <2>4. f[k - 1] \in Tokenized(U, toks)
    BY <2>2 DEF V
  <2> DEFINE a == f[k - 1]
             chars == g[k - 1]
             b == TokenizeChar(a, w, k)
  <2>5. b = f[k] /\ g[k] = IF KeptAt(base, w, k) THEN Append(chars, w[k]) ELSE chars
    BY <1>6, <1>7
  <2> HIDE DEF a, chars
  <2>6. /\ SameBare(b.toks, base)
        /\ Made(b.toks, b.syms, IF KeptAt(base, w, k) THEN Append(chars, w[k]) ELSE chars)
    BY <2>1, <2>2, <2>3, <2>4, TokenizeCharMade DEF a, chars
  <2> QED
    BY <2>1, <2>5, <2>6
<1>10. n \in T
  <2>1. \A k \in 0..n : k \in T
    <3> HIDE DEF T
    <3> QED
      BY <1>1, <1>8, <1>9, InductUpto
  <2>2. n \in 0..n
    BY <1>1
  <2> QED
    BY <2>1, <2>2
<1> QED
  BY <1>6, <1>7, <1>10 DEF r

\* A word made of symbols that spell these characters.
MadeWord(toks, w, chars) ==
    \E syms \in Seq(IdsOf(toks) \X Nat) : w = WordOf(syms) /\ Made(toks, syms, chars)

LEMMA MadeWordGrow ==
    ASSUME NEW U, NEW old \in Seq(U), NEW new \in Seq(U), Extends(new, old),
           NEW w, NEW chars, MadeWord(old, w, chars)
    PROVE  MadeWord(new, w, chars)
<1>1. PICK syms \in Seq(IdsOf(old) \X Nat) : w = WordOf(syms) /\ Made(old, syms, chars)
  BY DEF MadeWord
<1>2. IdsOf(old) \subseteq IdsOf(new) /\ \A i \in IdsOf(old) : new[i + 1] = old[i + 1]
  BY ExtendsIds
<1>3. syms \in Seq(IdsOf(new) \X Nat)
  <2>1. IdsOf(old) \X Nat \subseteq IdsOf(new) \X Nat
    BY <1>2
  <2> QED
    BY <2>1
<1>4. \A i \in 1..Len(syms) : syms[i][1] \in IdsOf(old)
  <2>1. \A i \in 1..Len(syms) : syms[i] \in IdsOf(old) \X Nat
    OBVIOUS
  <2> QED
    BY <2>1
<1>5. Made(new, syms, chars)
  BY <1>1, <1>2, <1>4 DEF Made
<1> QED
  BY <1>1, <1>3, <1>5 DEF MadeWord

\* A word that was just made.
LEMMA MadeWordFresh ==
    ASSUME NEW toks, NEW w, NEW chars, Len(chars) \in Nat, MadeWord(toks, w, chars)
    PROVE  /\ Fresh(w) /\ DOMAIN w = 0..(Len(chars) - 1)
           /\ \A i \in DOMAIN w : toks[w[i].c + 1].text = <<chars[i + 1]>>
<1> DEFINE n == Len(chars)
<1>1. PICK syms \in Seq(IdsOf(toks) \X Nat) : w = WordOf(syms) /\ Made(toks, syms, chars)
  BY DEF MadeWord
<1>2. Len(syms) = n
  BY <1>1 DEF Made
<1>3. /\ DOMAIN w = 0..(n - 1)
      /\ \A i \in 0..(n - 1) : /\ w[i].c = syms[i + 1][1] /\ w[i].len = syms[i + 1][2]
                               /\ w[i].prev = i - 1
                               /\ w[i].next = IF i + 1 < n THEN i + 1 ELSE NoSym
  BY <1>1, <1>2 DEF WordOf
<1>4. \A i \in 0..(n - 1) : i + 1 \in 1..n /\ (i + 1 < n <=> i + 1 \in 0..(n - 1))
  OBVIOUS
<1>7. \A i \in 0..(n - 1) : syms[i + 1][2] # 0
  BY <1>1, <1>4 DEF Made
<1> HIDE DEF n
<1>8. \A i \in 0..(n - 1) : w[i].next = IF i + 1 \in 0..(n - 1) THEN i + 1 ELSE NoSym
  BY <1>3, <1>4
<1>5. Fresh(w)
  BY <1>3, <1>7, <1>8 DEF Fresh
<1>6. \A i \in DOMAIN w : toks[w[i].c + 1].text = <<chars[i + 1]>>
  BY <1>1, <1>3, <1>4 DEF Made, n
<1> QED
  BY <1>3, <1>5, <1>6 DEF n

LEMMA TokenizeAllMade ==
    ASSUME NEW U, idToWord \in Vocabs(U), NEW order \in Seq(Seq(Characters)),
           \A j \in DOMAIN order : \A k \in DOMAIN order[j] : KeyAt(order[j], k) \in U
    PROVE  LET r == TokenizeAll(order)
           IN /\ SameBare(r.toks, idToWord)
              /\ \A j \in 1..Len(order) : MadeWord(r.toks, r.words[j], KeptOf(idToWord, order[j]))
<1> DEFINE V == TokenizedAll(U, idToWord)
           n == Len(order)
           r == TokenizeAll(order)
<1>1. n \in Nat /\ DOMAIN order = 1..n
  OBVIOUS
<1>2. [toks |-> idToWord, words |-> <<>>] \in V
  <2>1. idToWord \in Seq(U)
    BY DEF Vocabs
  <2>2. Extends(idToWord, idToWord)
    BY <2>1, ExtendsOrder
  <2>3. <<>> \in Seq(WordsOver(IdsOf(idToWord)))
    OBVIOUS
  <2> QED
    BY <2>2, <2>3, IsTokenizedAll
<1>3. \A a \in V, k \in 1..n : /\ AddWord(a, order[k]) \in V
                               /\ Len(AddWord(a, order[k]).words) = Len(a.words) + 1
  BY <1>1, AddWordTyped
<1> HIDE DEF V
<1>4. PICK f : TokenizeAllRun(f, V, n, order)
  <2> HIDE DEF n
  <2> QED
    BY <1>1, <1>2, <1>3, TokenizeAllTrace
<1> HIDE DEF n
<1>5. /\ f \in [0..n -> V] /\ f[0] = [toks |-> idToWord, words |-> <<>>] /\ r = f[n]
      /\ \A k \in 1..n : f[k] = AddWord(f[k - 1], order[k])
  BY <1>4 DEF TokenizeAllRun
<1> DEFINE Good(k) == /\ SameBare(f[k].toks, idToWord) /\ Len(f[k].words) = k
                      /\ \A j \in 1..k : MadeWord(f[k].toks, f[k].words[j], KeptOf(idToWord, order[j]))
           T == {k \in 0..n : Good(k)}
<1>6. 0 \in T
  <2>1. f[0].toks = idToWord /\ f[0].words = <<>> /\ 0 \in 0..n /\ 1..0 = {} /\ Len(<<>>) = 0
    BY <1>1, <1>5
  <2>2. SameBare(idToWord, idToWord)
    BY DEF SameBare
  <2> QED
    BY <2>1, <2>2
<1> HIDE DEF r
<1>7. ASSUME NEW k \in 1..n, k - 1 \in T PROVE k \in T
  <2> DEFINE a == f[k - 1]
             w == order[k]
             q == TokenizeWord(a.toks, w)
             word == WordOf(q.syms)
  <2>1. k \in 0..n /\ k - 1 \in 0..n /\ k \in DOMAIN order /\ w \in Seq(Characters)
    BY <1>1
  <2>2. a \in TokenizedAll(U, idToWord)
    BY <1>5, <2>1 DEF V
  <2>3. /\ SameBare(a.toks, idToWord) /\ Len(a.words) = k - 1
        /\ \A j \in 1..(k - 1) : MadeWord(a.toks, a.words[j], KeptOf(idToWord, order[j]))
    BY <1>7
  <2>4. f[k] = AddWord(a, w) /\ AddWord(a, w) = [toks |-> q.toks, words |-> Append(a.words, word)]
    BY <1>5 DEF AddWord
  <2>5. \A i \in DOMAIN w : KeyAt(w, i) \in U
    BY <2>1
  <2> HIDE DEF a, w
  <2>6. a.toks \in Vocabs(U) /\ a.toks \in Seq(U) /\ a.words \in Seq(WordsOver(IdsOf(a.toks)))
    BY <2>2 DEF TokenizedAll, Vocabs
  <2>7. /\ q.toks \in Seq(U) /\ Extends(q.toks, a.toks)
        /\ q.syms \in Seq(IdsOf(q.toks) \X Nat)
    <3>1. q \in Tokenized(U, a.toks)
      BY <2>1, <2>5, <2>6, TokenizeWordTyped
    <3> HIDE DEF q
    <3> QED
      BY <3>1 DEF Tokenized, Vocabs
  <2>8. SameBare(q.toks, idToWord) /\ Made(q.toks, q.syms, KeptOf(idToWord, w))
    BY <2>1, <2>3, <2>5, <2>6, TokenizeWordMade
  <2> HIDE DEF q
  <2>9. MadeWord(q.toks, word, KeptOf(idToWord, w))
    BY <2>7, <2>8 DEF MadeWord
  <2> DEFINE ws == Append(a.words, word)
  <2> HIDE DEF word
  <2>10. Len(ws) = k /\ ws[k] = word /\ \A j \in 1..(k - 1) : ws[j] = a.words[j]
    BY <2>3, <2>6
  <2>11. f[k].toks = q.toks /\ f[k].words = ws
    BY <2>4
  <2> HIDE DEF ws
  <2>12. ASSUME NEW j \in 1..k PROVE MadeWord(q.toks, ws[j], KeptOf(idToWord, order[j]))
    <3>1. CASE j = k
      BY <2>9, <2>10, <3>1 DEF w
    <3>2. CASE j # k
      <4>1. j \in 1..(k - 1)
        BY <3>2
      <4>2. MadeWord(a.toks, a.words[j], KeptOf(idToWord, order[j]))
        BY <2>3, <4>1
      <4>3. MadeWord(q.toks, a.words[j], KeptOf(idToWord, order[j]))
        BY <2>6, <2>7, <4>2, MadeWordGrow
      <4> QED
        BY <2>10, <4>1, <4>3
    <3> QED
      BY <3>1, <3>2
  <2>13. Good(k)
    BY <2>8, <2>10, <2>11, <2>12
  <2> QED
    BY <2>1, <2>13
<1>8. n \in T
  <2>1. \A k \in 0..n : k \in T
    <3> HIDE DEF T
    <3> QED
      BY <1>1, <1>6, <1>7, InductUpto
  <2>2. n \in 0..n
    BY <1>1
  <2> QED
    BY <2>1, <2>2
<1> QED
  BY <1>5, <1>8 DEF r, n

-------------------------------------------------------------------------------
(* One merge. *)

\* What MergeTop does with the top entry e and an order of its positions.
TopMerge(e, order, id, merged, moved) ==
    /\ e \in Tops /\ order \in SetToSeqs(e.positions) /\ ~Stale(e) /\ ~TooRare(e)
    /\ idToWord' = AddToken(idToWord, MergedToken(e.pair))
    /\ id = IdOf(idToWord', MergedToken(e.pair))
    /\ merges' = Append(merges, <<e.pair, id>>)
    /\ merged = [w \in e.positions |-> MergeWord(words[w], e.pair, id, opts.max_len)]
    /\ moved = Affected(merged, Slices(order))
    /\ words' = [w \in DOMAIN words |-> IF w \in e.positions THEN merged[w].word ELSE words[w]]
    /\ stats' = NewStats(merged, Slices(order), moved, words')
    /\ heap' = (heap (-) SetToBag({e})) (+) Entries(stats', moved)

TopTyped(e, ids, id, merged) ==
    /\ ids = IdsOf(idToWord') /\ e.pair \in DOMAIN stats /\ e.positions \in SUBSET DOMAIN words
    /\ e.pair \in Pairs(Ids) /\ e.pair \in Pairs(ids) /\ id \in ids
    /\ idToWord'[id + 1] = MergedToken(e.pair)
    /\ Ids \subseteq ids /\ \A i \in Ids : idToWord'[i + 1] = idToWord[i + 1]
    /\ IsWords(words, counts, ids) /\ IsWords(words', counts, ids)
    /\ StatsOver(stats, ids, DOMAIN words) /\ IsMerged(merged, e.positions, ids)
    /\ DOMAIN words' = DOMAIN words

LEMMA MergeTopFacts ==
    ASSUME IInv, MergeTop
    PROVE  \E e, order, id, merged, moved :
              TopMerge(e, order, id, merged, moved) /\ TopTyped(e, IdsOf(idToWord'), id, merged)
<1> DEFINE New(e) == MergedToken(e.pair)
           Toks(e) == AddToken(idToWord, New(e))
           Id(e) == IdOf(Toks(e), New(e))
           Merged(e) == [w \in e.positions |-> MergeWord(words[w], e.pair, Id(e), opts.max_len)]
           After(e) == [w \in DOMAIN words |->
                          IF w \in e.positions THEN Merged(e)[w].word ELSE words[w]]
           Moved(e, order) == Affected(Merged(e), Slices(order))
           Stats(e, order) == NewStats(Merged(e), Slices(order), Moved(e, order), After(e))
           Result(e, order) ==
             /\ ~Stale(e) /\ ~TooRare(e)
             /\ idToWord' = Toks(e)
             /\ merges' = Append(merges, <<e.pair, Id(e)>>)
             /\ words' = After(e)
             /\ stats' = Stats(e, order)
             /\ heap' = (heap (-) SetToBag({e})) (+) Entries(Stats(e, order), Moved(e, order))
<1>0. PICK e \in Tops : \E order \in SetToSeqs(e.positions) : Result(e, order)
  BY DEF MergeTop
<1>1. PICK order \in SetToSeqs(e.positions) : Result(e, order)
  <2> HIDE DEF Result
  <2> QED
    BY <1>0
<1>2. UNCHANGED counts
  BY DEF MergeTop
<1>3. /\ IsVocab(idToWord) /\ IsWords(words, counts, Ids) /\ StatsOver(stats, Ids, DOMAIN words)
      /\ HeapOver(heap, stats, DOMAIN words)
  BY DEF IInv, PairsInv
<1>4. e.pair \in DOMAIN stats /\ e.positions \subseteq DOMAIN words
  BY <1>3 DEF Tops, HeapOver
<1> DEFINE new == New(e)
           toks == Toks(e)
           id == Id(e)
           merged == Merged(e)
           moved == Moved(e, order)
<1>5. /\ Ids \subseteq IdsOf(toks)
      /\ \A i \in Ids : toks[i + 1] = idToWord[i + 1]
      /\ id \in IdsOf(toks) /\ toks[id + 1] = new
  BY <1>3, MergedVocab DEF Ids, IdsOf
<1>6. idToWord' = toks /\ MergedToken(e.pair) = new /\ toks = AddToken(idToWord, new)
      /\ id = IdOf(toks, new)
  BY <1>1
<1>7. merged = [w \in e.positions |-> MergeWord(words[w], e.pair, id, opts.max_len)]
  OBVIOUS
<1>8. words' = [w \in DOMAIN words |-> IF w \in e.positions THEN merged[w].word ELSE words[w]]
  BY <1>1
<1>9. /\ moved = Affected(merged, Slices(order))
      /\ stats' = NewStats(merged, Slices(order), moved, words')
      /\ heap' = (heap (-) SetToBag({e})) (+) Entries(stats', moved)
      /\ ~Stale(e) /\ ~TooRare(e)
  BY <1>1
<1>10. merges' = Append(merges, <<e.pair, id>>)
  BY <1>1
<1> DEFINE ids == IdsOf(toks)
<1> HIDE DEF Result, New, Toks, Id, Merged, After, Moved, Stats, toks, id, merged, moved, new, ids
<1>11. /\ IsWords(words, counts, ids) /\ StatsOver(stats, ids, DOMAIN words)
       /\ Pairs(Ids) \subseteq Pairs(ids) /\ e.pair \in Pairs(Ids) /\ e.pair \in Pairs(ids)
  <2>1. Ids \subseteq ids
    BY <1>5 DEF ids
  <2>2. e.pair \in Pairs(Ids)
    BY <1>3, <1>4 DEF StatsOver
  <2> QED
    BY <1>3, <2>1, <2>2, GrowTyped
<1>12. id \in ids
  BY <1>5 DEF ids
<1>13. IsMerged(merged, e.positions, ids)
  <2>1. ASSUME NEW w \in e.positions
        PROVE  merged[w].word \in WordsOver(ids) /\ merged[w].changes \in Changes(ids)
    <3>1. words[w] \in WordsOver(ids)
      BY <1>4, <1>11, WordsFacts
    <3>2. merged[w] = MergeWord(words[w], e.pair, id, opts.max_len)
      BY <1>7
    <3> QED
      BY <1>11, <1>12, <3>1, <3>2, MergeWordTyped
  <2>2. DOMAIN merged = e.positions
    BY <1>7
  <2> QED
    BY <2>1, <2>2 DEF IsMerged
<1>14. IsWords(words', counts, ids) /\ DOMAIN words' = DOMAIN words
  <2>1. \A k \in DOMAIN words : words'[k] \in WordsOver(ids)
    BY <1>8, <1>11, <1>13, WordsFacts DEF IsMerged
  <2>2. DOMAIN words = 1..Len(words) /\ Len(words) \in Nat /\ DOMAIN words' = DOMAIN words
    BY <1>8, <1>11, WordsFacts
  <2>3. words' = [k \in 1..Len(words) |-> words'[k]]
    BY <1>8, <2>2
  <2>4. words' \in Seq(WordsOver(ids)) /\ Len(words') = Len(words)
    BY <2>1, <2>2, <2>3
  <2>5. counts \in Seq(Nat) /\ Len(counts) = Len(words)
    BY <1>11 DEF IsWords
  <2> QED
    BY <2>2, <2>4, <2>5 DEF IsWords
<1>15. TopMerge(e, order, id, merged, moved)
  BY <1>0, <1>1, <1>6, <1>7, <1>8, <1>9, <1>10 DEF TopMerge
<1>16. TopTyped(e, IdsOf(idToWord'), id, merged)
  BY <1>4, <1>5, <1>6, <1>11, <1>12, <1>13, <1>14 DEF TopTyped, ids
<1> QED
  BY <1>15, <1>16

-------------------------------------------------------------------------------
(* The counts. *)

\* The words right after they were tokenized, and while they are merged.
ListInv ==
    /\ pc \in {"idle", "tokenize"} => texts = <<>>
    /\ pc = "count" => /\ texts \in Seq(Seq(Characters)) /\ Len(texts) = Len(words)
                       /\ \A k \in DOMAIN words :
                             MadeWord(idToWord, words[k], KeptOf(idToWord, texts[k]))
    /\ InLoop => AllLinked(words)

\* Whatever the pair, its count is not too low, and right until it is merged.
CountInv ==
    InLoop /\ CountsFit =>
       \A q : /\ StatsOf(stats, q).count >= TrueCount(q)
              /\ q \notin MergedPairs => StatsOf(stats, q).count = TrueCount(q)

LEMMA CountNames ==
    /\ \A q : TrueCount(q) = TrueCountOf(words, counts, q)
    /\ SymbolsFed = SymbolsOf(words, counts)
BY DEF TrueCount, TrueCountOf, SymbolsFed, SymbolsOf

LEMMA MergeTopCounts ==
    ASSUME IInv, ListInv, CountInv, MergeTop
    PROVE  ListInv' /\ CountInv'
<1>1. PICK e, order, id, merged, moved :
        TopMerge(e, order, id, merged, moved) /\ TopTyped(e, IdsOf(idToWord'), id, merged)
  BY MergeTopFacts
<1> DEFINE ids == IdsOf(idToWord')
           new == words'
           d(q) == SumFunction(Deltas(merged, e.positions, q))
<1>2. pc = "loop" /\ pc' = "loop" /\ counts' = counts /\ InLoop /\ InLoop'
  BY DEF MergeTop, InLoop
<1>3. /\ order \in SetToSeqs(e.positions)
      /\ merged = [w \in e.positions |-> MergeWord(words[w], e.pair, id, opts.max_len)]
      /\ new = [w \in DOMAIN words |-> IF w \in e.positions THEN merged[w].word ELSE words[w]]
      /\ moved = Affected(merged, Slices(order))
      /\ stats' = NewStats(merged, Slices(order), moved, new)
      /\ merges' = Append(merges, <<e.pair, id>>)
  BY <1>1 DEF TopMerge
<1>4. /\ e.positions \in SUBSET DOMAIN words /\ e.pair \in Pairs(ids) /\ id \in ids
      /\ IsWords(words, counts, ids) /\ IsWords(new, counts, ids)
      /\ StatsOver(stats, ids, DOMAIN words) /\ IsMerged(merged, e.positions, ids)
  BY <1>1 DEF TopTyped
<1>5. AllLinked(words)
  BY <1>2 DEF ListInv
<1> HIDE DEF ids, new
<1>6. MergedPairs' = MergedPairs \cup {e.pair}
  <2>1. Len(merges) \in Nat /\ DOMAIN merges = 1..Len(merges)
    BY DEF IInv, MergesOver
  <2>2. merges \in Seq(Pairs(IdsOf(idToWord)) \X IdsOf(idToWord))
    BY DEF IInv, MergesOver
  <2> DEFINE last == <<e.pair, id>>
             n == Len(merges)
             ms == Append(merges, last)
  <2>3. last[1] = e.pair
    OBVIOUS
  <2> HIDE DEF last
  <2>4. DOMAIN ms = 1..(n + 1) /\ ms[n + 1] = last /\ \A k \in 1..n : ms[k] = merges[k]
    BY <2>1, <2>2
  <2>5. merges' = ms
    BY <1>3 DEF last
  <2> HIDE DEF ms, n
  <2>6. 1..(n + 1) = (1..n) \cup {n + 1}
    BY <2>1 DEF n
  <2>7. {ms[k][1] : k \in DOMAIN ms} = {merges[k][1] : k \in DOMAIN merges} \cup {e.pair}
    BY <2>1, <2>3, <2>4, <2>6 DEF n
  <2> QED
    BY <2>5, <2>7 DEF MergedPairs
<1>14. MergedInto(new, merged, e.positions, e.pair, id, opts.max_len)
  BY <1>3 DEF MergedInto
<1>7. AllLinked(new) /\ SymbolsOf(new, counts) = SymbolsOf(words, counts)
  BY <1>4, <1>5, <1>14, MergedLists
<1>8. ListInv'
  <2>1. AllLinked(words')
    BY <1>7 DEF new
  <2> QED
    BY <1>2, <2>1 DEF ListInv
<1>9. SymbolsFed' = SymbolsFed /\ \A q : TrueCount(q)' = TrueCountOf(new, counts, q)
  BY <1>2, <1>7 DEF new, TrueCount, TrueCountOf, SymbolsFed, SymbolsOf
<1>10. ASSUME CountsFit
       PROVE  \A q : /\ StatsOf(stats', q).count >= TrueCountOf(new, counts, q)
                     /\ q \notin MergedPairs'
                          => StatsOf(stats', q).count = TrueCountOf(new, counts, q)
  <2>1. ASSUME NEW q
        PROVE  /\ StatsOf(stats', q).count >= TrueCountOf(new, counts, q)
               /\ q \notin MergedPairs' => StatsOf(stats', q).count = TrueCountOf(new, counts, q)
    <3> DEFINE old == StatsOf(stats, q).count
               now == StatsOf(stats', q).count
               had == TrueCountOf(words, counts, q)
               has == TrueCountOf(new, counts, q)
               dq == d(q)
    <3>1. old >= had /\ (q \notin MergedPairs => old = had)
      <4>1. old >= TrueCount(q) /\ (q \notin MergedPairs => old = TrueCount(q))
        BY <1>2, <1>10 DEF CountInv
      <4> QED
        BY <4>1, CountNames
    <3>2. now = old + dq
      <4>1. StatsOf(NewStats(merged, Slices(order), Affected(merged, Slices(order)), new), q).count
              = StatsOf(stats, q).count + d(q)
        BY <1>3, <1>4, NewCount
      <4> QED
        BY <1>3, <4>1
    <3>3. has <= had + dq /\ (q # e.pair => has = had + dq)
      BY <1>4, <1>5, <1>10, <1>14, NewTrueCount
    <3>4. had \in Int /\ has \in Int
      BY <1>4, TrueCountTyped
    <3>5. old \in Int
      BY <1>4 DEF StatsOf, StatsOver
    <3>6. dq \in Int
      <4>1. Deltas(merged, e.positions, q) \in [e.positions -> Int]
        BY <1>4, DeltasTyped
      <4>2. IsFiniteSet(e.positions)
        BY <1>4, WordsFacts, FS_Subset
      <4> QED
        BY <4>1, <4>2, SumInt
    <3>7. q \notin MergedPairs' => q \notin MergedPairs /\ q # e.pair
      BY <1>6
    <3> HIDE DEF old, now, had, has, dq, d
    <3>8. now >= has /\ (q \notin MergedPairs' => now = has)
      BY <3>1, <3>2, <3>3, <3>4, <3>5, <3>6, <3>7
    <3> QED
      BY <3>8 DEF now, has
  <2> QED
    BY <2>1
<1>11. CountInv'
  <2>1. CountsFit' => CountsFit
    BY <1>9 DEF CountsFit
  <2> QED
    BY <1>9, <1>10, <2>1 DEF CountInv
<1> QED
  BY <1>8, <1>11

\* The words are all tokenized: each symbol is one kept character.
LEMMA TokenizedLists ==
    ASSUME IInv, ListInv, TokenizeWords
    PROVE  ListInv'
<1>1. pc = "tokenize" /\ pc' = "count" /\ UNCHANGED <<corpus, opts>>
  BY DEF TokenizeWords
<1>2. PICK order \in SetToSeqs(DOMAIN corpus) :
        /\ idToWord' = TokenizeAll(order).toks
        /\ words' = TokenizeAll(order).words
        /\ texts' = order
  BY DEF TokenizeWords
<1>3. IsCorpus(corpus) /\ IsVocab(idToWord)
  BY DEF IInv
<1>4. /\ order \in Seq(DOMAIN corpus) /\ Len(order) \in Nat /\ DOMAIN order = 1..Len(order)
      /\ order \in Seq(Seq(Characters))
  BY <1>3, OrderFacts DEF IsCorpus
<1> DEFINE keys == {KeyAt(order[x[1]], x[2]) : x \in Nat \X Nat}
           U == ToSet(idToWord) \cup keys
           r == TokenizeAll(order)
<1>5. idToWord \in Vocabs(U)
  <2>1. ToSet(idToWord) \subseteq U
    OBVIOUS
  <2> HIDE DEF U
  <2> QED
    BY <1>3, <2>1 DEF IsVocab, Vocabs
<1>6. \A j \in DOMAIN order : \A k \in DOMAIN order[j] : KeyAt(order[j], k) \in U
  <2>1. ASSUME NEW j \in DOMAIN order, NEW k \in DOMAIN order[j]
        PROVE  KeyAt(order[j], k) \in keys
    <3>1. j \in Nat /\ order[j] \in Seq(Characters)
      BY <1>4
    <3>2. k \in Nat
      BY <3>1
    <3>3. <<j, k>> \in Nat \X Nat /\ <<j, k>>[1] = j /\ <<j, k>>[2] = k
      BY <3>1, <3>2
    <3> QED
      BY <3>3
  <2> HIDE DEF keys
  <2> QED
    BY <2>1
<1> HIDE DEF U
<1>7. r \in TokenizedAll(U, idToWord) /\ Len(r.words) = Len(order)
  BY <1>4, <1>5, <1>6, TokenizeAllTyped
<1>8. /\ SameBare(r.toks, idToWord)
      /\ \A j \in 1..Len(order) : MadeWord(r.toks, r.words[j], KeptOf(idToWord, order[j]))
  BY <1>4, <1>5, <1>6, TokenizeAllMade
<1> HIDE DEF r
<1>9. \A j \in 1..Len(order) : MadeWord(r.toks, r.words[j], KeptOf(r.toks, order[j]))
  BY <1>8, SameKept
<1>10. r.words \in Seq(WordsOver(IdsOf(r.toks)))
  BY <1>7 DEF TokenizedAll
<1>11. DOMAIN r.words = 1..Len(order)
  BY <1>7, <1>10
<1>12. idToWord' = r.toks /\ words' = r.words /\ texts' = order
  BY <1>2 DEF r
<1>13. \A text : KeptOf(idToWord, text)' = KeptOf(r.toks, text)
  BY <1>1, <1>12 DEF KeptOf, KeptAt, KeyAt
<1>14. /\ texts' \in Seq(Seq(Characters)) /\ Len(texts') = Len(words')
       /\ \A k \in DOMAIN words' : MadeWord(idToWord', words'[k], KeptOf(r.toks, texts'[k]))
  BY <1>4, <1>7, <1>9, <1>11, <1>12
<1> QED
  BY <1>1, <1>13, <1>14 DEF ListInv, InLoop

\* Before the first merge a word's pairs are what count_pairs sees.
LEMMA MadeCounts ==
    ASSUME NEW ids, NEW w \in WordsOver(ids), NEW toks, NEW text \in Seq(Characters), NEW base,
           MadeWord(toks, w, KeptOf(base, text)), NEW p
    PROVE  /\ Linked(w) /\ Fresh(w)
           /\ VectorOccurrences(w, p) = Occurrences(w, p) /\ PairsOf(w) = VectorPairs(w)
<1>1. PICK g : KeptRun(g, base, text)
  BY KeptTrace
<1>2. Len(KeptOf(base, text)) \in Nat
  <2>1. Len(text) \in Nat /\ Len(text) \in 0..Len(text)
    OBVIOUS
  <2>2. KeptOf(base, text) \in Seq(Characters)
    BY <1>1, <2>1 DEF KeptRun
  <2> QED
    BY <2>2
<1>3. Fresh(w)
  BY <1>2, MadeWordFresh
<1>4. PICK n \in Nat : w \in WordsOfLength(ids, n)
  BY DEF WordsOver
<1> QED
  BY <1>3, <1>4, FreshLinked, FreshOccurrences

LEMMA CountPairsCounts ==
    ASSUME IInv, ListInv, CountPairs
    PROVE  ListInv' /\ CountInv'
<1>1. /\ pc = "count" /\ pc' = "loop" /\ stats' = PairStats /\ merges' = <<>>
      /\ UNCHANGED <<idToWord, words, counts, texts, opts>>
  BY DEF CountPairs
<1>2. IsWords(words, counts, Ids)
  BY DEF IInv, PairsInv
<1>3. ASSUME NEW k \in DOMAIN words, NEW p
      PROVE  /\ Linked(words[k]) /\ VectorOccurrences(words[k], p) = Occurrences(words[k], p)
             /\ PairsOf(words[k]) = VectorPairs(words[k])
  <2>1. words[k] \in WordsOver(Ids) /\ DOMAIN words = 1..Len(words)
    BY <1>2, WordsFacts
  <2>2. MadeWord(idToWord, words[k], KeptOf(idToWord, texts[k]))
    BY <1>1 DEF ListInv
  <2>3. texts[k] \in Seq(Characters)
    BY <1>1, <2>1 DEF ListInv
  <2> QED
    BY <2>1, <2>2, <2>3, MadeCounts
<1>4. ListInv'
  BY <1>1, <1>3 DEF ListInv, AllLinked, InLoop
<1>5. ASSUME NEW q PROVE StatsOf(PairStats, q).count = TrueCountOf(words, counts, q)
  <2> DEFINE f == [k \in DOMAIN words |-> counts[k] * VectorOccurrences(words[k], q)]
             g == [k \in DOMAIN words |-> counts[k] * Occurrences(words[k], q)]
             found == UNION {VectorPairs(words[k]) : k \in DOMAIN words}
  <2>1. f = g
    BY <1>3
  <2>2. TrueCountOf(words, counts, q) = SumFunction(g)
    BY DEF TrueCountOf
  <2>3. DOMAIN PairStats = found
    BY DEF PairStats
  <2>4. CASE q \in found
    <3>1. PairStats[q].count = SumFunction(f)
      BY <2>4 DEF PairStats
    <3> HIDE DEF f, g, found
    <3> QED
      BY <2>1, <2>2, <2>3, <2>4, <3>1 DEF StatsOf
  <2>5. CASE q \notin found
    <3>1. ASSUME NEW k \in DOMAIN words PROVE g[k] = 0
      <4>1. q \notin PairsOf(words[k])
        BY <1>3, <2>5
      <4>2. {i \in Live(words[k]) : HasRight(words[k], i) /\ PairFrom(words[k], i) = q} = {}
        BY <4>1 DEF PairsOf
      <4>3. Occurrences(words[k], q) = 0
        BY <4>2, FS_EmptySet DEF Occurrences
      <4>4. counts[k] \in Nat
        BY <1>2, WordsFacts
      <4>5. counts[k] * 0 = 0
        BY <4>4
      <4> QED
        BY <4>3, <4>5
    <3>2. g \in [DOMAIN words -> Int] /\ \A k \in DOMAIN words : g[k] = 0
      BY <3>1
    <3>3. IsFiniteSet(DOMAIN words)
      BY <1>2, WordsFacts
    <3> HIDE DEF g
    <3>4. SumFunction(g) = 0
      BY <3>2, <3>3, SumZero
    <3>5. StatsOf(PairStats, q).count = 0
      <4> HIDE DEF found
      <4> QED
        BY <2>3, <2>5 DEF StatsOf
    <3> QED
      BY <2>2, <3>4, <3>5
  <2> QED
    BY <2>4, <2>5
<1>6. ASSUME NEW q PROVE TrueCountOf(words, counts, q) \in Nat
  BY <1>2, TrueCountTyped
<1>7. \A q : TrueCount(q)' = TrueCountOf(words, counts, q)
  BY <1>1 DEF TrueCount, TrueCountOf
<1>8. CountInv'
  <2>1. ASSUME NEW q
        PROVE  StatsOf(stats', q).count = TrueCount(q)' /\ TrueCount(q)' \in Nat
    BY <1>1, <1>5, <1>6, <1>7
  <2>2. \A n \in Nat : n >= n
    OBVIOUS
  <2> QED
    BY <2>1, <2>2 DEF CountInv
<1> QED
  BY <1>4, <1>8

-------------------------------------------------------------------------------
(* The heap. *)

\* Popping entries keeps the others.
LEMMA BagKeeps ==
    ASSUME NEW b, NEW c, IsABag(b), NEW e \in DOMAIN b, e \notin DOMAIN c
    PROVE  e \in DOMAIN (b (-) c)
<1> DEFINE B == [x \in DOMAIN b |-> IF x \in DOMAIN c THEN b[x] - c[x] ELSE b[x]]
           D == {d \in DOMAIN B : B[d] > 0}
<1>1. b (-) c = [x \in D |-> B[x]]
  BY DEF (-)
<1>2. b[e] > 0 /\ B[e] = b[e]
  BY DEF IsABag
<1>3. e \in D
  BY <1>2
<1> HIDE DEF B, D
<1> QED
  BY <1>1, <1>3

\* Entry e is popped and those of S are pushed.
Exchanged(new, h, e, S) == new = (h (-) SetToBag({e})) (+) SetToBag(S)

\* What is on the heap once an entry was popped and others were pushed.
LEMMA HeapAfter ==
    ASSUME NEW h, IsABag(h), NEW e, NEW S, NEW new, Exchanged(new, h, e, S)
    PROVE  /\ IsABag(new) /\ DOMAIN new \subseteq DOMAIN h \cup S
           /\ \A f \in DOMAIN h : f # e => f \in DOMAIN new
           /\ S \subseteq DOMAIN new
<1> DEFINE rest == h (-) SetToBag({e})
<1>1. IsABag(SetToBag({e})) /\ DOMAIN SetToBag({e}) = {e} /\ IsABag(SetToBag(S)) /\ DOMAIN SetToBag(S) = S
  BY SetBag
<1>2. IsABag(rest) /\ DOMAIN rest \subseteq DOMAIN h
  BY <1>1, BagRest
<1>3. ASSUME NEW f \in DOMAIN h, f # e PROVE f \in DOMAIN rest
  BY <1>1, <1>3, BagKeeps
<1> HIDE DEF rest
<1>4. IsABag(new) /\ DOMAIN new = DOMAIN rest \cup S
  <2>1. new = rest (+) SetToBag(S)
    BY DEF rest, Exchanged
  <2> QED
    BY <1>1, <1>2, <2>1, BagSum
<1> QED
  BY <1>2, <1>3, <1>4

LEMMA EntryCount ==
    ASSUME NEW p, NEW s
    PROVE  Entry(p, s).count = ToUint64(s.count) /\ Entry(p, s).pair = p
BY DEF Entry

LEMMA Uint64Typed ==
    ASSUME NEW n \in Int
    PROVE  /\ ToUint64(n) \in Nat
           /\ n >= 0 => ToUint64(n) <= n
           /\ n \in Nat /\ n < HalfInt32 => ToUint64(n) = n
<1> DEFINE m == 4 * HalfInt32 * HalfInt32
<1>1. HalfInt32 \in Nat \ {0}
  BY HardwareAssumption
<1>2. m \in Nat /\ HalfInt32 <= m
  <2>1. HalfInt32 * HalfInt32 \in Nat /\ HalfInt32 * 1 <= HalfInt32 * HalfInt32
    BY <1>1, TimesMonotone
  <2>2. m = 4 * (HalfInt32 * HalfInt32)
    BY <1>1
  <2> DEFINE sq == HalfInt32 * HalfInt32
  <2> HIDE DEF sq, m
  <2>3. sq \in Nat /\ HalfInt32 <= sq /\ m = 4 * sq
    BY <1>1, <2>1, <2>2 DEF sq
  <2> QED
    BY <1>1, <2>3
<1>3. m \in Nat \ {0}
  BY <1>1, <1>2
<1>4. ToUint64(n) = n % m
  BY DEF ToUint64
<1> HIDE DEF m
<1>5. n % m \in 0..(m - 1)
  BY <1>3
<1>6. n \in Nat /\ n < HalfInt32 => n % m = n
  <2>1. ASSUME n \in Nat, n < HalfInt32 PROVE n % m = n
    <3>1. n \in 0..(m - 1)
      BY <1>1, <1>2, <2>1
    <3> QED
      BY <1>3, <3>1
  <2> QED
    BY <2>1
<1>7. n >= 0 => n % m <= n
  <2>1. ASSUME n >= 0 PROVE n % m <= n
    <3>1. n = m * (n \div m) + (n % m) /\ n \div m \in Int /\ n \div m >= 0
      BY <1>3, <2>1
    <3> DEFINE q == n \div m
               r == n % m
    <3>2. q \in Nat /\ r \in Nat /\ n = m * q + r
      BY <1>3, <1>5, <3>1
    <3> HIDE DEF q, r
    <3>3. m * q \in Nat
      BY <1>3, <3>2, TimesNat
    <3>4. r <= n
      BY <3>2, <3>3
    <3> QED
      BY <3>4 DEF r
  <2> QED
    BY <2>1
<1> QED
  BY <1>4, <1>5, <1>6, <1>7

\* The pairs that must be found on the heap.
Waiting == {p \in DOMAIN stats : p \notin MergedPairs /\ stats[p].count > 0}

\* Each of them is there with its count.
HeapInv ==
    /\ \A e \in DOMAIN heap : e.count \in Nat
    /\ pc = "loop" => \A p \in Waiting :
                         \E e \in DOMAIN heap : e.pair = p /\ e.count = ToUint64(stats[p].count)

LEMMA EntriesHold ==
    ASSUME NEW st, NEW ids, NEW places, StatsOver(st, ids, places), NEW ps \in SUBSET DOMAIN st
    PROVE  \E S : /\ Entries(st, ps) = SetToBag(S)
                  /\ \A e \in S : e.count \in Nat
                  /\ \A p \in ps : st[p].count > 0 =>
                        \E e \in S : e.pair = p /\ e.count = ToUint64(st[p].count)
<1> DEFINE S == {Entry(p, st[p]) : p \in {q \in ps : st[q].count > 0}}
<1>1. Entries(st, ps) = SetToBag(S)
  BY DEF Entries
<1>2. ASSUME NEW e \in S PROVE e.count \in Nat
  <2>1. PICK p \in ps : e = Entry(p, st[p])
    OBVIOUS
  <2>2. st[p].count \in Int
    BY DEF StatsOver
  <2> QED
    BY <2>1, <2>2, EntryCount, Uint64Typed
<1>3. ASSUME NEW p \in ps, st[p].count > 0
      PROVE  \E e \in S : e.pair = p /\ e.count = ToUint64(st[p].count)
  <2>1. Entry(p, st[p]) \in S
    BY <1>3
  <2> HIDE DEF S
  <2> QED
    BY <2>1, EntryCount
<1> HIDE DEF S
<1> QED
  BY <1>1, <1>2, <1>3

LEMMA CountPairsHeap ==
    ASSUME IInv, HeapInv, CountPairs
    PROVE  HeapInv'
<1>1. /\ stats' = PairStats /\ heap' = Entries(PairStats, DOMAIN PairStats)
  BY DEF CountPairs
<1>2. StatsOver(PairStats, Ids, DOMAIN words)
  BY PairStatsTyped DEF IInv, PairsInv
<1>3. PICK S : /\ Entries(PairStats, DOMAIN PairStats) = SetToBag(S)
               /\ \A e \in S : e.count \in Nat
               /\ \A p \in DOMAIN PairStats : PairStats[p].count > 0 =>
                        \E e \in S : e.pair = p /\ e.count = ToUint64(PairStats[p].count)
  BY <1>2, EntriesHold
<1>4. DOMAIN heap' = S
  BY <1>1, <1>3, SetBag
<1>5. \A p \in Waiting' : p \in DOMAIN PairStats /\ PairStats[p].count > 0
  BY <1>1 DEF Waiting
<1> QED
  BY <1>1, <1>3, <1>4, <1>5 DEF HeapInv

LEMMA RefreshStaleHeap ==
    ASSUME IInv, HeapInv, RefreshStale
    PROVE  HeapInv'
<1>1. pc = "loop" /\ UNCHANGED <<stats, merges>>
  BY DEF RefreshStale
<1>2. PICK e \in Tops :
        Stale(e) /\ heap' = (heap (-) SetToBag({e})) (+) SetToBag({Entry(e.pair, stats[e.pair])})
  BY DEF RefreshStale
<1>3. HeapOver(heap, stats, DOMAIN words) /\ StatsOver(stats, Ids, DOMAIN words)
  BY DEF IInv, PairsInv
<1>4. e.pair \in DOMAIN stats /\ IsABag(heap)
  BY <1>3 DEF Tops, HeapOver
<1> DEFINE g == Entry(e.pair, stats[e.pair])
<1>5. g.count \in Nat
  BY <1>3, <1>4, EntryCount, Uint64Typed DEF StatsOver
<1> HIDE DEF g
<1>6. /\ DOMAIN heap' \subseteq DOMAIN heap \cup {g}
      /\ \A f \in DOMAIN heap : f # e => f \in DOMAIN heap'
  <2>1. Exchanged(heap', heap, e, {g})
    BY <1>2 DEF g, Exchanged
  <2> QED
    BY <1>4, <2>1, HeapAfter
<1>7. Waiting' = Waiting
  BY <1>1 DEF Waiting, MergedPairs
<1>8. ASSUME NEW p \in Waiting
      PROVE  \E f \in DOMAIN heap' : f.pair = p /\ f.count = ToUint64(stats[p].count)
  <2>1. PICK f \in DOMAIN heap : f.pair = p /\ f.count = ToUint64(stats[p].count)
    BY <1>1 DEF HeapInv
  <2>2. f # e
    BY <1>2, <2>1 DEF Stale
  <2> QED
    BY <1>6, <2>1, <2>2
<1>9. \A f \in DOMAIN heap' : f.count \in Nat
  BY <1>5, <1>6 DEF HeapInv
<1> QED
  BY <1>1, <1>7, <1>8, <1>9 DEF HeapInv

LEMMA MergesGrow ==
    ASSUME IInv, NEW p, NEW id, merges' = Append(merges, <<p, id>>)
    PROVE  /\ MergedPairs' = MergedPairs \cup {p}
           /\ Len(merges) \in Nat /\ Len(merges') = Len(merges) + 1
           /\ merges'[Len(merges')][1] = p
<1>1. Len(merges) \in Nat /\ DOMAIN merges = 1..Len(merges)
  BY DEF IInv, MergesOver
<1>2. merges \in Seq(Pairs(IdsOf(idToWord)) \X IdsOf(idToWord))
  BY DEF IInv, MergesOver
<1> DEFINE last == <<p, id>>
           n == Len(merges)
           ms == Append(merges, last)
<1>3. last[1] = p
  OBVIOUS
<1> HIDE DEF last
<1>4. /\ DOMAIN ms = 1..(n + 1) /\ Len(ms) = n + 1 /\ ms[n + 1] = last
      /\ \A k \in 1..n : ms[k] = merges[k]
  BY <1>1, <1>2
<1>5. merges' = ms
  BY DEF last
<1> HIDE DEF ms, n
<1>6. 1..(n + 1) = (1..n) \cup {n + 1}
  BY <1>1 DEF n
<1>7. {ms[k][1] : k \in DOMAIN ms} = {merges[k][1] : k \in DOMAIN merges} \cup {p}
  BY <1>1, <1>3, <1>4, <1>6 DEF n
<1> QED
  BY <1>1, <1>3, <1>4, <1>5, <1>7 DEF MergedPairs, n

LEMMA MergeTopHeap ==
    ASSUME IInv, HeapInv, MergeTop
    PROVE  HeapInv'
<1>1. PICK e, order, id, merged, moved :
        TopMerge(e, order, id, merged, moved) /\ TopTyped(e, IdsOf(idToWord'), id, merged)
  BY MergeTopFacts
<1>2. pc = "loop" /\ pc' = "loop"
  BY DEF MergeTop
<1>3. IInv'
  BY MergeTopInv
<1>4. StatsOver(stats', Ids', DOMAIN words') /\ IsABag(heap)
  BY <1>3 DEF IInv, PairsInv, HeapOver
<1>5. /\ stats' = NewStats(merged, Slices(order), moved, words')
      /\ heap' = (heap (-) SetToBag({e})) (+) Entries(stats', moved)
      /\ merges' = Append(merges, <<e.pair, id>>)
  BY <1>1 DEF TopMerge
<1>6. DOMAIN stats' = DOMAIN stats \cup moved /\ \A p \in DOMAIN stats : p \notin moved => stats'[p] = stats[p]
  BY <1>5 DEF NewStats
<1>7. PICK S : /\ Entries(stats', moved) = SetToBag(S)
               /\ \A f \in S : f.count \in Nat
               /\ \A p \in moved : stats'[p].count > 0 =>
                     \E f \in S : f.pair = p /\ f.count = ToUint64(stats'[p].count)
  <2>1. moved \in SUBSET DOMAIN stats'
    BY <1>6
  <2> QED
    BY <1>4, <2>1, EntriesHold
<1>8. /\ DOMAIN heap' \subseteq DOMAIN heap \cup S
      /\ \A f \in DOMAIN heap : f # e => f \in DOMAIN heap'
      /\ S \subseteq DOMAIN heap'
  <2>1. Exchanged(heap', heap, e, S)
    BY <1>5, <1>7 DEF Exchanged
  <2> QED
    BY <1>4, <2>1, HeapAfter
<1>9. MergedPairs' = MergedPairs \cup {e.pair}
  BY <1>5, MergesGrow
<1>10. ASSUME NEW p \in Waiting'
       PROVE  \E f \in DOMAIN heap' : f.pair = p /\ f.count = ToUint64(stats'[p].count)
  <2>1. p \in DOMAIN stats' /\ p \notin MergedPairs /\ p # e.pair /\ stats'[p].count > 0
    BY <1>9 DEF Waiting
  <2>2. CASE p \in moved
    BY <1>7, <1>8, <2>1, <2>2
  <2>3. CASE p \notin moved
    <3>1. stats'[p] = stats[p] /\ p \in Waiting
      BY <1>6, <2>1, <2>3 DEF Waiting
    <3>2. PICK f \in DOMAIN heap : f.pair = p /\ f.count = ToUint64(stats[p].count)
      BY <1>2, <3>1 DEF HeapInv
    <3>3. f # e
      BY <2>1, <3>2
    <3> QED
      BY <1>8, <3>1, <3>2, <3>3
  <2> QED
    BY <2>2, <2>3
<1>11. \A f \in DOMAIN heap' : f.count \in Nat
  BY <1>7, <1>8 DEF HeapInv
<1> QED
  BY <1>10, <1>11 DEF HeapInv

\* What was not merged when the loop ended.
StopInv ==
    pc = "write" /\ CountsFit /\ Len(idToWord) < opts.vocab_size =>
       \A p : p \notin MergedPairs => TrueCount(p) < Max({1, opts.min_frequency})

CInv == IInv /\ ListInv /\ CountInv /\ HeapInv /\ StopInv

\* A pair that still occurs and was not merged is on the heap, with its true count.
LEMMA OnTheHeap ==
    ASSUME CInv, pc = "loop", CountsFit, NEW p, p \notin MergedPairs, TrueCount(p) > 0
    PROVE  \E f \in DOMAIN heap : f.pair = p /\ f.count = TrueCount(p)
<1>1. StatsOf(stats, p).count = TrueCount(p)
  BY DEF CInv, CountInv, InLoop
<1>2. TrueCount(p) \in Nat /\ TrueCount(p) < HalfInt32
  <2>1. IsWords(words, counts, Ids)
    BY DEF CInv, IInv, PairsInv
  <2>2. TrueCountOf(words, counts, p) \in Nat /\ TrueCountOf(words, counts, p) <= SymbolsOf(words, counts)
    BY <2>1, TrueCountTyped
  <2>3. TrueCount(p) \in Nat /\ TrueCount(p) <= SymbolsFed
    BY <2>2, CountNames
  <2>4. SymbolsFed \in Int
    <3> DEFINE g == [k \in DOMAIN words |-> counts[k] * Cardinality(DOMAIN words[k])]
    <3>1. ASSUME NEW k \in DOMAIN words PROVE counts[k] * Cardinality(DOMAIN words[k]) \in Int
      <4>1. words[k] \in WordsOver(Ids) /\ counts[k] \in Nat
        BY <2>1, WordsFacts
      <4>2. PICK n \in Nat : words[k] \in WordsOfLength(Ids, n)
        BY <4>1 DEF WordsOver
      <4>3. DOMAIN words[k] = 0..(n - 1)
        BY <4>2, SymbolTyped
      <4>4. Cardinality(DOMAIN words[k]) \in Nat
        BY <4>3, WordSize
      <4> QED
        BY <4>1, <4>4, TimesNat
    <3>2. g \in [DOMAIN words -> Int] /\ IsFiniteSet(DOMAIN words)
      BY <2>1, <3>1, WordsFacts
    <3>3. SymbolsFed = SumFunction(g)
      BY DEF SymbolsFed
    <3> HIDE DEF g
    <3> QED
      BY <3>2, <3>3, SumInt
  <2> QED
    BY <2>3, <2>4, HardwareAssumption DEF CountsFit
<1>3. p \in DOMAIN stats /\ stats[p].count = TrueCount(p)
  <2>1. p \in DOMAIN stats
    <3> SUFFICES ASSUME p \notin DOMAIN stats PROVE FALSE
      OBVIOUS
    <3>1. StatsOf(stats, p).count = 0
      BY DEF StatsOf
    <3> QED
      BY <1>1, <1>2, <3>1
  <2> QED
    BY <1>1, <2>1 DEF StatsOf
<1>4. p \in Waiting
  BY <1>3 DEF Waiting
<1>5. PICK f \in DOMAIN heap : f.pair = p /\ f.count = ToUint64(stats[p].count)
  BY <1>4 DEF CInv, HeapInv
<1>6. ToUint64(TrueCount(p)) = TrueCount(p)
  BY <1>2, Uint64Typed
<1> QED
  BY <1>3, <1>5, <1>6

\* The top entry counts at least what any other pair left counts.
LEMMA TopBounds ==
    ASSUME CInv, pc = "loop", CountsFit, NEW e \in Tops, NEW p, p \notin MergedPairs
    PROVE  /\ e.count \in Nat /\ TrueCount(p) \in Nat
           /\ TrueCount(p) <= e.count
           /\ TrueCount(p) = e.count /\ e.count # 0 => ~PairBefore(p, e.pair)
<1>1. e.count \in Nat /\ \A f \in DOMAIN heap : ~Less(e, f) /\ f.count \in Nat
  BY DEF Tops, CInv, HeapInv
<1>2. TrueCount(p) \in Nat
  <2>1. IsWords(words, counts, Ids)
    BY DEF CInv, IInv, PairsInv
  <2> QED
    BY <2>1, TrueCountTyped, CountNames
<1>3. CASE TrueCount(p) = 0
  BY <1>1, <1>2, <1>3
<1>4. CASE TrueCount(p) > 0
  <2>1. PICK f \in DOMAIN heap : f.pair = p /\ f.count = TrueCount(p)
    BY <1>4, OnTheHeap
  <2>2. ~(e.count < f.count) /\ ~(e.count = f.count /\ PairBefore(f.pair, e.pair))
    BY <1>1 DEF Less
  <2> QED
    BY <1>1, <1>2, <2>1, <2>2
<1> QED
  BY <1>2, <1>3, <1>4

LEMMA StopLoopStop ==
    ASSUME CInv, StopLoop
    PROVE  StopInv'
<1>1. pc = "loop" /\ UNCHANGED <<corpus, opts, loopVars>>
  BY DEF StopLoop
<1>2. /\ \A p : TrueCount(p)' = TrueCount(p) /\ CountsFit' = CountsFit /\ MergedPairs' = MergedPairs
      /\ idToWord' = idToWord /\ opts' = opts
  BY <1>1 DEF loopVars, TrueCount, CountsFit, SymbolsFed, MergedPairs
<1> DEFINE least == Max({1, opts.min_frequency})
<1>3. opts.min_frequency \in Nat /\ opts.vocab_size \in Nat /\ Len(idToWord) \in Nat
  BY DEF CInv, IInv, IsOptions, Options, IsVocab, Vocabs
<1>4. least \in Int /\ 1 <= least /\ opts.min_frequency <= least
  <2> DEFINE m == opts.min_frequency
  <2>1. m \in Int /\ 1 \in Int
    BY <1>3
  <2> HIDE DEF m
  <2>2. Max({1, m}) \in {1, m} /\ 1 <= Max({1, m}) /\ m <= Max({1, m})
    BY <2>1, MaxOfTwo
  <2> QED
    BY <2>1, <2>2 DEF m
<1> HIDE DEF least
<1>5. ASSUME CountsFit, Len(idToWord) < opts.vocab_size, NEW p, p \notin MergedPairs
      PROVE  TrueCount(p) < least
  <2>0. TrueCount(p) \in Nat
    <3>1. IsWords(words, counts, Ids)
      BY DEF CInv, IInv, PairsInv
    <3> QED
      BY <3>1, TrueCountTyped, CountNames
  <2>1. CASE heap = EmptyBag
    <3>1. DOMAIN heap = {}
      BY <2>1, EmptyBagFacts
    <3>2. ~(TrueCount(p) > 0)
      BY <1>1, <1>5, <3>1, OnTheHeap
    <3> QED
      BY <1>4, <2>0, <3>2
  <2>2. CASE heap # EmptyBag
    <3>1. LoopOn
      BY <1>5, <2>2 DEF LoopOn
    <3>2. PICK e \in Tops : ~Stale(e) /\ TooRare(e)
      BY <3>1 DEF StopLoop
    <3>3. e.count \in Nat /\ TrueCount(p) <= e.count
      BY <1>1, <1>5, TopBounds
    <3>4. e.count < 1 \/ opts.min_frequency > e.count
      BY <3>2 DEF TooRare
    <3> QED
      BY <1>3, <1>4, <2>0, <3>3, <3>4
  <2> QED
    BY <2>1, <2>2
<1> QED
  BY <1>2, <1>5 DEF StopInv, least

\* Of two pairs one comes first.
LEMMA PairsOrdered ==
    ASSUME NEW p \in Int \X Int, NEW q \in Int \X Int, p # q, ~PairBefore(q, p)
    PROVE  PairBefore(p, q)
<1>1. p = <<p[1], p[2]>> /\ q = <<q[1], q[2]>>
  OBVIOUS
<1>2. p[1] \in Int /\ p[2] \in Int /\ q[1] \in Int /\ q[2] \in Int
  OBVIOUS
<1>3. p[1] # q[1] \/ p[2] # q[2]
  BY <1>1
<1> QED
  BY <1>2, <1>3 DEF PairBefore

\* Pairs that are present are pairs of ids.
LEMMA PresentTyped ==
    ASSUME NEW ids, IsWords(words, counts, ids)
    PROVE  PairsPresent \subseteq Pairs(ids)
<1>1. ASSUME NEW k \in DOMAIN words PROVE PairsOf(words[k]) \subseteq Pairs(ids)
  <2> DEFINE w == words[k]
  <2>1. words[k] \in WordsOver(ids)
    BY WordsFacts
  <2>2. PICK n \in Nat : words[k] \in WordsOfLength(ids, n)
    BY <2>1 DEF WordsOver
  <2> HIDE DEF w
  <2>3. w \in WordsOfLength(ids, n)
    BY <2>2 DEF w
  <2>4. ASSUME NEW i \in Live(w), HasRight(w, i) PROVE PairFrom(w, i) \in Pairs(ids)
    <3>1. i \in DOMAIN w
      BY DEF Live
    <3>2. w[i].c \in ids /\ w[i].next \in DOMAIN w \cup {NoSym} /\ w[i].next # NoSym
      BY <2>3, <2>4, <3>1, SymbolTyped DEF HasRight
    <3>3. w[w[i].next].c \in ids
      BY <2>3, <3>2, SymbolTyped
    <3> QED
      BY <3>2, <3>3 DEF PairFrom, Pairs
  <2> QED
    BY <2>4 DEF PairsOf, w
<1> QED
  BY <1>1 DEF PairsPresent

\* A step of the merge loop takes the most frequent pair.
Greedy ==
    CountsFit /\ Len(merges') = Len(merges) + 1 =>
       LET p == merges'[Len(merges')][1]
       IN \A q \in PairsPresent \ (MergedPairs \cup {p}) :
             \/ stats[p].count > TrueCount(q)
             \/ stats[p].count = TrueCount(q) /\ PairBefore(p, q)

LEMMA MergeTopGreedy ==
    ASSUME CInv, MergeTop, CountsFit, NEW q \in PairsPresent \ (MergedPairs \cup {merges'[Len(merges')][1]})
    PROVE  LET p == merges'[Len(merges')][1]
           IN \/ stats[p].count > TrueCount(q)
              \/ stats[p].count = TrueCount(q) /\ PairBefore(p, q)
<1> DEFINE p == merges'[Len(merges')][1]
<1>1. PICK e, order, id, merged, moved :
        TopMerge(e, order, id, merged, moved) /\ TopTyped(e, IdsOf(idToWord'), id, merged)
  BY MergeTopFacts DEF CInv
<1>2. /\ e \in Tops /\ ~Stale(e) /\ ~TooRare(e) /\ merges' = Append(merges, <<e.pair, id>>)
  BY <1>1 DEF TopMerge
<1>3. p = e.pair
  BY <1>2, MergesGrow DEF CInv
<1> HIDE DEF p
<1>4. pc = "loop" /\ InLoop
  BY DEF MergeTop, InLoop
<1>5. /\ e.count \in Nat /\ TrueCount(q) \in Nat /\ TrueCount(q) <= e.count
      /\ TrueCount(q) = e.count /\ e.count # 0 => ~PairBefore(q, e.pair)
  BY <1>2, <1>4, TopBounds
<1>6. e.count = ToUint64(stats[p].count) /\ e.count # 0
  BY <1>2, <1>3, <1>5 DEF Stale, TooRare
<1>7. p \in DOMAIN stats /\ p \in Pairs(Ids) /\ q \in Pairs(Ids) /\ p # q
  <2>1. IsWords(words, counts, Ids)
    BY DEF CInv, IInv, PairsInv
  <2> QED
    BY <1>1, <1>3, <2>1, PresentTyped DEF TopTyped, p
<1>8. stats[p].count \in Int /\ stats[p].count >= 0
  <2>1. stats[p].count \in Int
    BY <1>7 DEF CInv, IInv, PairsInv, StatsOver
  <2>2. stats[p].count >= TrueCount(p)
    BY <1>4, <1>7 DEF CInv, CountInv, StatsOf
  <2>3. TrueCount(p) \in Nat
    <3>1. IsWords(words, counts, Ids)
      BY DEF CInv, IInv, PairsInv
    <3> QED
      BY <3>1, TrueCountTyped, CountNames
  <2> QED
    BY <2>1, <2>2, <2>3
<1>9. e.count <= stats[p].count
  BY <1>6, <1>8, Uint64Typed
<1>10. CASE stats[p].count > TrueCount(q)
  BY <1>10 DEF p
<1>11. CASE ~(stats[p].count > TrueCount(q))
  <2>1. stats[p].count = TrueCount(q) /\ TrueCount(q) = e.count
    BY <1>5, <1>8, <1>9, <1>11
  <2>2. p \in Int \X Int /\ q \in Int \X Int
    <3>1. Ids \subseteq Int
      BY DEF Ids
    <3> QED
      BY <1>7, <3>1 DEF Pairs
  <2>3. PairBefore(p, q)
    BY <1>3, <1>5, <1>6, <1>7, <2>1, <2>2, PairsOrdered
  <2> QED
    BY <2>1, <2>3 DEF p
<1> QED
  BY <1>10, <1>11

\* Outside the loop the counts and the heap say nothing.
LEMMA IdleCounts ==
    ASSUME IInv', pc' \notin {"loop", "write"}
    PROVE  CountInv' /\ HeapInv' /\ StopInv' /\ (pc' # "count" /\ texts' = <<>> => ListInv')
<1>1. ~InLoop'
  BY DEF InLoop
<1>2. heap' = EmptyBag
  <2>1. pc' \in {"idle", "tokenize", "count"}
    BY DEF IInv, PhaseInv, Phases
  <2> QED
    BY <2>1 DEF IInv, PhaseInv
<1>3. DOMAIN heap' = {}
  BY <1>2, EmptyBagFacts
<1> QED
  BY <1>1, <1>3 DEF CountInv, HeapInv, StopInv, ListInv

\* What happens to none of the loop's variables.
LEMMA KeepCounts ==
    ASSUME CInv, UNCHANGED <<opts, loopVars, pc>>
    PROVE  ListInv' /\ CountInv' /\ HeapInv' /\ StopInv'
<1>1. /\ InLoop' = InLoop /\ CountsFit' = CountsFit /\ MergedPairs' = MergedPairs
      /\ Waiting' = Waiting /\ \A q : TrueCount(q)' = TrueCount(q)
      /\ \A t : KeptOf(idToWord, t)' = KeptOf(idToWord, t)
      /\ UNCHANGED <<opts, idToWord, words, counts, texts, stats, heap, merges, pc>>
  BY DEF loopVars, InLoop, CountsFit, SymbolsFed, MergedPairs, Waiting, TrueCount, KeptOf, KeptAt, KeyAt
<1>2. ListInv'
  BY <1>1 DEF CInv, ListInv
<1>3. CountInv'
  BY <1>1 DEF CInv, CountInv
<1>4. HeapInv'
  BY <1>1 DEF CInv, HeapInv
<1>5. StopInv'
  BY <1>1 DEF CInv, StopInv
<1> QED
  BY <1>2, <1>3, <1>4, <1>5

LEMMA InitCounts == Init => CInv
<1> SUFFICES ASSUME Init PROVE CInv
  OBVIOUS
<1>1. IInv
  BY InitInv
<1>2. pc = "idle" /\ texts = <<>> /\ heap = EmptyBag
  BY DEF Init
<1>3. DOMAIN heap = {}
  BY <1>2, EmptyBagFacts
<1> QED
  BY <1>1, <1>2, <1>3 DEF CInv, ListInv, CountInv, HeapInv, StopInv, InLoop

LEMMA RefreshStaleCounts ==
    ASSUME CInv, RefreshStale
    PROVE  ListInv' /\ CountInv' /\ StopInv'
<1>1. pc = "loop" /\ UNCHANGED <<opts, idToWord, words, counts, texts, stats, merges, pc>>
  BY DEF RefreshStale
<1>2. /\ InLoop' = InLoop /\ CountsFit' = CountsFit /\ MergedPairs' = MergedPairs
      /\ \A q : TrueCount(q)' = TrueCount(q)
  BY <1>1 DEF InLoop, CountsFit, SymbolsFed, MergedPairs, TrueCount
<1> QED
  BY <1>1, <1>2 DEF CInv, ListInv, CountInv, StopInv

LEMMA StopLoopCounts ==
    ASSUME CInv, StopLoop
    PROVE  ListInv' /\ CountInv' /\ HeapInv'
<1>1. pc = "loop" /\ pc' = "write" /\ UNCHANGED <<opts, loopVars>>
  BY DEF StopLoop
<1>2. /\ InLoop' /\ InLoop /\ CountsFit' = CountsFit /\ MergedPairs' = MergedPairs
      /\ \A q : TrueCount(q)' = TrueCount(q)
      /\ UNCHANGED <<words, stats, heap>>
  BY <1>1 DEF loopVars, InLoop, CountsFit, SymbolsFed, MergedPairs, TrueCount
<1> QED
  BY <1>1, <1>2 DEF CInv, ListInv, CountInv, HeapInv

LEMMA NextCounts ==
    ASSUME CInv, [Next]_vars
    PROVE  CInv'
<1>0. IInv /\ IInv'
  BY NextInv DEF CInv
<1>1. CASE Feed
  <2>1. UNCHANGED <<opts, loopVars, pc>>
    BY <1>1 DEF Feed
  <2> QED
    BY <1>0, <2>1, KeepCounts DEF CInv
<1>2. CASE TrainEmpty
  <2>1. UNCHANGED <<opts, loopVars, pc>>
    BY <1>2 DEF TrainEmpty
  <2> QED
    BY <1>0, <2>1, KeepCounts DEF CInv
<1>3. CASE StartTrain
  <2>1. pc' = "tokenize" /\ texts' = texts /\ pc = "idle"
    BY <1>3 DEF StartTrain
  <2>2. texts' = <<>>
    BY <2>1 DEF CInv, ListInv
  <2> QED
    BY <1>0, <2>1, <2>2, IdleCounts DEF CInv
<1>4. CASE TokenizeWords
  <2>1. pc' = "count"
    BY <1>4 DEF TokenizeWords
  <2>2. ListInv'
    BY <1>4, TokenizedLists DEF CInv
  <2> QED
    BY <1>0, <2>1, <2>2, IdleCounts DEF CInv
<1>5. CASE CountPairs
  <2>1. pc' = "loop"
    BY <1>5 DEF CountPairs
  <2>2. ListInv' /\ CountInv' /\ HeapInv'
    BY <1>5, CountPairsCounts, CountPairsHeap DEF CInv
  <2> QED
    BY <1>0, <2>1, <2>2 DEF CInv, StopInv
<1>6. CASE RefreshStale
  <2>1. HeapInv'
    BY <1>6, RefreshStaleHeap DEF CInv
  <2> QED
    BY <1>0, <1>6, <2>1, RefreshStaleCounts DEF CInv
<1>7. CASE MergeTop
  <2>1. pc' = "loop"
    BY <1>7 DEF MergeTop
  <2>2. ListInv' /\ CountInv' /\ HeapInv'
    BY <1>7, MergeTopCounts, MergeTopHeap DEF CInv
  <2> QED
    BY <1>0, <2>1, <2>2 DEF CInv, StopInv
<1>8. CASE StopLoop
  <2>1. StopInv'
    BY <1>8, StopLoopStop
  <2> QED
    BY <1>0, <1>8, <2>1, StopLoopCounts DEF CInv
<1>9. CASE WriteBack
  <2>1. pc' = "idle" /\ texts' = <<>>
    BY <1>9 DEF WriteBack
  <2> QED
    BY <1>0, <2>1, IdleCounts DEF CInv
<1>10. CASE UNCHANGED vars
  <2>1. UNCHANGED <<opts, loopVars, pc>>
    BY <1>10 DEF vars
  <2> QED
    BY <1>0, <2>1, KeepCounts DEF CInv
<1> QED
  BY <1>1, <1>2, <1>3, <1>4, <1>5, <1>6, <1>7, <1>8, <1>9, <1>10 DEF Next, TrainStep, Done

(***************************************************************************)
(* Throughout a training the pair counts account for every change the      *)
(* merges make, and each pair that waits to be merged has an entry on the  *)
(* heap with its count: what the three theorems below need.                *)
(***************************************************************************)
THEOREM CountsInductive == Spec => []CInv
BY InitCounts, NextCounts, PTL DEF Spec

LEMMA InvCounts ==
    ASSUME CInv
    PROVE  CountsExact /\ StopsComplete
<1>1. CountsExact
  BY DEF CInv, CountInv, CountsExact
<1>2. StopsComplete
  BY DEF CInv, StopInv, StopsComplete
<1> QED
  BY <1>1, <1>2

(***************************************************************************)
(* Whatever is fed and merged, in whatever order the hash maps are         *)
(* iterated and however the positions are sliced: as long as the symbols   *)
(* fed are fewer than 2^31, the incremental pair counts are never too low, *)
(* and exact for a pair until it is merged.                                *)
(***************************************************************************)
THEOREM TrainerCountsExact == Spec => []CountsExact
BY CountsInductive, InvCounts, PTL

(***************************************************************************)
(* Training stops with room in the vocabulary only when no pair is left    *)
(* that was not merged and occurs often enough.                            *)
(***************************************************************************)
THEOREM TrainerStopsComplete == Spec => []StopsComplete
BY CountsInductive, InvCounts, PTL

LEMMA StepGreedy ==
    ASSUME CInv, [Next]_vars
    PROVE  Greedy
<1>1. CASE MergeTop
  BY <1>1, MergeTopGreedy DEF Greedy
<1>2. CASE ~MergeTop
  <2>1. Len(merges) \in Nat
    BY DEF CInv, IInv, MergesOver
  <2>2. merges' = merges \/ merges' = <<>>
    <3>1. CASE Feed
      BY <3>1 DEF Feed, loopVars
    <3>2. CASE TrainEmpty
      BY <3>2 DEF TrainEmpty, loopVars
    <3>3. CASE StartTrain
      BY <3>3 DEF StartTrain
    <3>4. CASE TokenizeWords
      BY <3>4 DEF TokenizeWords
    <3>5. CASE CountPairs
      BY <3>5 DEF CountPairs
    <3>6. CASE RefreshStale
      BY <3>6 DEF RefreshStale
    <3>7. CASE StopLoop
      BY <3>7 DEF StopLoop, loopVars
    <3>8. CASE WriteBack
      BY <3>8 DEF WriteBack
    <3>9. CASE UNCHANGED vars
      BY <3>9 DEF vars, loopVars
    <3> QED
      BY <1>2, <3>1, <3>2, <3>3, <3>4, <3>5, <3>6, <3>7, <3>8, <3>9 DEF Next, TrainStep, Done
  <2>3. Len(merges') # Len(merges) + 1
    BY <2>1, <2>2
  <2> QED
    BY <2>3 DEF Greedy
<1> QED
  BY <1>1, <1>2

(***************************************************************************)
(* Every merge takes the most frequent pair left, equally frequent ones in *)
(* their order.                                                            *)
(***************************************************************************)
THEOREM TrainerGreedy == Spec => GreedyChoice
<1>1. CInv /\ [Next]_vars =>
        [CountsFit /\ Len(merges') = Len(merges) + 1 =>
           LET p == merges'[Len(merges')][1]
           IN \A q \in PairsPresent \ (MergedPairs \cup {p}) :
                 \/ stats[p].count > TrueCount(q)
                 \/ stats[p].count = TrueCount(q) /\ PairBefore(p, q)]_vars
  BY StepGreedy DEF Greedy
<1> QED
  BY CountsInductive, <1>1, PTL DEF Spec, GreedyChoice

-------------------------------------------------------------------------------
(* What a word's symbols spell. *)

\* Where the text of the i-th symbol ends, in a word of n characters.
EndOf(w, i, n) == IF w[i].next = NoSym THEN n ELSE w[i].next

\* A token that is not longer than allowed, or was not merged.
Spells(toks, w, i, chars, max) ==
    /\ toks[w[i].c + 1].text = SubSeq(chars, i + 1, EndOf(w, i, Len(chars)))
    /\ w[i].len > max => EndOf(w, i, Len(chars)) = i + 1

\* The first symbol is live, and the list leaves out no live symbol.
Gapless(w) ==
    /\ DOMAIN w # {} => 0 \in Live(w)
    /\ \A i, j \in Live(w) : i < j => w[i].next # NoSym /\ w[i].next <= j

\* The list of live symbols spells the characters, one symbol after the other.
Covers(toks, w, chars, max) ==
    /\ DOMAIN w = 0..(Len(chars) - 1)
    /\ Linked(w) /\ Gapless(w)
    /\ \A i \in Live(w) : Spells(toks, w, i, chars, max)

\* Two pieces of a sequence, one behind the other.
LEMMA SubSeqJoin ==
    ASSUME NEW S, NEW s \in Seq(S), NEW a \in Nat, NEW b \in Nat, NEW e \in Nat,
           a < b, b < e, e <= Len(s)
    PROVE  SubSeq(s, a + 1, b) \o SubSeq(s, b + 1, e) = SubSeq(s, a + 1, e)
<1> DEFINE m == a + 1
<1>1. m \in 1..(Len(s) + 1) /\ b \in (m - 1)..Len(s) /\ e \in b..Len(s)
  OBVIOUS
<1> HIDE DEF m
<1>2. SubSeq(s, m, b) \o SubSeq(s, b + 1, e) = SubSeq(s, m, e)
  BY <1>1, ConcatAdjacentSubSeq
<1> QED
  BY <1>2 DEF m

\* No symbol left of the gap is lost when one absorbs its right neighbour.
LEMMA AbsorbGapless ==
    ASSUME NEW ids, NEW n \in Nat, NEW w \in WordsOfLength(ids, n), Linked(w), Gapless(w), NEW r,
           NEW i \in Live(w), w[i].next # NoSym
    PROVE  Gapless(AbsorbRight(w, i, r))
<1> DEFINE j == w[i].next
           m == w[j].next
           v == AbsorbRight(w, i, r)
<1>1. /\ i \in DOMAIN w /\ j \in Live(w) /\ i < j
      /\ DOMAIN v = DOMAIN w /\ Live(v) = Live(w) \ {j}
      /\ v[i].next = m
      /\ \A k \in DOMAIN w \ {i} : v[k].next = w[k].next
  BY Absorbed
<1>2. DOMAIN w = 0..(n - 1)
  BY SymbolTyped
<1>3. \A k \in Live(w) : k \in DOMAIN w /\ k \in Nat
  BY <1>2 DEF Live
<1> HIDE DEF v, j, m
<1>4. DOMAIN v # {} => 0 \in Live(v)
  <2>1. j # 0
    BY <1>1, <1>3
  <2> QED
    BY <1>1, <2>1 DEF Gapless
<1>5. ASSUME NEW a \in Live(v), NEW b \in Live(v), a < b
      PROVE  v[a].next # NoSym /\ v[a].next <= b
  <2>1. a \in Live(w) /\ b \in Live(w) /\ b # j
    BY <1>1
  <2>2. w[a].next # NoSym /\ w[a].next <= b
    BY <1>5, <2>1 DEF Gapless
  <2>3. CASE a # i
    <3>1. v[a].next = w[a].next
      BY <1>1, <1>3, <2>1, <2>3
    <3> QED
      BY <2>2, <3>1
  <2>4. CASE a = i
    <3>1. j \in Nat /\ b \in Nat /\ j <= b
      BY <1>1, <1>3, <2>1, <2>2, <2>4 DEF j
    <3>2. j < b
      BY <2>1, <3>1
    <3>3. w[j].next # NoSym /\ w[j].next <= b
      BY <1>1, <2>1, <3>2 DEF Gapless
    <3> QED
      BY <1>1, <2>4, <3>3 DEF m
  <2> QED
    BY <2>3, <2>4
<1>6. Gapless(v)
  BY <1>4, <1>5 DEF Gapless
<1> QED
  BY <1>6 DEF v

\* The token of the i-th symbol spells these characters.
SpellsAll(toks, w, chars, max) == \A i \in Live(w) : Spells(toks, w, i, chars, max)

\* The token r spells what the i-th symbol and its right neighbour do, and is not too long.
JoinsAt(toks, w, i, r, max) ==
    /\ toks[r + 1].text = toks[w[i].c + 1].text \o toks[w[w[i].next].c + 1].text
    /\ w[i].len + w[w[i].next].len <= max

\* A symbol absorbs its right neighbour: its token spells the texts of both.
LEMMA AbsorbSpells ==
    ASSUME NEW ids, NEW n \in Nat, NEW w \in WordsOfLength(ids, n), Linked(w), NEW r,
           NEW i \in Live(w), w[i].next # NoSym,
           NEW toks, NEW S, NEW chars \in Seq(S), NEW max \in Int, n = Len(chars),
           SpellsAll(toks, w, chars, max),
           JoinsAt(toks, w, i, r, max)
    PROVE  SpellsAll(toks, AbsorbRight(w, i, r), chars, max)
<1> DEFINE j == w[i].next
           m == w[j].next
           v == AbsorbRight(w, i, r)
<1>1. /\ i \in DOMAIN w /\ j \in Live(w) /\ i < j
      /\ m # NoSym => m \in Live(w) /\ j < m
      /\ DOMAIN v = DOMAIN w /\ Live(v) = Live(w) \ {j}
      /\ v[i].c = r /\ v[i].next = m
      /\ v[i].len = w[i].len + w[j].len
      /\ \A k \in DOMAIN w \ {i} : v[k].c = w[k].c /\ v[k].next = w[k].next
      /\ \A k \in DOMAIN w \ {i, j} : v[k].len = w[k].len
  BY Absorbed
<1>2. DOMAIN w = 0..(n - 1)
  BY SymbolTyped
<1>3. \A k \in Live(w) : k \in DOMAIN w /\ k \in Nat /\ k < n
  BY <1>2 DEF Live
<1>4. w[i].len \in Nat /\ w[j].len \in Nat
  <2>1. i \in 0..(n - 1) /\ j \in 0..(n - 1)
    BY <1>1, <1>2, <1>3
  <2> QED
    BY <2>1, SymbolTyped
<1>5. /\ toks[r + 1].text = toks[w[i].c + 1].text \o toks[w[j].c + 1].text
      /\ w[i].len + w[j].len <= max
  BY DEF JoinsAt
<1> HIDE DEF v, j, m
<1>6. ASSUME NEW a \in Live(v) PROVE Spells(toks, v, a, chars, max)
  <2>1. a \in Live(w) /\ a \in DOMAIN w /\ a # j /\ Spells(toks, w, a, chars, max)
    BY <1>1, <1>3 DEF SpellsAll
  <2>2. CASE a # i
    <3>1. v[a].c = w[a].c /\ v[a].next = w[a].next /\ v[a].len = w[a].len
      BY <1>1, <2>1, <2>2
    <3> QED
      BY <2>1, <3>1 DEF Spells, EndOf
  <2>3. CASE a = i
    <3> DEFINE e == EndOf(w, j, n)
    <3>1. EndOf(w, i, n) = j
      BY DEF EndOf, j
    <3>2. EndOf(v, i, n) = e
      BY <1>1 DEF EndOf, m
    <3>3. toks[w[i].c + 1].text = SubSeq(chars, i + 1, j)
      BY <2>1, <2>3, <3>1 DEF Spells
    <3>4. toks[w[j].c + 1].text = SubSeq(chars, j + 1, e)
      BY <1>1 DEF SpellsAll, Spells
    <3>5. i \in Nat /\ j \in Nat /\ j < n
      BY <1>1, <1>3
    <3>6. e \in Nat /\ j < e /\ e <= n
      <4>1. e = IF m = NoSym THEN n ELSE m
        BY DEF EndOf, m
      <4> HIDE DEF e
      <4> QED
        BY <1>1, <1>3, <3>5, <4>1
    <3> HIDE DEF e
    <3>7. SubSeq(chars, i + 1, j) \o SubSeq(chars, j + 1, e) = SubSeq(chars, i + 1, e)
      <4>1. i \in Nat /\ j \in Nat /\ e \in Nat /\ i < j /\ j < e /\ e <= Len(chars)
        BY <1>1, <3>5, <3>6
      <4> QED
        BY <4>1, SubSeqJoin, ZenonT(30)
    <3>8. toks[v[i].c + 1].text = SubSeq(chars, i + 1, e)
      BY <1>1, <1>5, <3>3, <3>4, <3>7
    <3>9. ~(v[i].len > max)
      BY <1>1, <1>4, <1>5, SMTT(30)
    <3> QED
      BY <2>3, <3>2, <3>8, <3>9 DEF Spells
  <2> QED
    BY <2>2, <2>3
<1>7. SpellsAll(toks, v, chars, max)
  BY <1>6 DEF SpellsAll
<1> QED
  BY <1>7 DEF v

LEMMA AbsorbCovers ==
    ASSUME NEW ids, NEW n \in Nat, NEW w \in WordsOfLength(ids, n), NEW r,
           NEW i \in Live(w), w[i].next # NoSym,
           NEW toks, NEW S, NEW chars \in Seq(S), n = Len(chars),
           NEW max \in Int, Covers(toks, w, chars, max),
           JoinsAt(toks, w, i, r, max)
    PROVE  Covers(toks, AbsorbRight(w, i, r), chars, max)
<1> DEFINE v == AbsorbRight(w, i, r)
<1>1. Linked(w) /\ Gapless(w) /\ SpellsAll(toks, w, chars, max)
  BY DEF Covers, SpellsAll
<1>2. DOMAIN v = DOMAIN w
  BY DEF AbsorbRight
<1>3. Linked(v)
  BY <1>1, AbsorbLinked
<1>4. Gapless(v)
  BY <1>1, AbsorbGapless
<1>5. SpellsAll(toks, v, chars, max)
  BY <1>1, AbsorbSpells
<1> HIDE DEF v
<1>6. Covers(toks, v, chars, max)
  BY <1>2, <1>3, <1>4, <1>5 DEF Covers, SpellsAll
<1> QED
  BY <1>6 DEF v

\* The token r spells what the pair p spells.
Joins(toks, p, r) == toks[r + 1].text = toks[p[1] + 1].text \o toks[p[2] + 1].text

\* Merging a pair in a word does not change what it spells.
LEMMA MergeWordCovers ==
    ASSUME NEW ids, NEW w \in WordsOver(ids), NEW p \in Pairs(ids), NEW r \in ids,
           NEW toks, NEW S, NEW chars \in Seq(S), NEW max \in Int, Covers(toks, w, chars, max),
           Joins(toks, p, r)
    PROVE  Covers(toks, MergeWord(w, p, r, max).word, chars, max)
<1>0. PICK n \in Nat : w \in WordsOfLength(ids, n)
  BY DEF WordsOver
<1>1. w \in WordsOfLength(ids, n) /\ n = Len(chars)
  <2>1. DOMAIN w = 0..(n - 1) /\ DOMAIN w = 0..(Len(chars) - 1)
    BY <1>0, SymbolTyped DEF Covers
  <2>2. Len(chars) \in Nat
    BY LenProperties
  <2> QED
    BY <1>0, <2>1, <2>2, WordSize
<1> DEFINE V == {a \in Merging(ids, n) : Covers(toks, a.word, chars, max)}
<1>2. Cardinality(DOMAIN w) = n
  BY <1>1, SymbolTyped, WordSize
<1>3. [word |-> w, changes |-> <<>>] \in V
  <2> DEFINE a == [word |-> w, changes |-> <<>>]
  <2>1. <<>> \in Changes(ids)
    BY DEF Changes
  <2>2. a \in Merging(ids, n) /\ a.word = w
    BY <1>1, <2>1 DEF Merging
  <2> HIDE DEF a
  <2>3. a \in V
    BY <2>2
  <2> QED
    BY <2>3 DEF a
<1>4. ASSUME NEW a \in V, NEW i \in 0..(n - 1)
      PROVE  MergeStep(a, i, p, r, max) \in V
  <2> DEFINE b == MergeStep(a, i, p, r, max)
             u == a.word
  <2>1. a \in Merging(ids, n) /\ Covers(toks, u, chars, max) /\ u \in WordsOfLength(ids, n)
    BY DEF Merging
  <2>2. b \in Merging(ids, n)
    BY <2>1, MergeStepTyped
  <2>3. CASE ~Matches(u, i, p, max)
    BY <2>3 DEF MergeStep
  <2>4. CASE Matches(u, i, p, max)
    <3>1. /\ i \in Live(u) /\ u[i].next # NoSym /\ p = PairFrom(u, i)
          /\ u[i].len + u[u[i].next].len <= max
      BY <2>4 DEF Matches, HasRight
    <3>2. p[1] = u[i].c /\ p[2] = u[u[i].next].c
      BY <3>1 DEF PairFrom
    <3>3. JoinsAt(toks, u, i, r, max)
      BY <3>1, <3>2 DEF Joins, JoinsAt
    <3>4. Covers(toks, AbsorbRight(u, i, r), chars, max)
      <4> HIDE DEF u
      <4> QED
        BY <1>1, <2>1, <3>1, <3>3, AbsorbCovers
    <3>5. b.word = AbsorbRight(u, i, r)
      BY <2>4 DEF MergeStep
    <3> HIDE DEF b
    <3>6. b \in V
      BY <2>2, <3>4, <3>5
    <3> QED
      BY <3>6 DEF b
  <2> QED
    BY <2>3, <2>4
<1>5. \A a \in V, k \in 1..n : MergeStep(a, k - 1, p, r, max) \in V
  <2>1. \A k \in 1..n : k - 1 \in 0..(n - 1)
    OBVIOUS
  <2> HIDE DEF V
  <2> QED
    BY <1>4, <2>1
<1> HIDE DEF V
<1>6. PICK f : MergeWordRun(f, V, n, w, p, r, max)
  BY <1>2, <1>3, <1>5, MergeWordTrace
<1>7. MergeWord(w, p, r, max) \in V
  <2>1. n \in 0..n
    OBVIOUS
  <2> QED
    BY <1>6, <2>1 DEF MergeWordRun
<1> QED
  BY <1>7 DEF V

\* The symbol with k - 1 live ones before it.
At(w, k) == CHOOSE i \in Live(w) : Cardinality({j \in Live(w) : j < i}) = k - 1

\* A word's live symbols are numbered by their places.
LEMMA AtFacts ==
    ASSUME NEW w, NEW n \in Nat, DOMAIN w = 0..(n - 1)
    PROVE  /\ Live(w) \in SUBSET Int /\ IsFiniteSet(Live(w)) /\ Cardinality(Live(w)) \in Nat
           /\ Live(w) \subseteq 0..(n - 1)
           /\ \A k \in 1..Cardinality(Live(w)) :
                At(w, k) \in Live(w) /\ Cardinality(Below(Live(w), At(w, k))) = k - 1
           /\ \A i \in Live(w), k \in 1..Cardinality(Live(w)) :
                Cardinality(Below(Live(w), i)) = k - 1 => At(w, k) = i
<1> DEFINE L == Live(w)
<1>1. L \in SUBSET Int /\ IsFiniteSet(L) /\ L \subseteq 0..(n - 1)
  <2>1. L \subseteq 0..(n - 1)
    BY DEF Live
  <2>2. IsFiniteSet(0..(n - 1)) /\ 0..(n - 1) \subseteq Int
    BY WordSize
  <2> HIDE DEF L
  <2> QED
    BY <2>1, <2>2, FS_Subset
<1>2. Cardinality(L) \in Nat
  BY <1>1, FS_CardinalityType
<1>3. At(w, 0) = At(w, 0) /\ \A k : At(w, k) = CHOOSE i \in L : Cardinality(Below(L, i)) = k - 1
  BY DEF At, Below
<1> HIDE DEF L
<1>4. ASSUME NEW k \in 1..Cardinality(L)
      PROVE  At(w, k) \in L /\ Cardinality(Below(L, At(w, k))) = k - 1
  <2>1. k - 1 \in 0..(Cardinality(L) - 1)
    BY <1>2
  <2>2. \E i \in L : Cardinality(Below(L, i)) = k - 1
    BY <1>1, <2>1, RankFacts
  <2> QED
    BY <1>3, <2>2
<1>5. ASSUME NEW i \in L, NEW k \in 1..Cardinality(L), Cardinality(Below(L, i)) = k - 1
      PROVE  At(w, k) = i
  <2>1. \A a, b \in L : Cardinality(Below(L, a)) = Cardinality(Below(L, b)) => a = b
    BY <1>1, RankFacts
  <2>2. At(w, k) \in L /\ Cardinality(Below(L, At(w, k))) = Cardinality(Below(L, i))
    BY <1>4, <1>5
  <2> QED
    BY <2>1, <2>2
<1> QED
  BY <1>1, <1>2, <1>4, <1>5 DEF L

\* The list leads from one number to the next.
LEMMA AtNext ==
    ASSUME NEW w, NEW n \in Nat, DOMAIN w = 0..(n - 1), Linked(w), Gapless(w),
           NEW k \in 1..Cardinality(Live(w))
    PROVE  /\ At(w, 1) = 0
           /\ k < Cardinality(Live(w)) => w[At(w, k)].next # NoSym /\ At(w, k + 1) = w[At(w, k)].next
           /\ k = Cardinality(Live(w)) => w[At(w, k)].next = NoSym
<1> DEFINE L == Live(w)
           i == At(w, k)
           size == Cardinality(L)
<1>1. /\ L \in SUBSET Int /\ IsFiniteSet(L) /\ size \in Nat /\ L \subseteq 0..(n - 1)
      /\ i \in L /\ Cardinality(Below(L, i)) = k - 1
      /\ \A j \in L, m \in 1..size : Cardinality(Below(L, j)) = m - 1 => At(w, m) = j
  BY AtFacts
<1>2. /\ 0 \in L
      /\ \A a, b \in L : a < b => w[a].next # NoSym /\ w[a].next <= b
      /\ \A a \in L : w[a].next # NoSym => w[a].next \in L /\ a < w[a].next
  <2>1. DOMAIN w # {}
    BY <1>1
  <2> QED
    BY <2>1 DEF Gapless, Linked
<1>3. \A b \in L : Cardinality(Below(L, b)) \in 0..(size - 1)
  BY <1>1, RankFacts
<1>4. At(w, 1) = 0
  <2>1. Below(L, 0) = {}
    BY <1>1 DEF Below
  <2>2. Cardinality(Below(L, 0)) = 1 - 1
    <3>1. Cardinality({}) = 0
      BY FS_EmptySet
    <3>2. 0 = 1 - 1
      OBVIOUS
    <3> HIDE DEF L
    <3> QED
      BY <2>1, <3>1, <3>2, Zenon
  <2>3. 1 \in 1..size
    BY <1>1
  <2> HIDE DEF L, size
  <2> QED
    BY <1>1, <1>2, <2>2, <2>3
<1> HIDE DEF L, i, size
<1>5. ASSUME w[i].next # NoSym
      PROVE  k < size /\ At(w, k + 1) = w[i].next
  <2> DEFINE j == w[i].next
  <2>1. j \in L /\ i < j
    BY <1>1, <1>2, <1>5
  <2>2. Below(L, j) = Below(L, i) \cup {i}
    <3>1. ASSUME NEW x \in L, x < j PROVE x < i \/ x = i
      <4>2. i < x => j <= x
        BY <1>1, <1>2
      <4>3. x \in Int /\ j \in Int
        BY <1>1, <2>1
      <4> HIDE DEF j
      <4>1. ~(i < x)
        BY <3>1, <4>2, <4>3
      <4> QED
        BY <1>1, <4>1
    <3>2. ASSUME NEW x \in L, x < i \/ x = i PROVE x < j
      BY <1>1, <2>1, <3>2
    <3> HIDE DEF j
    <3> QED
      BY <1>1, <3>1, <3>2 DEF Below
  <2> HIDE DEF j
  <2>3. Cardinality(Below(L, j)) = k
    <3>1. IsFiniteSet(Below(L, i)) /\ i \notin Below(L, i)
      <4>1. Below(L, i) \in SUBSET L
        BY DEF Below
      <4>2. i \notin Below(L, i)
        BY <1>1 DEF Below
      <4> QED
        BY <1>1, <4>1, <4>2, FS_Subset
    <3>2. Cardinality(Below(L, i) \cup {i}) = Cardinality(Below(L, i)) + 1
      BY <3>1, FS_AddElement
    <3> QED
      BY <1>1, <2>2, <3>2
  <2>4. k < size
    BY <1>1, <1>3, <2>1, <2>3
  <2>5. k + 1 \in 1..size /\ k = (k + 1) - 1
    BY <1>1, <2>4
  <2>6. At(w, k + 1) = j
    BY <1>1, <2>1, <2>3, <2>5
  <2> QED
    BY <2>4, <2>6 DEF j
<1>6. ASSUME w[i].next = NoSym PROVE k = size
  <2>1. ASSUME k # size PROVE FALSE
    <3>1. k \in 0..(size - 1)
      BY <1>1, <2>1 DEF size, L
    <3>2. PICK j \in L : Cardinality(Below(L, j)) = k
      BY <1>1, <3>1, RankFacts DEF size
    <3>3. ~(j < i) /\ j # i
      BY <1>1, <3>2, RankFacts
    <3>4. i < j
      BY <1>1, <3>3
    <3> QED
      BY <1>1, <1>2, <1>6, <3>4
  <2> QED
    BY <2>1
<1>7. k \in 1..size
  BY DEF size, L
<1> QED
  BY <1>1, <1>4, <1>5, <1>6, <1>7 DEF i, size, L

\* The texts of a word's live symbols, one after the other.
SpelledBy(toks, w) ==
    FlattenSeq([k \in 1..Cardinality(Live(w)) |-> toks[w[At(w, k)].c + 1].text])

LEMMA CoversSpelled ==
    ASSUME NEW toks, NEW S, NEW chars \in Seq(S), NEW w, NEW max, Covers(toks, w, chars, max)
    PROVE  SpelledBy(toks, w) = chars
<1> DEFINE n == Len(chars)
           L == Live(w)
           size == Cardinality(L)
           ss == [k \in 1..size |-> toks[w[At(w, k)].c + 1].text]
           end(k) == EndOf(w, At(w, k), n)
<1>1. /\ n \in Nat /\ DOMAIN w = 0..(n - 1) /\ Linked(w) /\ Gapless(w)
      /\ \A i \in L : toks[w[i].c + 1].text = SubSeq(chars, i + 1, EndOf(w, i, n))
  <2>1. n \in Nat
    BY LenProperties
  <2> QED
    BY <2>1 DEF Covers, Spells
<1>2. /\ size \in Nat /\ L \subseteq 0..(n - 1) /\ IsFiniteSet(L)
      /\ \A k \in 1..size : At(w, k) \in L
  BY <1>1, AtFacts
<1>3. \A k \in 1..size : /\ At(w, 1) = 0
                         /\ k < size => At(w, k + 1) = end(k)
                         /\ k = size => end(k) = n
  <2> SUFFICES ASSUME NEW k \in 1..size
               PROVE  /\ At(w, 1) = 0
                      /\ k < size => At(w, k + 1) = end(k)
                      /\ k = size => end(k) = n
    OBVIOUS
  <2>1. /\ At(w, 1) = 0
        /\ k < size => w[At(w, k)].next # NoSym /\ At(w, k + 1) = w[At(w, k)].next
        /\ k = size => w[At(w, k)].next = NoSym
    BY <1>1, AtNext
  <2> QED
    BY <2>1 DEF EndOf
<1>4. \A i \in L : i \in Nat /\ EndOf(w, i, n) \in Nat /\ i < EndOf(w, i, n) /\ EndOf(w, i, n) <= n
  <2> SUFFICES ASSUME NEW i \in L
               PROVE  i \in Nat /\ EndOf(w, i, n) \in Nat /\ i < EndOf(w, i, n) /\ EndOf(w, i, n) <= n
    OBVIOUS
  <2>1. w[i].next # NoSym => w[i].next \in L /\ i < w[i].next
    BY <1>1 DEF Linked
  <2> HIDE DEF n, L
  <2>2. \A j \in L : j \in Nat /\ j < n /\ n \in Nat
    BY <1>1, <1>2
  <2>3. CASE w[i].next = NoSym
    BY <2>2, <2>3 DEF EndOf
  <2>4. CASE w[i].next # NoSym
    <3>1. EndOf(w, i, n) = w[i].next
      BY <2>4 DEF EndOf
    <3>2. w[i].next \in Nat /\ w[i].next < n
      BY <2>1, <2>2, <2>4
    <3> QED
      BY <2>1, <2>2, <2>4, <3>1, <3>2
  <2> QED
    BY <2>3, <2>4
<1>5. /\ Len(ss) = size
      /\ \A k \in 1..size : ss[k] = SubSeq(chars, At(w, k) + 1, end(k)) /\ ss[k] \in Seq(S)
  <2>1. Len(ss) = size
    BY <1>2
  <2>2. ASSUME NEW k \in 1..size
        PROVE  ss[k] = SubSeq(chars, At(w, k) + 1, end(k))
    <3>1. At(w, k) \in L
      BY <1>2
    <3> QED
      BY <1>1, <3>1
  <2>3. \A a, b \in Nat : b <= n => SubSeq(chars, a + 1, b) \in Seq(S)
    <3> SUFFICES ASSUME NEW a \in Nat, NEW b \in Nat, b <= n PROVE SubSeq(chars, a + 1, b) \in Seq(S)
      OBVIOUS
    <3>1. \A i \in (a + 1)..b : chars[i] \in S
      BY <1>1
    <3> QED
      BY <3>1, SubSeqProperties
  <2> HIDE DEF ss, n, L, size
  <2>4. ASSUME NEW k \in 1..size PROVE ss[k] \in Seq(S)
    <3>1. At(w, k) \in Nat /\ EndOf(w, At(w, k), n) \in Nat /\ EndOf(w, At(w, k), n) <= n
      BY <1>2, <1>4
    <3> QED
      BY <2>2, <2>3, <3>1
  <2> QED
    BY <2>1, <2>2, <2>4
<1>6. SpelledBy(toks, w) = FlattenSeq(ss)
  BY DEF SpelledBy
<1> HIDE DEF ss, end
<1>7. PICK g : FlattenRun(g, S, ss)
  BY <1>2, <1>5, FlattenTrace
<1>8. /\ g[0] = <<>> /\ FlattenSeq(ss) = g[size]
      /\ \A k \in 1..size : g[k] = g[k - 1] \o ss[k]
  BY <1>5, <1>7 DEF FlattenRun
<1> DEFINE T == {k \in 0..size : k # 0 => g[k] = SubSeq(chars, 1, end(k))}
<1>9. ASSUME NEW k \in 1..size, k - 1 \in T PROVE k \in T
  <2> DEFINE a == At(w, k)
             e == end(k)
  <2>1. /\ a \in Nat /\ e \in Nat /\ a < e /\ e <= n
    BY <1>2, <1>4 DEF end
  <2>2. g[k] = g[k - 1] \o SubSeq(chars, a + 1, e)
    BY <1>5, <1>8
  <2>3. CASE k = 1
    <3>1. a = 0 /\ g[k - 1] = <<>>
      BY <1>3, <1>8, <2>3
    <3>2. g[k] = <<>> \o SubSeq(chars, 1, e)
      <4>1. a + 1 = 1
        BY <3>1
      <4> HIDE DEF a, e
      <4> QED
        BY <2>2, <3>1, <4>1
    <3>3. \A i \in 1..e : chars[i] \in S
      BY <2>1
    <3> HIDE DEF a, e
    <3>4. SubSeq(chars, 1, e) \in Seq(S)
      BY <2>1, <3>3, SubSeqProperties
    <3>5. <<>> \o SubSeq(chars, 1, e) = SubSeq(chars, 1, e)
      BY <3>4, ConcatEmptySeq
    <3> QED
      BY <3>2, <3>5 DEF e
  <2>4. CASE k # 1
    <3>1. k - 1 \in 1..size /\ k - 1 < size /\ (k - 1) + 1 = k
      BY <1>2, <2>4
    <3>2. a = end(k - 1)
      BY <1>3, <3>1
    <3>3. 0 < a
      <4>1. At(w, k - 1) \in L /\ a = EndOf(w, At(w, k - 1), n)
        BY <1>2, <3>1, <3>2 DEF end
      <4> QED
        BY <1>4, <4>1
    <3>4. g[k - 1] = SubSeq(chars, 0 + 1, a)
      <4>1. g[k - 1] = SubSeq(chars, 1, end(k - 1))
        BY <1>9, <3>1
      <4> QED
        BY <3>2, <4>1
    <3> HIDE DEF a, e, T
    <3>5. SubSeq(chars, 0 + 1, a) \o SubSeq(chars, a + 1, e) = SubSeq(chars, 0 + 1, e)
      BY <2>1, <3>3, SubSeqJoin, Zenon
    <3>6. g[k] = SubSeq(chars, 0 + 1, e)
      BY <2>2, <3>4, <3>5
    <3> QED
      BY <3>6 DEF e, T
  <2> QED
    BY <2>3, <2>4
<1>10. \A k \in 0..size : k \in T
  <2>1. 0 \in T
    BY <1>2
  <2> HIDE DEF T, size
  <2> QED
    BY <1>2, <1>9, <2>1, InductUpto
<1>11. g[size] = chars
  <2>1. CASE size = 0
    <3>1. L = {}
      BY <1>2, <2>1, FS_EmptySet
    <3>2. n = 0
      <4>1. DOMAIN w = {}
        BY <1>1, <3>1 DEF Gapless
      <4>2. n - 1 < 0
        BY <1>1, <4>1
      <4> QED
        BY <1>1, <4>2
    <3>3. chars = <<>>
      BY <3>2, EmptySeq
    <3> QED
      BY <1>8, <2>1, <3>3
  <2>2. CASE size # 0
    <3>1. size \in 1..size /\ size \in 0..size
      BY <1>2, <2>2
    <3>2. g[size] = SubSeq(chars, 1, end(size))
      BY <1>10, <2>2, <3>1
    <3>3. end(size) = n
      BY <1>3, <3>1
    <3>4. SubSeq(chars, 1, Len(chars)) = chars
      BY SubSeqFull
    <3> HIDE DEF size
    <3> QED
      BY <3>2, <3>3, <3>4
  <2> QED
    BY <2>1, <2>2
<1> QED
  BY <1>6, <1>8, <1>11

\* The ids of tokens with some text.
Voiced(toks) == {i \in IdsOf(toks) : toks[i + 1].text \in Seq(Nat) /\ toks[i + 1].text # <<>>}

\* A word that was just made of single characters.
LEMMA MadeCovers ==
    ASSUME NEW ids, NEW w \in WordsOver(ids), NEW toks, NEW chars \in Seq(Characters),
           MadeWord(toks, w, chars), NEW max
    PROVE  w \in WordsOver(Voiced(toks)) /\ Covers(toks, w, chars, max)
<1>1. PICK syms \in Seq(IdsOf(toks) \X Nat) : w = WordOf(syms) /\ Made(toks, syms, chars)
  BY DEF MadeWord
<1>2. Len(syms) \in Nat /\ Len(chars) = Len(syms)
  BY <1>1 DEF Made
<1>3. \A i \in 1..Len(syms) : /\ syms[i] \in IdsOf(toks) \X Nat
                              /\ toks[syms[i][1] + 1].text = <<chars[i]>> /\ chars[i] \in Characters
  <2>1. \A i \in 1..Len(syms) : syms[i] \in IdsOf(toks) \X Nat
    OBVIOUS
  <2>2. \A i \in 1..Len(syms) : chars[i] \in Characters
    BY <1>2
  <2> QED
    BY <1>1, <1>2, <2>1, <2>2 DEF Made
<1>4. w \in WordsOver(Voiced(toks))
  <2>1. ASSUME NEW i \in 1..Len(syms) PROVE syms[i] \in Voiced(toks) \X Nat
    <3> DEFINE c == chars[i]
               t == toks[syms[i][1] + 1].text
    <3>1. c \in Nat /\ t = <<c>> /\ syms[i] \in IdsOf(toks) \X Nat
      BY <1>3, CharAssumption
    <3> HIDE DEF c
    <3>2. t \in Seq(Nat) /\ t # <<>>
      <4> HIDE DEF t
      <4>1. <<c>> \in Seq(Nat) /\ <<c>> # <<>>
        BY <3>1
      <4> QED
        BY <3>1, <4>1
    <3>3. syms[i][1] \in IdsOf(toks) /\ syms[i][2] \in Nat /\ syms[i] = <<syms[i][1], syms[i][2]>>
      BY <3>1
    <3>4. syms[i][1] \in Voiced(toks)
      BY <3>2, <3>3 DEF Voiced
    <3> QED
      BY <3>3, <3>4
  <2>2. syms \in Seq(Voiced(toks) \X Nat)
    <3>1. syms = [i \in 1..Len(syms) |-> syms[i]]
      OBVIOUS
    <3> QED
      BY <1>2, <2>1, <3>1, SMTT(30)
  <2> QED
    BY <1>1, <2>2, WordOfTyped
<1> DEFINE n == Len(chars)
<1>5. /\ n \in Nat /\ Fresh(w) /\ DOMAIN w = 0..(n - 1)
      /\ \A i \in 0..(n - 1) : toks[w[i].c + 1].text = <<chars[i + 1]>>
  BY <1>2, MadeWordFresh
<1>6. Linked(w) /\ Live(w) = 0..(n - 1)
  <2>1. PICK m \in Nat : w \in WordsOfLength(ids, m)
    BY DEF WordsOver
  <2>2. DOMAIN w = 0..(m - 1)
    BY <2>1, SymbolTyped
  <2> QED
    BY <1>5, <2>1, <2>2, FreshLinked
<1>7. \A i \in 0..(n - 1) : EndOf(w, i, n) = i + 1
  <2> SUFFICES ASSUME NEW i \in 0..(n - 1) PROVE EndOf(w, i, n) = i + 1
    OBVIOUS
  <2>1. w[i].next = IF i + 1 \in 0..(n - 1) THEN i + 1 ELSE NoSym
    BY <1>5 DEF Fresh
  <2>2. i + 1 # NoSym /\ (i + 1 \notin 0..(n - 1) => i + 1 = n)
    BY <1>5 DEF NoSym
  <2> HIDE DEF n
  <2> QED
    BY <2>1, <2>2 DEF EndOf
<1>8. Gapless(w)
  <2>1. DOMAIN w # {} => 0 \in Live(w)
    BY <1>5, <1>6
  <2>2. ASSUME NEW i \in Live(w), NEW j \in Live(w), i < j
        PROVE  w[i].next # NoSym /\ w[i].next <= j
    <3>1. i + 1 \in 0..(n - 1) /\ i + 1 <= j /\ i + 1 # NoSym
      BY <1>5, <1>6, <2>2 DEF NoSym
    <3>2. w[i].next = i + 1
      BY <1>5, <1>6, <3>1 DEF Fresh
    <3> QED
      BY <3>1, <3>2
  <2> QED
    BY <2>1, <2>2 DEF Gapless
<1>9. \A i \in Live(w) : Spells(toks, w, i, chars, max)
  <2> SUFFICES ASSUME NEW i \in 0..(n - 1) PROVE Spells(toks, w, i, chars, max)
    BY <1>6
  <2>1. SubSeq(chars, i + 1, i + 1) = <<chars[i + 1]>>
    <3> DEFINE m == i + 1
    <3>1. m \in 1..Len(chars)
      BY <1>5
    <3> HIDE DEF m
    <3>2. SubSeq(chars, m, m) = <<chars[m]>>
      <4>1. m \in m..Len(chars) /\ m \in Int /\ m + 1 \in Int /\ m < m + 1 /\ chars[m] \in Characters
        BY <3>1
      <4>2. SubSeq(chars, m, m) = <<chars[m]>> \o SubSeq(chars, m + 1, m)
        BY <3>1, <4>1, SubSeqRecursiveFirst
      <4>3. SubSeq(chars, m + 1, m) = <<>>
        BY <4>1, SubSeqEmpty
      <4>4. <<chars[m]>> \in Seq(Characters)
        BY <4>1
      <4>5. <<chars[m]>> \o <<>> = <<chars[m]>>
        BY <4>4, ConcatEmptySeq
      <4> QED
        BY <4>2, <4>3, <4>5
    <3> QED
      BY <3>2 DEF m
  <2> QED
    BY <1>5, <1>7, <2>1 DEF Spells
<1> QED
  BY <1>4, <1>5, <1>6, <1>8, <1>9 DEF Covers

\* All words spell what is kept of their texts.
AllCover(toks, ws, txs, max) ==
    \A k \in DOMAIN ws : Covers(toks, ws[k], KeptOf(toks, txs[k]), max)

TextInv ==
    InLoop =>
      /\ texts \in Seq(Seq(Characters)) /\ Len(texts) = Len(words)
      /\ IsWords(words, counts, Voiced(idToWord))
      /\ StatsOver(stats, Voiced(idToWord), DOMAIN words)
      /\ AllCover(idToWord, words, texts, opts.max_len)

\* What is kept of a word is a sequence of characters.
LEMMA KeptTyped ==
    ASSUME NEW toks, NEW text \in Seq(Characters)
    PROVE  KeptOf(toks, text) \in Seq(Characters)
<1>1. PICK g : KeptRun(g, toks, text)
  BY KeptTrace
<1>2. Len(text) \in 0..Len(text)
  OBVIOUS
<1> QED
  BY <1>1, <1>2 DEF KeptRun

LEMMA CountPairsText ==
    ASSUME IInv, ListInv, CountPairs
    PROVE  TextInv'
<1>1. /\ pc = "count" /\ stats' = PairStats
      /\ UNCHANGED <<idToWord, words, counts, texts, opts>>
  BY DEF CountPairs
<1>2. /\ IsWords(words, counts, Ids)
      /\ texts \in Seq(Seq(Characters)) /\ Len(texts) = Len(words)
      /\ \A k \in DOMAIN words : MadeWord(idToWord, words[k], KeptOf(idToWord, texts[k]))
  BY <1>1 DEF IInv, PairsInv, ListInv
<1>3. ASSUME NEW k \in DOMAIN words
      PROVE  /\ words[k] \in WordsOver(Voiced(idToWord))
             /\ Covers(idToWord, words[k], KeptOf(idToWord, texts[k]), opts.max_len)
  <2>1. words[k] \in WordsOver(Ids) /\ DOMAIN words = 1..Len(words)
    BY <1>2, WordsFacts
  <2>2. texts[k] \in Seq(Characters)
    BY <1>2, <2>1
  <2>3. KeptOf(idToWord, texts[k]) \in Seq(Characters)
    BY <2>2, KeptTyped
  <2> QED
    BY <1>2, <2>1, <2>3, MadeCovers
<1>4. IsWords(words, counts, Voiced(idToWord))
  <2>1. Len(words) \in Nat /\ DOMAIN words = 1..Len(words) /\ counts \in Seq(Nat) /\ Len(counts) = Len(words)
    BY <1>2, WordsFacts DEF IsWords
  <2>2. words = [k \in 1..Len(words) |-> words[k]]
    <3>1. words \in Seq(WordsOver(Ids))
      BY <1>2 DEF IsWords
    <3> QED
      BY <3>1
  <2>3. words \in Seq(WordsOver(Voiced(idToWord)))
    BY <1>3, <2>1, <2>2
  <2> QED
    BY <2>1, <2>3 DEF IsWords
<1>5. StatsOver(PairStats, Voiced(idToWord), DOMAIN words)
  BY <1>4, PairStatsTyped
<1>6. AllCover(idToWord, words, texts, opts.max_len)
  BY <1>3 DEF AllCover
<1>7. AllCover(idToWord, words, texts, opts.max_len)'
  <2>1. \A toks, text : KeptOf(toks, text)' = KeptOf(toks, text)
    BY <1>1 DEF KeptOf, KeptAt, KeyAt
  <2> QED
    BY <1>1, <1>6, <2>1 DEF AllCover
<1> QED
  BY <1>1, <1>2, <1>4, <1>5, <1>7 DEF TextInv

\* A text of two characters or more is none of a single character.
LEMMA AddLonger ==
    ASSUME NEW U, NEW toks \in Vocabs(U), NEW key \in U, \A c : key # Char(c)
    PROVE  SameBare(AddToken(toks, key), toks)
<1>1. AddToken(toks, key) \in Vocabs(U) /\ Extends(AddToken(toks, key), toks)
  BY AddTokenFacts
<1>2. CASE KnownToken(toks, key)
  BY <1>2 DEF AddToken, SameBare
<1>3. CASE ~KnownToken(toks, key)
  <2> DEFINE new == Append(toks, key)
  <2>1. AddToken(toks, key) = new
    BY <1>3 DEF AddToken
  <2>2. toks \in Seq(U)
    BY DEF Vocabs
  <2>3. /\ Len(toks) \in Nat /\ DOMAIN toks = 1..Len(toks) /\ DOMAIN new = 1..(Len(toks) + 1)
        /\ \A k \in 1..Len(toks) : new[k] = toks[k]
        /\ new[Len(toks) + 1] = key
    BY <2>2, AppendProperties
  <2> HIDE DEF new
  <2>4. ASSUME NEW c PROVE KnownToken(new, Char(c)) <=> KnownToken(toks, Char(c))
    <3>1. key # Char(c)
      OBVIOUS
    <3>2. \A k \in 1..(Len(toks) + 1) : k \in 1..Len(toks) \/ k = Len(toks) + 1
      BY <2>3
    <3>3. 1..Len(toks) \subseteq 1..(Len(toks) + 1)
      BY <2>3
    <3> QED
      BY <2>3, <3>1, <3>2, <3>3 DEF KnownToken
  <2> QED
    BY <2>1, <2>4 DEF SameBare
<1> QED
  BY <1>2, <1>3

\* Two texts that are not empty make one of at least two characters.
LEMMA JoinedText ==
    ASSUME NEW s \in Seq(Nat), NEW t \in Seq(Nat), s # <<>>, t # <<>>
    PROVE  s \o t \in Seq(Nat) /\ s \o t # <<>> /\ \A c : s \o t # <<c>>
<1>1. Len(s) \in Nat \ {0} /\ Len(t) \in Nat \ {0}
  BY EmptySeq
<1> DEFINE u == s \o t
<1>2. u \in Seq(Nat) /\ Len(u) = Len(s) + Len(t)
  BY ConcatProperties
<1> HIDE DEF u
<1>4. Len(<<>>) = 0 /\ \A c : Len(<<c>>) = 1
  OBVIOUS
<1>5. Len(u) # 0 /\ Len(u) # 1
  BY <1>1, <1>2
<1>6. u # <<>> /\ \A c : u # <<c>>
  BY <1>4, <1>5, Zenon
<1> QED
  BY <1>2, <1>6 DEF u

\* What one merge makes of words and statistics over these ids.
LEMMA MergedOver ==
    ASSUME NEW ids, IsWords(words, counts, ids), StatsOver(stats, ids, DOMAIN words),
           NEW e, NEW order, NEW id \in ids, NEW merged, NEW moved,
           TopMerge(e, order, id, merged, moved), e.pair \in Pairs(ids),
           e.positions \in SUBSET DOMAIN words
    PROVE  IsWords(words', counts, ids) /\ StatsOver(stats', ids, DOMAIN words)
<1>1. /\ order \in SetToSeqs(e.positions)
      /\ merged = [w \in e.positions |-> MergeWord(words[w], e.pair, id, opts.max_len)]
      /\ words' = [w \in DOMAIN words |-> IF w \in e.positions THEN merged[w].word ELSE words[w]]
      /\ moved = Affected(merged, Slices(order))
      /\ stats' = NewStats(merged, Slices(order), moved, words')
  BY DEF TopMerge
<1>2. IsMerged(merged, e.positions, ids)
  <2>1. ASSUME NEW w \in e.positions
        PROVE  merged[w].word \in WordsOver(ids) /\ merged[w].changes \in Changes(ids)
    <3>1. words[w] \in WordsOver(ids)
      BY WordsFacts
    <3>2. merged[w] = MergeWord(words[w], e.pair, id, opts.max_len)
      BY <1>1
    <3> QED
      BY <3>1, <3>2, MergeWordTyped
  <2>2. DOMAIN merged = e.positions
    BY <1>1
  <2> QED
    BY <2>1, <2>2 DEF IsMerged
<1>3. IsWords(words', counts, ids)
  <2>1. \A k \in DOMAIN words : words'[k] \in WordsOver(ids)
    BY <1>1, <1>2, WordsFacts DEF IsMerged
  <2>2. DOMAIN words = 1..Len(words) /\ Len(words) \in Nat
    BY WordsFacts
  <2>3. words' = [k \in 1..Len(words) |-> words'[k]]
    BY <1>1, <2>2
  <2>4. words' \in Seq(WordsOver(ids)) /\ Len(words') = Len(words)
    BY <2>1, <2>2, <2>3
  <2>5. counts \in Seq(Nat) /\ Len(counts) = Len(words)
    BY DEF IsWords
  <2> QED
    BY <2>4, <2>5 DEF IsWords
<1>4. IsFiniteSet(e.positions) /\ order \in Seq(e.positions)
  <2>1. IsFiniteSet(e.positions)
    BY WordsFacts, FS_Subset
  <2> QED
    BY <1>1, <2>1, OrderFacts
<1>5. /\ IsFiniteSet(DOMAIN Slices(order))
      /\ \A t \in DOMAIN Slices(order) : Slices(order)[t] \subseteq e.positions
  BY <1>4, SlicesTyped
<1>6. moved \in SUBSET Pairs(ids)
  BY <1>1, <1>2, <1>5, AffectedTyped
<1>7. StatsOver(stats', ids, DOMAIN words)
  <2> DEFINE new == words'
  <2>1. stats' = NewStats(merged, Slices(order), moved, new)
    BY <1>1
  <2> HIDE DEF new
  <2>2. StatsOver(NewStats(merged, Slices(order), moved, new), ids, DOMAIN words)
    BY <1>2, <1>5, <1>6, NewStatsTyped
  <2> QED
    BY <2>1, <2>2
<1> QED
  BY <1>3, <1>7

\* Words over some ids spell the same in a larger vocabulary.
LEMMA GrowCovers ==
    ASSUME NEW ids, NEW w \in WordsOver(ids), NEW old, NEW new,
           \A i \in ids : new[i + 1] = old[i + 1],
           NEW chars, NEW max, Covers(old, w, chars, max)
    PROVE  Covers(new, w, chars, max)
<1>1. PICK n \in Nat : w \in WordsOfLength(ids, n)
  BY DEF WordsOver
<1>2. \A i \in Live(w) : w[i].c \in ids
  <2>1. \A i \in Live(w) : i \in 0..(n - 1)
    BY <1>1, SymbolTyped DEF Live
  <2> QED
    BY <1>1, <2>1, SymbolTyped
<1>3. \A i \in Live(w) : Spells(old, w, i, chars, max) => Spells(new, w, i, chars, max)
  BY <1>2 DEF Spells
<1> QED
  BY <1>3 DEF Covers

LEMMA MergeTopText ==
    ASSUME IInv, TextInv, MergeTop
    PROVE  TextInv'
<1>1. PICK e, order, id, merged, moved :
        TopMerge(e, order, id, merged, moved) /\ TopTyped(e, IdsOf(idToWord'), id, merged)
  BY MergeTopFacts
<1> DEFINE toks == idToWord'
           new == MergedToken(e.pair)
           max == opts.max_len
           heard == Voiced(idToWord)
           ids == Voiced(toks)
<1>2. /\ pc = "loop" /\ InLoop /\ UNCHANGED <<texts, opts, counts>>
      /\ toks = AddToken(idToWord, new)
      /\ merged = [w \in e.positions |-> MergeWord(words[w], e.pair, id, max)]
      /\ words' = [w \in DOMAIN words |-> IF w \in e.positions THEN merged[w].word ELSE words[w]]
  BY <1>1 DEF TopMerge, MergeTop, InLoop
<1>3. /\ e.pair \in DOMAIN stats /\ e.positions \in SUBSET DOMAIN words
      /\ e.pair \in Pairs(Ids) /\ id \in IdsOf(toks) /\ toks[id + 1] = new
      /\ Ids \subseteq IdsOf(toks) /\ \A i \in Ids : toks[i + 1] = idToWord[i + 1]
  BY <1>1 DEF TopTyped
<1>4. /\ texts \in Seq(Seq(Characters)) /\ Len(texts) = Len(words)
      /\ IsWords(words, counts, heard) /\ StatsOver(stats, heard, DOMAIN words)
      /\ AllCover(idToWord, words, texts, max)
  BY <1>2 DEF TextInv
<1>5. heard \subseteq ids /\ \A i \in heard : toks[i + 1] = idToWord[i + 1]
  BY <1>3 DEF Voiced, Ids, IdsOf
<1>6. e.pair \in Pairs(heard) /\ e.pair \in Pairs(ids)
  BY <1>3, <1>4, <1>5, GrowTyped DEF StatsOver
<1>7. new.text = idToWord[e.pair[1] + 1].text \o idToWord[e.pair[2] + 1].text
  BY DEF MergedToken
<1>8. new.text \in Seq(Nat) /\ new.text # <<>> /\ \A c : new.text # <<c>>
  <2> DEFINE s == idToWord[e.pair[1] + 1].text
             t == idToWord[e.pair[2] + 1].text
  <2>1. s \in Seq(Nat) /\ t \in Seq(Nat) /\ s # <<>> /\ t # <<>>
    BY <1>6 DEF Voiced, Pairs
  <2>2. new.text = s \o t
    BY <1>7
  <2> HIDE DEF s, t, new
  <2> QED
    BY <2>1, <2>2, JoinedText
<1>9. id \in ids
  BY <1>3, <1>8 DEF Voiced
<1>10. Joins(toks, e.pair, id)
  <2>1. e.pair[1] \in Ids /\ e.pair[2] \in Ids
    BY <1>3 DEF Pairs
  <2>2. toks[e.pair[1] + 1] = idToWord[e.pair[1] + 1] /\ toks[e.pair[2] + 1] = idToWord[e.pair[2] + 1]
    BY <1>3, <2>1
  <2>3. toks[id + 1].text = idToWord[e.pair[1] + 1].text \o idToWord[e.pair[2] + 1].text
    BY <1>3, <1>7
  <2> QED
    BY <2>2, <2>3 DEF Joins
<1>11. SameBare(toks, idToWord)
  <2> DEFINE U == ToSet(idToWord) \cup {new}
  <2>1. idToWord \in Vocabs(ToSet(idToWord))
    BY DEF IInv, IsVocab
  <2>2. idToWord \in Vocabs(U)
    <3>1. ToSet(idToWord) \subseteq U
      OBVIOUS
    <3> HIDE DEF U
    <3> QED
      BY <2>1, <3>1 DEF Vocabs
  <2>3. \A c : new # Char(c)
    BY <1>8 DEF Char
  <2>4. new \in U
    OBVIOUS
  <2> HIDE DEF U, new
  <2> QED
    BY <1>2, <2>2, <2>3, <2>4, AddLonger
<1> HIDE DEF toks, new, max, heard, ids
<1>12. IsWords(words, counts, ids) /\ StatsOver(stats, ids, DOMAIN words)
  BY <1>4, <1>5, GrowTyped
<1>13. IsWords(words', counts, ids) /\ StatsOver(stats', ids, DOMAIN words)
  BY <1>1, <1>3, <1>6, <1>9, <1>12, MergedOver
<1>14. DOMAIN words = 1..Len(words) /\ DOMAIN words' = DOMAIN words /\ Len(words') = Len(words)
  <2>1. DOMAIN words = 1..Len(words) /\ Len(words) \in Nat
    BY <1>12, WordsFacts
  <2>2. DOMAIN words' = 1..Len(words') /\ Len(words') \in Nat
    BY <1>13, WordsFacts
  <2>3. DOMAIN words' = DOMAIN words
    BY <1>2
  <2>4. \A a, b \in Nat : 1..a = 1..b => a = b
    <3> SUFFICES ASSUME NEW a \in Nat, NEW b \in Nat, a # b PROVE 1..a # 1..b
      OBVIOUS
    <3>1. (a > b => a \in 1..a /\ a \notin 1..b) /\ (b > a => b \in 1..b /\ b \notin 1..a)
      OBVIOUS
    <3>2. a > b \/ b > a
      OBVIOUS
    <3> QED
      BY <3>1, <3>2
  <2> QED
    BY <2>1, <2>2, <2>3, <2>4
<1>15. ASSUME NEW k \in DOMAIN words
       PROVE  Covers(toks, words'[k], KeptOf(toks, texts[k]), max)
  <2> DEFINE chars == KeptOf(idToWord, texts[k])
             w == words[k]
  <2>1. chars \in Seq(Characters)
    <3>1. texts[k] \in Seq(Characters)
      BY <1>4, <1>14
    <3> QED
      BY <3>1, KeptTyped
  <2>2. KeptOf(toks, texts[k]) = chars
    BY <1>11, SameKept
  <2>3. w \in WordsOver(heard) /\ w \in WordsOver(ids)
    BY <1>4, <1>12, WordsFacts
  <2>4. Covers(idToWord, w, chars, max)
    BY <1>4 DEF AllCover
  <2> HIDE DEF chars, w
  <2>5. Covers(toks, w, chars, max)
    BY <1>5, <2>3, <2>4, GrowCovers
  <2>6. max \in Int
    BY DEF IInv, IsOptions, Options, max
  <2>7. Covers(toks, MergeWord(w, e.pair, id, max).word, chars, max)
    BY <1>6, <1>9, <1>10, <2>1, <2>3, <2>5, <2>6, MergeWordCovers
  <2>8. words'[k] = IF k \in e.positions THEN MergeWord(w, e.pair, id, max).word ELSE w
    BY <1>2 DEF w
  <2> QED
    BY <2>2, <2>5, <2>7, <2>8
<1>16. AllCover(toks, words', texts, max)
  BY <1>14, <1>15 DEF AllCover
<1>17. AllCover(idToWord, words, texts, opts.max_len)'
  <2>1. \A t, text : KeptOf(t, text)' = KeptOf(t, text)
    BY <1>2 DEF KeptOf, KeptAt, KeyAt
  <2> QED
    BY <1>2, <1>16, <2>1 DEF AllCover, toks, max
<1> QED
  BY <1>2, <1>4, <1>13, <1>14, <1>17 DEF TextInv, toks, ids

\* Nothing a step leaves alone changes what the words spell.
LEMMA KeepText ==
    ASSUME TextInv, UNCHANGED <<opts, idToWord, words, counts, texts, stats>>, InLoop' => InLoop
    PROVE  TextInv'
<1>1. CASE InLoop
  <2>1. AllCover(idToWord, words, texts, opts.max_len)
    BY <1>1 DEF TextInv
  <2>2. \A t, text : KeptOf(t, text)' = KeptOf(t, text)
    BY DEF KeptOf, KeptAt, KeyAt
  <2>3. AllCover(idToWord, words, texts, opts.max_len)'
    BY <2>1, <2>2 DEF AllCover
  <2> QED
    BY <1>1, <2>3 DEF TextInv
<1>2. CASE ~InLoop
  BY <1>2 DEF TextInv
<1> QED
  BY <1>1, <1>2

TInv == CInv /\ TextInv

LEMMA NextText ==
    ASSUME TInv, [Next]_vars
    PROVE  TInv'
<1>0. CInv' /\ IInv /\ ListInv
  BY NextCounts DEF TInv, CInv
<1>1. CASE Feed \/ TrainEmpty \/ RefreshStale \/ StopLoop \/ UNCHANGED vars
  <2>1. UNCHANGED <<opts, idToWord, words, counts, texts, stats>> /\ (InLoop' => InLoop)
    BY <1>1 DEF Feed, TrainEmpty, RefreshStale, StopLoop, vars, loopVars, InLoop
  <2> QED
    BY <1>0, <2>1, KeepText DEF TInv
<1>2. CASE StartTrain \/ TokenizeWords \/ WriteBack
  <2>1. ~InLoop'
    BY <1>2 DEF StartTrain, TokenizeWords, WriteBack, InLoop
  <2> QED
    BY <1>0, <2>1 DEF TInv, TextInv
<1>3. CASE CountPairs
  BY <1>0, <1>3, CountPairsText DEF TInv
<1>4. CASE MergeTop
  BY <1>0, <1>4, MergeTopText DEF TInv
<1> QED
  BY <1>1, <1>2, <1>3, <1>4 DEF Next, TrainStep, Done

(***************************************************************************)
(* Throughout a training the live symbols of a word cover its characters,  *)
(* each spelling the ones from its place to the next symbol's.             *)
(***************************************************************************)
THEOREM TextInductive == Spec => []TInv
<1>1. Init => TInv
  <2>1. Init => ~InLoop
    BY DEF Init, InLoop
  <2> QED
    BY <2>1, InitCounts DEF TInv, TextInv
<1>2. TInv /\ [Next]_vars => TInv'
  BY NextText
<1> QED
  BY <1>1, <1>2, PTL DEF Spec

LEMMA InvText ==
    ASSUME TInv
    PROVE  WordsKeepText
<1> SUFFICES ASSUME InLoop, NEW k \in DOMAIN words
             PROVE  /\ Spelled(words[k]) = KeptText(texts[k])
                    /\ \A i \in Live(words[k]) :
                          HasRight(words[k], i) =>
                             /\ words[k][i].next \in Live(words[k])
                             /\ words[k][words[k][i].next].prev = i
                    /\ \A i \in Live(words[k]) :
                          words[k][i].len > opts.max_len => Len(idToWord[words[k][i].c + 1].text) = 1
  BY DEF WordsKeepText
<1> DEFINE w == words[k]
           chars == KeptOf(idToWord, texts[k])
<1>1. /\ texts \in Seq(Seq(Characters)) /\ Len(texts) = Len(words)
      /\ IsWords(words, counts, Voiced(idToWord))
      /\ Covers(idToWord, w, chars, opts.max_len)
  BY DEF TInv, TextInv, AllCover
<1>2. chars \in Seq(Characters)
  <2>1. DOMAIN words = 1..Len(words)
    BY <1>1, WordsFacts
  <2>2. texts[k] \in Seq(Characters)
    BY <1>1, <2>1
  <2> QED
    BY <2>2, KeptTyped
<1>3. Spelled(w) = SpelledBy(idToWord, w) /\ KeptText(texts[k]) = chars
  BY DEF Spelled, SpelledBy, At, KeptText, KeptOf, KeptAt
<1> HIDE DEF w, chars
<1>4. SpelledBy(idToWord, w) = chars
  BY <1>1, <1>2, CoversSpelled
<1>5. ASSUME NEW i \in Live(w), w[i].len > opts.max_len
      PROVE  Len(idToWord[w[i].c + 1].text) = 1
  <2> DEFINE n == Len(chars)
             m == i + 1
  <2>1. n \in Nat /\ DOMAIN w = 0..(n - 1) /\ Spells(idToWord, w, i, chars, opts.max_len)
    BY <1>1, <1>2, LenProperties DEF Covers
  <2>2. i \in 0..(n - 1)
    BY <2>1 DEF Live
  <2>3. idToWord[w[i].c + 1].text = SubSeq(chars, m, m)
    BY <1>5, <2>1 DEF Spells
  <2>4. m \in 1..n /\ m \in Int
    BY <2>1, <2>2
  <2> HIDE DEF m
  <2>5. \A j \in m..m : chars[j] \in Characters
    BY <1>2, <2>4
  <2>6. Len(SubSeq(chars, m, m)) = m - m + 1
    BY <2>4, <2>5, SubSeqProperties
  <2> QED
    BY <2>3, <2>4, <2>6
<1>6. \A i \in Live(w) : HasRight(w, i) => w[i].next \in Live(w) /\ w[w[i].next].prev = i
  BY <1>1 DEF Covers, Linked, HasRight
<1> QED
  BY <1>3, <1>4, <1>5, <1>6 DEF w

(***************************************************************************)
(* Merging never changes a word's text, for any words, options and merges: *)
(* the live symbols spell what limit_alphabet left of it, their list is    *)
(* linked both ways, and no symbol over max_token_length was merged.       *)
(***************************************************************************)
THEOREM TrainerKeepsText == Spec => []WordsKeepText
<1>1. TInv => WordsKeepText
  BY InvText
<1> QED
  BY TextInductive, <1>1, PTL

-------------------------------------------------------------------------------
(* The merge loop ends. *)

\* How often an element is in a bag, before and after one was taken out or put in.
Copies(x, b) == IF x \in DOMAIN b THEN b[x] ELSE 0

LEMMA CopiesPopped ==
    ASSUME NEW b, IsABag(b), NEW e \in DOMAIN b, NEW x
    PROVE  Copies(x, b (-) SetToBag({e})) = Copies(x, b) - Ind(x = e)
<1> DEFINE c == SetToBag({e})
           B == [y \in DOMAIN b |-> IF y \in DOMAIN c THEN b[y] - c[y] ELSE b[y]]
           D == {d \in DOMAIN B : B[d] > 0}
           r == [y \in D |-> B[y]]
<1>1. b (-) c = r
  BY DEF (-)
<1>2. DOMAIN c = {e} /\ c[e] = 1
  BY DEF SetToBag
<1>3. \A y \in DOMAIN b : b[y] \in Nat /\ b[y] > 0
  BY DEF IsABag
<1>4. DOMAIN B = DOMAIN b /\ \A y \in DOMAIN b : B[y] = b[y] - Ind(y = e)
  BY <1>2, <1>3 DEF Ind
<1> HIDE DEF B, c
<1>5. DOMAIN r = D /\ \A y \in D : r[y] = B[y]
  OBVIOUS
<1>6. D = {y \in DOMAIN b : B[y] > 0}
  BY <1>4
<1> HIDE DEF D, r
<1>7. Copies(x, r) = (IF x \in D THEN r[x] ELSE 0) /\ Copies(x, b) = (IF x \in DOMAIN b THEN b[x] ELSE 0)
  BY <1>5 DEF Copies
<1>8. CASE x \in DOMAIN b
  <2>1. B[x] = b[x] - Ind(x = e) /\ b[x] \in Nat /\ b[x] > 0 /\ Ind(x = e) \in 0..1
    BY <1>3, <1>4, <1>8 DEF Ind
  <2>2. x \in D <=> B[x] > 0
    BY <1>6, <1>8
  <2> QED
    BY <1>1, <1>5, <1>7, <1>8, <2>1, <2>2 DEF c
<1>9. CASE x \notin DOMAIN b
  <2>1. x \notin D /\ x # e
    BY <1>6, <1>9
  <2> QED
    BY <1>1, <1>7, <1>9, <2>1 DEF c, Ind
<1> QED
  BY <1>8, <1>9

LEMMA CopiesPushed ==
    ASSUME NEW b, IsABag(b), NEW e, NEW x
    PROVE  Copies(x, b (+) SetToBag({e})) = Copies(x, b) + Ind(x = e)
<1> DEFINE c == SetToBag({e})
           s == b (+) c
<1>1. DOMAIN c = {e} /\ c[e] = 1
  BY DEF SetToBag
<1>2. /\ DOMAIN s = DOMAIN b \cup DOMAIN c
      /\ \A y \in DOMAIN s :
           s[y] = (IF y \in DOMAIN b THEN b[y] ELSE 0) + (IF y \in DOMAIN c THEN c[y] ELSE 0)
  BY DEF (+)
<1>3. \A y \in DOMAIN b : b[y] \in Nat
  BY DEF IsABag
<1> HIDE DEF c, s
<1>4. /\ Copies(x, s) = (IF x \in DOMAIN s THEN s[x] ELSE 0)
      /\ Copies(x, b) = (IF x \in DOMAIN b THEN b[x] ELSE 0)
  BY DEF Copies
<1>5. Copies(x, s) = Copies(x, b) + Ind(x = e)
  BY <1>1, <1>2, <1>3, <1>4 DEF Ind
<1> QED
  BY <1>5 DEF s, c

\* How many of a bag's elements are in a set.
Weight(b, W) == SumFunction([x \in DOMAIN b |-> IF x \in W THEN b[x] ELSE 0])

\* The same count, taken over a larger set.
Padded(b, W, U) == [x \in U |-> IF x \in W THEN Copies(x, b) ELSE 0]

LEMMA WeightPadded ==
    ASSUME NEW b, IsABag(b), NEW W, NEW U, IsFiniteSet(U), DOMAIN b \subseteq U
    PROVE  Padded(b, W, U) \in [U -> Int] /\ Weight(b, W) = SumFunction(Padded(b, W, U))
<1> DEFINE f == Padded(b, W, U)
           g == [x \in DOMAIN b |-> IF x \in W THEN b[x] ELSE 0]
<1>1. \A x \in DOMAIN b : b[x] \in Nat
  BY DEF IsABag
<1>2. \A x : Copies(x, b) = IF x \in DOMAIN b THEN b[x] ELSE 0
  BY DEF Copies
<1>3. f \in [U -> Int] /\ g \in [DOMAIN b -> Int]
  BY <1>1, <1>2 DEF Padded
<1>4. (\A x \in U \ DOMAIN b : f[x] = 0) /\ \A x \in DOMAIN b : f[x] = g[x]
  BY <1>2 DEF Padded
<1>5. Weight(b, W) = SumFunction(g)
  BY DEF Weight
<1> HIDE DEF f, g
<1>6. ZeroOutside(f, U, g, DOMAIN b)
  BY <1>3, <1>4 DEF ZeroOutside
<1>7. SumFunction(f) = SumFunction(g)
  BY <1>6, SumWithin
<1> QED
  BY <1>3, <1>5, <1>7 DEF f

\* Bag c has one copy of e more than bag b.
OneMore(c, b, e) == \A x : Copies(x, c) = Copies(x, b) + Ind(x = e)

\* One element more weighs one more, if it counts at all.
LEMMA WeightMore ==
    ASSUME NEW b, IsABag(b), NEW c, IsABag(c), NEW W, NEW e, NEW U, IsFiniteSet(U),
           DOMAIN b \subseteq U, DOMAIN c \subseteq U, e \in U, OneMore(c, b, e)
    PROVE  Weight(b, W) \in Int /\ Weight(c, W) = Weight(b, W) + Ind(e \in W)
<1> DEFINE f == Padded(b, W, U)
           g == Padded(c, W, U)
           one == [x \in {e} |-> Ind(e \in W)]
           all == [x \in U |-> IF x = e THEN Ind(e \in W) ELSE 0]
<1>1. f \in [U -> Int] /\ Weight(b, W) = SumFunction(f)
  BY WeightPadded
<1>2. g \in [U -> Int] /\ Weight(c, W) = SumFunction(g)
  BY WeightPadded
<1>3. Ind(e \in W) \in Int
  BY DEF Ind
<1>4. one \in [{e} -> Int] /\ all \in [U -> Int]
  BY <1>3
<1>5. ASSUME NEW x \in U PROVE g[x] = f[x] + all[x]
  <2>1. f[x] = (IF x \in W THEN Copies(x, b) ELSE 0) /\ g[x] = (IF x \in W THEN Copies(x, c) ELSE 0)
    BY DEF Padded
  <2>2. all[x] = IF x = e THEN Ind(e \in W) ELSE 0
    OBVIOUS
  <2>3. Copies(x, c) = Copies(x, b) + Ind(x = e)
    BY DEF OneMore
  <2>4. f[x] \in Int /\ g[x] \in Int
    BY <1>1, <1>2
  <2> HIDE DEF f, g, all
  <2>5. CASE x = e /\ x \in W
    BY <2>1, <2>2, <2>3, <2>5 DEF Ind
  <2>6. CASE x = e /\ x \notin W
    BY <2>1, <2>2, <2>6 DEF Ind
  <2>7. CASE x # e
    BY <2>1, <2>2, <2>3, <2>4, <2>7 DEF Ind
  <2> QED
    BY <2>5, <2>6, <2>7
<1>6. SumFunction(all) = Ind(e \in W)
  <2>1. (\A x \in U \ {e} : all[x] = 0) /\ (\A x \in {e} : all[x] = one[x]) /\ {e} \in SUBSET U
    OBVIOUS
  <2>2. one[e] = Ind(e \in W)
    OBVIOUS
  <2> HIDE DEF all, one
  <2>3. ZeroOutside(all, U, one, {e})
    BY <1>4, <2>1 DEF ZeroOutside
  <2>4. SumFunction(all) = SumFunction(one)
    BY <2>3, SumWithin
  <2>5. SumFunction(one) = one[e]
    BY <1>4, SumSingle
  <2> QED
    BY <2>2, <2>4, <2>5
<1> HIDE DEF f, g, all, one
<1>7. SumFunction(g) = SumFunction(f) + SumFunction(all)
  <2>1. all \in [U -> Int]
    BY <1>4
  <2> QED
    BY <1>1, <1>2, <1>5, <2>1, SumPlus
<1>8. SumFunction(f) \in Int
  BY <1>1, SumInt
<1> QED
  BY <1>1, <1>2, <1>6, <1>7, <1>8

LEMMA WeightPopped ==
    ASSUME NEW b, IsABag(b), IsFiniteSet(DOMAIN b), NEW e \in DOMAIN b, NEW W
    PROVE  LET r == b (-) SetToBag({e})
           IN /\ IsABag(r) /\ DOMAIN r \subseteq DOMAIN b
              /\ Weight(r, W) \in Int
              /\ Weight(b, W) = Weight(r, W) + Ind(e \in W)
<1> DEFINE r == b (-) SetToBag({e})
<1>1. IsABag(SetToBag({e}))
  BY SetBag
<1>2. IsABag(r) /\ DOMAIN r \subseteq DOMAIN b
  BY <1>1, BagRest
<1>3. ASSUME NEW x PROVE Copies(x, b) = Copies(x, r) + Ind(x = e)
  <2>1. Copies(x, b) \in Int
    BY DEF Copies, IsABag
  <2>2. Copies(x, r) = Copies(x, b) - Ind(x = e)
    BY CopiesPopped
  <2> HIDE DEF r
  <2> QED
    BY <2>1, <2>2 DEF Ind
<1> HIDE DEF r
<1>4. OneMore(b, r, e)
  BY <1>3 DEF OneMore
<1>5. Weight(r, W) \in Int /\ Weight(b, W) = Weight(r, W) + Ind(e \in W)
  BY <1>2, <1>4, WeightMore
<1> QED
  BY <1>2, <1>5 DEF r

LEMMA WeightPushed ==
    ASSUME NEW b, IsABag(b), IsFiniteSet(DOMAIN b), NEW e, NEW W
    PROVE  LET s == b (+) SetToBag({e})
           IN IsABag(s) /\ Weight(b, W) \in Int /\ Weight(s, W) = Weight(b, W) + Ind(e \in W)
<1> DEFINE s == b (+) SetToBag({e})
<1>1. IsABag(SetToBag({e})) /\ DOMAIN SetToBag({e}) = {e}
  BY SetBag
<1>2. IsABag(s) /\ DOMAIN s = DOMAIN b \cup {e}
  BY <1>1, BagSum
<1>3. \A x : Copies(x, s) = Copies(x, b) + Ind(x = e)
  BY CopiesPushed
<1> HIDE DEF s
<1>4. IsFiniteSet(DOMAIN s) /\ e \in DOMAIN s /\ DOMAIN b \subseteq DOMAIN s
  BY <1>2, FS_AddElement
<1>5. OneMore(s, b, e)
  BY <1>3 DEF OneMore
<1>6. Weight(b, W) \in Int /\ Weight(s, W) = Weight(b, W) + Ind(e \in W)
  BY <1>2, <1>4, <1>5, WeightMore
<1> QED
  BY <1>2, <1>6 DEF s

\* The size of a bag, as a weight.
LEMMA WholeWeight ==
    ASSUME NEW b, IsABag(b)
    PROVE  SumFunction(b) = Weight(b, DOMAIN b)
<1>1. b = [x \in DOMAIN b |-> b[x]]
  BY DEF IsABag
<1>2. [x \in DOMAIN b |-> IF x \in DOMAIN b THEN b[x] ELSE 0] = b
  BY <1>1
<1> QED
  BY <1>2 DEF Weight

\* A weight only depends on which of the elements count.
LEMMA WeightAgree ==
    ASSUME NEW b, NEW V, NEW W, V \cap DOMAIN b = W \cap DOMAIN b
    PROVE  Weight(b, V) = Weight(b, W)
<1>1. [x \in DOMAIN b |-> IF x \in V THEN b[x] ELSE 0] = [x \in DOMAIN b |-> IF x \in W THEN b[x] ELSE 0]
  OBVIOUS
<1> QED
  BY <1>1 DEF Weight

\* A pair that matches is merged, and leaves fewer live symbols; a word it does
\* not match in stays as it is.
Shrunk(ids, n, w) ==
    {a \in Merging(ids, n) :
       /\ Linked(a.word)
       /\ \/ a.word = w /\ a.changes = <<>>
          \/ Cardinality(Live(a.word)) < Cardinality(Live(w))}

LEMMA LiveFinite ==
    ASSUME NEW ids, NEW n \in Nat, NEW w \in WordsOfLength(ids, n)
    PROVE  IsFiniteSet(Live(w)) /\ Cardinality(Live(w)) \in Nat
<1>1. Live(w) \subseteq 0..(n - 1)
  BY SymbolTyped DEF Live
<1>2. IsFiniteSet(0..(n - 1))
  BY FS_Interval
<1>3. IsFiniteSet(Live(w))
  BY <1>1, <1>2, FS_Subset
<1> QED
  BY <1>3, FS_CardinalityType

LEMMA MergeStepShrinks ==
    ASSUME NEW ids, NEW n \in Nat, NEW w \in WordsOfLength(ids, n), NEW p \in Pairs(ids),
           NEW r \in ids, NEW i \in 0..(n - 1), NEW max, NEW a \in Shrunk(ids, n, w)
    PROVE  MergeStep(a, i, p, r, max) \in Shrunk(ids, n, w)
<1> DEFINE b == MergeStep(a, i, p, r, max)
<1>1. a \in Merging(ids, n) /\ Linked(a.word)
  BY DEF Shrunk
<1>2. CASE ~Matches(a.word, i, p, max)
  BY <1>2 DEF MergeStep
<1>3. CASE Matches(a.word, i, p, max)
  <2> DEFINE u == a.word
             v == AbsorbRight(u, i, r)
  <2>1. u \in WordsOfLength(ids, n) /\ Linked(u)
    BY <1>1 DEF Merging
  <2>2. i \in Live(u) /\ u[i].next # NoSym
    BY <1>3 DEF Matches, HasRight
  <2>3. b = [word |-> v, changes |-> a.changes \o ChangesAt(u, i, p, r)]
    BY <1>3 DEF MergeStep
  <2>4. b \in Merging(ids, n)
    BY <1>1, MergeStepTyped
  <2>5. Cardinality(Live(u)) <= Cardinality(Live(w))
    <3>1. Cardinality(Live(w)) \in Nat /\ Cardinality(Live(u)) \in Nat
      BY <2>1, LiveFinite
    <3>2. u = w \/ Cardinality(Live(u)) < Cardinality(Live(w))
      BY DEF Shrunk
    <3> QED
      BY <3>1, <3>2
  <2> HIDE DEF b, u, v
  <2>6. b.word = v
    BY <2>3
  <2>7. v \in WordsOfLength(ids, n) /\ Linked(v)
    <3>1. v \in WordsOfLength(ids, n)
      BY <2>4, <2>6 DEF Merging
    <3> QED
      BY <2>1, <2>2, <3>1, AbsorbLinked DEF v
  <2>8. Cardinality(Live(v)) < Cardinality(Live(w))
    <3> DEFINE j == u[i].next
    <3>1. j \in Live(u) /\ Live(v) = Live(u) \ {j}
      BY <2>1, <2>2, Absorbed DEF v
    <3>2. Cardinality(Live(u)) = Cardinality(Live(v)) + 1
      <4>1. IsFiniteSet(Live(u))
        BY <2>1, LiveFinite
      <4>2. Ind(j \in Live(u)) = 1
        BY <3>1 DEF Ind
      <4> HIDE DEF j
      <4> QED
        BY <3>1, <4>1, <4>2, SizeWithout
    <3>3. /\ Cardinality(Live(w)) \in Nat /\ Cardinality(Live(u)) \in Nat
          /\ Cardinality(Live(v)) \in Nat
      BY <2>1, <2>7, LiveFinite
    <3> QED
      BY <2>5, <3>2, <3>3
  <2>9. b \in Shrunk(ids, n, w)
    BY <2>4, <2>6, <2>7, <2>8 DEF Shrunk
  <2> QED
    BY <2>9 DEF b
<1> QED
  BY <1>2, <1>3

LEMMA MergeWordShrinks ==
    ASSUME NEW ids, NEW w \in WordsOver(ids), Linked(w),
           NEW p \in Pairs(ids), NEW r \in ids, NEW max
    PROVE  LET a == MergeWord(w, p, r, max)
           IN /\ Cardinality(Live(w)) \in Nat /\ Cardinality(Live(a.word)) \in Nat
              /\ \/ a.word = w /\ a.changes = <<>>
                 \/ Cardinality(Live(a.word)) < Cardinality(Live(w))
<1>1. PICK n \in Nat : w \in WordsOfLength(ids, n)
  BY DEF WordsOver
<1> DEFINE V == Shrunk(ids, n, w)
<1>2. Cardinality(DOMAIN w) = n
  BY <1>1, SymbolTyped, WordSize
<1>3. [word |-> w, changes |-> <<>>] \in V
  <2> DEFINE a == [word |-> w, changes |-> <<>>]
  <2>1. <<>> \in Changes(ids)
    BY DEF Changes
  <2>2. a \in Merging(ids, n) /\ a.word = w /\ a.changes = <<>>
    BY <1>1, <2>1 DEF Merging
  <2> QED
    BY <2>2 DEF Shrunk
<1>4. \A a \in V, k \in 1..n : MergeStep(a, k - 1, p, r, max) \in V
  <2>1. \A k \in 1..n : k - 1 \in 0..(n - 1)
    OBVIOUS
  <2> QED
    BY <1>1, <2>1, MergeStepShrinks
<1> HIDE DEF V
<1>5. PICK f : MergeWordRun(f, V, n, w, p, r, max)
  BY <1>2, <1>3, <1>4, MergeWordTrace
<1> DEFINE a == MergeWord(w, p, r, max)
<1>6. a \in V
  <2>1. n \in 0..n
    OBVIOUS
  <2> QED
    BY <1>5, <2>1 DEF MergeWordRun
<1> HIDE DEF a
<1>7. a.word \in WordsOfLength(ids, n)
  BY <1>6 DEF V, Shrunk, Merging
<1>8. (a.word = w /\ a.changes = <<>>) \/ Cardinality(Live(a.word)) < Cardinality(Live(w))
  BY <1>6 DEF V, Shrunk
<1>9. Cardinality(Live(w)) \in Nat /\ Cardinality(Live(a.word)) \in Nat
  BY <1>1, <1>7, LiveFinite
<1> QED
  BY <1>8, <1>9 DEF a

\* A sum of integers falls when no summand grows and one falls.
LEMMA SumFalls ==
    ASSUME NEW S, IsFiniteSet(S), NEW f \in [S -> Int], NEW g \in [S -> Int],
           \A x \in S : g[x] <= f[x], NEW x \in S, g[x] < f[x]
    PROVE  SumFunction(g) < SumFunction(f)
<1> DEFINE h == [y \in S |-> f[y] - g[y]]
<1>1. h \in [S -> Int] /\ \A y \in S : f[y] = g[y] + h[y] /\ h[y] >= 0
  OBVIOUS
<1>2. h[x] > 0
  OBVIOUS
<1> HIDE DEF h
<1>3. SumFunction(f) = SumFunction(g) + SumFunction(h)
  BY <1>1, SumPlus
<1>4. h[x] <= SumFunction(h)
  BY <1>1, SumTerm
<1>5. SumFunction(g) \in Int /\ SumFunction(h) \in Int /\ h[x] \in Int
  BY <1>1, SumInt
<1> QED
  BY <1>2, <1>3, <1>4, <1>5

\* The live symbols of some words.
LiveOf(ws) == SumFunction([w \in DOMAIN ws |-> Cardinality(Live(ws[w]))])

\* Merging a pair takes live symbols away, unless it changes nothing.
LEMMA MergedShrinks ==
    ASSUME NEW ids, IsWords(words, counts, ids), AllLinked(words),
           NEW p \in Pairs(ids), NEW r \in ids, NEW max, NEW places \in SUBSET DOMAIN words,
           NEW merged, NEW newWords, MergedInto(newWords, merged, places, p, r, max)
    PROVE  \/ LiveOf(newWords) < LiveOf(words)
           \/ /\ LiveOf(newWords) = LiveOf(words)
              /\ \A w \in places : merged[w].changes = <<>>
<1>0. /\ merged = [w \in places |-> MergeWord(words[w], p, r, max)]
      /\ newWords = [w \in DOMAIN words |-> IF w \in places THEN merged[w].word ELSE words[w]]
  BY DEF MergedInto
<1> DEFINE f == [w \in DOMAIN words |-> Cardinality(Live(words[w]))]
           g == [w \in DOMAIN words |-> Cardinality(Live(newWords[w]))]
<1>1. ASSUME NEW w \in DOMAIN words
      PROVE  words[w] \in WordsOver(ids) /\ Linked(words[w])
  BY WordsFacts DEF AllLinked
<1>2. ASSUME NEW w \in places
      PROVE  /\ Cardinality(Live(words[w])) \in Nat /\ Cardinality(Live(merged[w].word)) \in Nat
             /\ \/ merged[w].word = words[w] /\ merged[w].changes = <<>>
                \/ Cardinality(Live(merged[w].word)) < Cardinality(Live(words[w]))
  <2>1. merged[w] = MergeWord(words[w], p, r, max)
    BY <1>0
  <2>2. words[w] \in WordsOver(ids) /\ Linked(words[w])
    BY <1>1
  <2> QED
    BY <2>1, <2>2, MergeWordShrinks
<1>3. ASSUME NEW w \in DOMAIN words
      PROVE  f[w] \in Int /\ g[w] \in Int /\ g[w] <= f[w]
  <2>1. Cardinality(Live(words[w])) \in Nat
    <3>1. PICK n \in Nat : words[w] \in WordsOfLength(ids, n)
      BY <1>1 DEF WordsOver
    <3> QED
      BY <3>1, LiveFinite
  <2>2. CASE w \in places
    <3>1. newWords[w] = merged[w].word
      BY <1>0, <2>2
    <3>2. Cardinality(Live(merged[w].word)) \in Nat
      BY <1>2, <2>2
    <3>3. merged[w].word = words[w] \/ Cardinality(Live(merged[w].word)) < Cardinality(Live(words[w]))
      BY <1>2, <2>2
    <3> QED
      BY <2>1, <3>1, <3>2, <3>3
  <2>3. CASE w \notin places
    <3>1. newWords[w] = words[w]
      BY <1>0, <2>3
    <3> QED
      BY <2>1, <3>1
  <2> QED
    BY <2>2, <2>3
<1>4. f \in [DOMAIN words -> Int] /\ g \in [DOMAIN words -> Int] /\ IsFiniteSet(DOMAIN words)
  BY <1>3, WordsFacts
<1>5. LiveOf(words) = SumFunction(f) /\ LiveOf(newWords) = SumFunction(g)
  <2>1. DOMAIN newWords = DOMAIN words
    BY <1>0
  <2> QED
    BY <2>1 DEF LiveOf
<1>6. CASE \E w \in places : ~(merged[w].word = words[w] /\ merged[w].changes = <<>>)
  <2>1. PICK w \in places : ~(merged[w].word = words[w] /\ merged[w].changes = <<>>)
    BY <1>6
  <2>2. newWords[w] = merged[w].word
    BY <1>0
  <2>3. w \in DOMAIN words /\ g[w] < f[w]
    BY <1>2, <2>1, <2>2
  <2> HIDE DEF f, g
  <2>4. SumFunction(g) < SumFunction(f)
    BY <1>3, <1>4, <2>3, SumFalls
  <2> QED
    BY <1>5, <2>4
<1>7. CASE \A w \in places : merged[w].word = words[w] /\ merged[w].changes = <<>>
  <2>1. newWords = words
    <3>1. ASSUME NEW w \in DOMAIN words PROVE newWords[w] = words[w]
      <4>1. CASE w \in places
        <5>1. merged[w].word = words[w]
          BY <1>7, <4>1
        <5> QED
          BY <1>0, <4>1, <5>1
      <4>2. CASE w \notin places
        BY <1>0, <4>2
      <4> QED
        BY <4>1, <4>2
    <3>2. words = [w \in DOMAIN words |-> words[w]]
      BY DEF IsWords
    <3> QED
      BY <1>0, <3>1, <3>2
  <2>2. \A w \in places : merged[w].changes = <<>>
    <3>1. ASSUME NEW w \in places PROVE merged[w].changes = <<>>
      BY <1>7
    <3> QED
      BY <3>1
  <2> QED
    BY <2>1, <2>2
<1> QED
  BY <1>6, <1>7

\* Nothing is affected when no word changed.
LEMMA NothingAffected ==
    ASSUME NEW ids, IsWords(words, counts, ids), NEW merged, NEW places \in SUBSET DOMAIN words,
           IsMerged(merged, places, ids), \A w \in places : merged[w].changes = <<>>,
           NEW slices, \A t \in DOMAIN slices : slices[t] \subseteq places
    PROVE  Affected(merged, slices) = {}
<1>1. ASSUME NEW p \in Affected(merged, slices) PROVE FALSE
  <2>1. PICK t \in DOMAIN slices : p \in UNION {ChangedPairs(merged[w].changes) : w \in slices[t]}
    BY DEF Affected
  <2>2. PICK w \in slices[t] : p \in ChangedPairs(merged[w].changes)
    BY <2>1
  <2>3. merged[w].changes = <<>>
    OBVIOUS
  <2> QED
    BY <2>2, <2>3 DEF ChangedPairs
<1> QED
  BY <1>1

\* No entries, no change of the heap.
LEMMA NoEntries ==
    ASSUME NEW st, NEW b, IsABag(b)
    PROVE  b (+) Entries(st, {}) = b
<1> DEFINE c == SetToBag({})
<1>1. Entries(st, {}) = c
  <2>1. {Entry(p, st[p]) : p \in {q \in {} : st[q].count > 0}} = {}
    OBVIOUS
  <2> QED
    BY <2>1 DEF Entries
<1>2. DOMAIN c = {}
  BY SetBag
<1>3. b = [x \in DOMAIN b |-> b[x]] /\ \A x \in DOMAIN b : b[x] \in Nat
  BY DEF IsABag
<1> HIDE DEF c
<1>4. b (+) c = [x \in DOMAIN b |-> b[x] + 0]
  BY <1>2 DEF (+)
<1>5. [x \in DOMAIN b |-> b[x] + 0] = [x \in DOMAIN b |-> b[x]]
  BY <1>3
<1> QED
  BY <1>1, <1>3, <1>4, <1>5

\* The heap has finitely many entries.
HeapFinite == IsFiniteSet(DOMAIN heap)

LEMMA PairsFinite ==
    ASSUME NEW toks, Len(toks) \in Nat
    PROVE  IsFiniteSet(Pairs(IdsOf(toks)))
<1>1. IsFiniteSet(IdsOf(toks))
  BY FS_Interval DEF IdsOf
<1> QED
  BY <1>1, FS_Product DEF Pairs

LEMMA EntriesFinite ==
    ASSUME NEW st, NEW ps, IsFiniteSet(ps)
    PROVE  \E S : IsFiniteSet(S) /\ Entries(st, ps) = SetToBag(S)
<1> DEFINE qs == {q \in ps : st[q].count > 0}
           f == [p \in qs |-> Entry(p, st[p])]
           S == {f[p] : p \in qs}
<1>1. IsFiniteSet(qs)
  BY FS_Subset
<1>2. S = {Entry(p, st[p]) : p \in qs} /\ f \in [qs -> S]
  OBVIOUS
<1>3. Entries(st, ps) = SetToBag(S)
  BY <1>2 DEF Entries
<1> HIDE DEF qs, f
<1>4. f \in Surjection(qs, S)
  BY <1>2 DEF Surjection
<1>5. IsFiniteSet(S)
  BY <1>1, <1>4, FS_Surjection
<1> QED
  BY <1>3, <1>5

LEMMA InitFinite == Init => HeapFinite
<1> SUFFICES ASSUME Init PROVE HeapFinite
  OBVIOUS
<1>1. DOMAIN heap = {}
  BY EmptyBagFacts DEF Init
<1> QED
  BY <1>1, FS_EmptySet DEF HeapFinite

LEMMA CountPairsFinite ==
    ASSUME IInv, CountPairs
    PROVE  HeapFinite'
<1>1. heap' = Entries(PairStats, DOMAIN PairStats)
  BY DEF CountPairs
<1>2. StatsOver(PairStats, Ids, DOMAIN words)
  BY PairStatsTyped DEF IInv, PairsInv
<1>3. IsFiniteSet(Pairs(Ids))
  <2>1. Len(idToWord) \in Nat
    BY DEF IInv, IsVocab, Vocabs
  <2> QED
    BY <2>1, PairsFinite DEF Ids, IdsOf
<1>4. DOMAIN PairStats \subseteq Pairs(Ids)
  BY <1>2 DEF StatsOver
<1>5. IsFiniteSet(DOMAIN PairStats)
  BY <1>3, <1>4, FS_Subset
<1>6. PICK S : IsFiniteSet(S) /\ Entries(PairStats, DOMAIN PairStats) = SetToBag(S)
  BY <1>5, EntriesFinite
<1>7. DOMAIN heap' = S
  BY <1>1, <1>6, SetBag
<1> QED
  BY <1>6, <1>7 DEF HeapFinite

LEMMA MergeTopFinite ==
    ASSUME IInv, IInv', HeapFinite, MergeTop
    PROVE  HeapFinite'
<1>1. PICK e, order, id, merged, moved :
        TopMerge(e, order, id, merged, moved) /\ TopTyped(e, IdsOf(idToWord'), id, merged)
  BY MergeTopFacts
<1>2. /\ stats' = NewStats(merged, Slices(order), moved, words')
      /\ heap' = (heap (-) SetToBag({e})) (+) Entries(stats', moved)
  BY <1>1 DEF TopMerge
<1>3. StatsOver(stats', Ids', DOMAIN words') /\ IsABag(heap)
  BY DEF IInv, PairsInv, HeapOver
<1>4. IsFiniteSet(Pairs(Ids'))
  <2>1. Len(idToWord') \in Nat
    BY DEF IInv, IsVocab, Vocabs
  <2> QED
    BY <2>1, PairsFinite DEF Ids, IdsOf
<1>5. moved \subseteq Pairs(Ids')
  <2>1. DOMAIN stats' = DOMAIN stats \cup moved
    BY <1>2 DEF NewStats
  <2> QED
    BY <1>3, <2>1 DEF StatsOver
<1>6. IsFiniteSet(moved)
  BY <1>4, <1>5, FS_Subset
<1>7. PICK S : IsFiniteSet(S) /\ Entries(stats', moved) = SetToBag(S)
  BY <1>6, EntriesFinite
<1>8. DOMAIN heap' \subseteq DOMAIN heap \cup S
  <2>1. Exchanged(heap', heap, e, S)
    BY <1>2, <1>7 DEF Exchanged
  <2> QED
    BY <1>3, <2>1, HeapAfter
<1>9. IsFiniteSet(DOMAIN heap \cup S)
  BY <1>7, FS_Union DEF HeapFinite
<1> QED
  BY <1>8, <1>9, FS_Subset DEF HeapFinite

LEMMA NextFinite ==
    ASSUME IInv, IInv', HeapFinite, [Next]_vars
    PROVE  HeapFinite'
<1>1. CASE heap' = heap
  BY <1>1 DEF HeapFinite
<1>2. CASE CountPairs
  BY <1>2, CountPairsFinite
<1>3. CASE MergeTop
  BY <1>3, MergeTopFinite
<1>4. CASE RefreshStale
  <2>1. PICK e \in Tops :
          heap' = (heap (-) SetToBag({e})) (+) SetToBag({Entry(e.pair, stats[e.pair])})
    BY <1>4 DEF RefreshStale
  <2> DEFINE g == Entry(e.pair, stats[e.pair])
  <2>2. Exchanged(heap', heap, e, {g})
    BY <2>1 DEF Exchanged
  <2> HIDE DEF g
  <2>3. IsABag(heap)
    BY DEF IInv, PairsInv, HeapOver
  <2>4. DOMAIN heap' \subseteq DOMAIN heap \cup {g}
    BY <2>2, <2>3, HeapAfter
  <2>5. IsFiniteSet(DOMAIN heap \cup {g})
    BY FS_AddElement DEF HeapFinite
  <2> QED
    BY <2>4, <2>5, FS_Subset DEF HeapFinite
<1>5. CASE WriteBack
  <2>1. heap' = EmptyBag
    BY <1>5 DEF WriteBack
  <2>2. DOMAIN heap' = {}
    BY <2>1, EmptyBagFacts
  <2> QED
    BY <2>2, FS_EmptySet DEF HeapFinite
<1>6. Feed \/ TrainEmpty \/ StartTrain \/ TokenizeWords \/ StopLoop \/ UNCHANGED vars => heap' = heap
  BY DEF Feed, TrainEmpty, StartTrain, TokenizeWords, StopLoop, vars, loopVars
<1> QED
  BY <1>1, <1>2, <1>3, <1>4, <1>5, <1>6 DEF Next, TrainStep, Done

\* Refreshing an entry leaves one stale entry less.
LEMMA RefreshStaleDecreases ==
    ASSUME IInv, HeapFinite, RefreshStale
    PROVE  LiveSymbols' = LiveSymbols /\ HeapSize' = HeapSize /\ StaleEntries' < StaleEntries
<1>1. UNCHANGED <<words, stats>>
  BY DEF RefreshStale
<1>2. PICK e \in Tops :
        Stale(e) /\ heap' = (heap (-) SetToBag({e})) (+) SetToBag({Entry(e.pair, stats[e.pair])})
  BY DEF RefreshStale
<1> DEFINE g == Entry(e.pair, stats[e.pair])
           r == heap (-) SetToBag({e})
           old == {f \in DOMAIN heap \cup {g} : Stale(f)}
           all == DOMAIN heap \cup {g}
<1>3. IsABag(heap) /\ e \in DOMAIN heap
  BY DEF IInv, PairsInv, HeapOver, Tops
<1>4. ~Stale(g)
  BY EntryCount DEF Stale
<1>5. heap' = r (+) SetToBag({g})
  BY <1>2
<1>6. LiveSymbols' = LiveSymbols
  BY <1>1 DEF LiveSymbols
<1> HIDE DEF g
<1>7. DOMAIN heap' \subseteq all
  <2>1. Exchanged(heap', heap, e, {g})
    BY <1>5 DEF Exchanged
  <2> QED
    BY <1>3, <2>1, HeapAfter
<1>8. ASSUME NEW W
      PROVE  /\ Weight(heap, W) \in Int /\ IsABag(heap')
             /\ Weight(heap', W) = Weight(heap, W) - Ind(e \in W) + Ind(g \in W)
  <2>1. /\ IsABag(r) /\ DOMAIN r \subseteq DOMAIN heap
        /\ Weight(r, W) \in Int /\ Weight(heap, W) = Weight(r, W) + Ind(e \in W)
    BY <1>3, WeightPopped DEF HeapFinite
  <2> HIDE DEF r
  <2>2. IsFiniteSet(DOMAIN r)
    BY <2>1, FS_Subset DEF HeapFinite
  <2>3. IsABag(heap') /\ Weight(heap', W) = Weight(r, W) + Ind(g \in W)
    BY <1>5, <2>1, <2>2, WeightPushed
  <2> QED
    BY <2>1, <2>3 DEF Ind
<1>9. IsABag(heap')
  BY <1>8
<1>10. HeapSize' = HeapSize
  <2>1. HeapSize = Weight(heap, all)
    <3>1. HeapSize = Weight(heap, DOMAIN heap)
      BY <1>3, WholeWeight DEF HeapSize
    <3>2. Weight(heap, DOMAIN heap) = Weight(heap, all)
      BY WeightAgree
    <3> QED
      BY <3>1, <3>2
  <2>2. HeapSize' = Weight(heap', all)
    <3>1. HeapSize' = Weight(heap', DOMAIN heap')
      BY <1>9, WholeWeight DEF HeapSize
    <3>2. Weight(heap', DOMAIN heap') = Weight(heap', all)
      BY <1>7, WeightAgree
    <3> QED
      BY <3>1, <3>2
  <2>3. e \in all /\ g \in all
    BY <1>3
  <2> HIDE DEF all
  <2> QED
    BY <1>8, <2>1, <2>2, <2>3 DEF Ind
<1>11. StaleEntries' < StaleEntries
  <2>1. StaleEntries = Weight(heap, old)
    <3>1. [f \in DOMAIN heap |-> IF Stale(f) THEN heap[f] ELSE 0]
            = [f \in DOMAIN heap |-> IF f \in old THEN heap[f] ELSE 0]
      OBVIOUS
    <3> QED
      BY <3>1 DEF StaleEntries, Weight
  <2>2. StaleEntries' = Weight(heap', old)
    <3>1. \A f : Stale(f)' <=> Stale(f)
      BY <1>1 DEF Stale
    <3>2. [f \in DOMAIN heap' |-> IF Stale(f)' THEN heap'[f] ELSE 0]
            = [f \in DOMAIN heap' |-> IF f \in old THEN heap'[f] ELSE 0]
      BY <1>7, <3>1
    <3> QED
      BY <3>2 DEF StaleEntries, Weight
  <2>3. e \in old /\ g \notin old
    BY <1>2, <1>3, <1>4
  <2> HIDE DEF old
  <2> QED
    BY <1>8, <2>1, <2>2, <2>3 DEF Ind
<1> QED
  BY <1>6, <1>10, <1>11

\* A merge takes live symbols away, or only takes its entry from the heap.
LEMMA MergeTopDecreases ==
    ASSUME IInv, ListInv, HeapFinite, MergeTop
    PROVE  \/ LiveSymbols' < LiveSymbols
           \/ LiveSymbols' = LiveSymbols /\ HeapSize' < HeapSize
<1>1. PICK e, order, id, merged, moved :
        TopMerge(e, order, id, merged, moved) /\ TopTyped(e, IdsOf(idToWord'), id, merged)
  BY MergeTopFacts
<1> DEFINE ids == IdsOf(idToWord')
<1>2. /\ e \in Tops /\ order \in SetToSeqs(e.positions)
      /\ merged = [w \in e.positions |-> MergeWord(words[w], e.pair, id, opts.max_len)]
      /\ moved = Affected(merged, Slices(order))
      /\ words' = [w \in DOMAIN words |-> IF w \in e.positions THEN merged[w].word ELSE words[w]]
      /\ heap' = (heap (-) SetToBag({e})) (+) Entries(stats', moved)
  BY <1>1 DEF TopMerge
<1>3. /\ e.positions \in SUBSET DOMAIN words /\ e.pair \in Pairs(ids) /\ id \in ids
      /\ IsWords(words, counts, ids) /\ IsMerged(merged, e.positions, ids)
  BY <1>1 DEF TopTyped
<1> HIDE DEF ids
<1>4. AllLinked(words)
  BY DEF MergeTop, ListInv, InLoop
<1>5. LiveSymbols = LiveOf(words) /\ LiveSymbols' = LiveOf(words')
  BY DEF LiveSymbols, LiveOf
<1>6. MergedInto(words', merged, e.positions, e.pair, id, opts.max_len)
  BY <1>2 DEF MergedInto
<1>7. \/ LiveOf(words') < LiveOf(words)
      \/ /\ LiveOf(words') = LiveOf(words)
         /\ \A w \in e.positions : merged[w].changes = <<>>
  BY <1>3, <1>4, <1>6, MergedShrinks
<1>8. ASSUME \A w \in e.positions : merged[w].changes = <<>>
      PROVE  HeapSize' < HeapSize
  <2>1. \A t \in DOMAIN Slices(order) : Slices(order)[t] \subseteq e.positions
    <3>1. IsFiniteSet(e.positions)
      BY <1>3, WordsFacts, FS_Subset
    <3>2. order \in Seq(e.positions)
      BY <1>2, <3>1, OrderFacts
    <3> QED
      BY <3>2, SlicesTyped
  <2>2. moved = {}
    BY <1>2, <1>3, <1>8, <2>1, NothingAffected
  <2> DEFINE r == heap (-) SetToBag({e})
  <2>3. IsABag(heap) /\ e \in DOMAIN heap
    BY <1>2 DEF IInv, PairsInv, HeapOver, Tops
  <2>4. /\ IsABag(r) /\ DOMAIN r \subseteq DOMAIN heap
        /\ Weight(r, DOMAIN heap) \in Int
        /\ Weight(heap, DOMAIN heap) = Weight(r, DOMAIN heap) + Ind(e \in DOMAIN heap)
    BY <2>3, WeightPopped DEF HeapFinite
  <2>5. heap' = r (+) Entries(stats', {})
    BY <1>2, <2>2
  <2> HIDE DEF r
  <2>6. heap' = r
    BY <2>4, <2>5, NoEntries
  <2>7. HeapSize = Weight(heap, DOMAIN heap)
    BY <2>3, WholeWeight DEF HeapSize
  <2>8. HeapSize' = Weight(heap', DOMAIN heap')
    BY <2>4, <2>6, WholeWeight DEF HeapSize
  <2>9. Weight(heap', DOMAIN heap') = Weight(r, DOMAIN heap)
    BY <2>4, <2>6, WeightAgree
  <2> QED
    BY <2>3, <2>4, <2>7, <2>8, <2>9 DEF Ind
<1> QED
  BY <1>5, <1>7, <1>8

LEMMA StepDecreases ==
    ASSUME CInv, HeapFinite, [Next]_vars, pc = "loop", pc' = "loop", ~UNCHANGED vars
    PROVE  \/ LiveSymbols' < LiveSymbols
           \/ LiveSymbols' = LiveSymbols /\ HeapSize' < HeapSize
           \/ /\ LiveSymbols' = LiveSymbols /\ HeapSize' = HeapSize
              /\ StaleEntries' < StaleEntries
<1>1. CASE RefreshStale
  BY <1>1, RefreshStaleDecreases DEF CInv
<1>2. CASE MergeTop
  BY <1>2, MergeTopDecreases DEF CInv
<1>3. RefreshStale \/ MergeTop
  BY DEF Next, TrainStep, Done, Feed, TrainEmpty, StartTrain, TokenizeWords, CountPairs, StopLoop, WriteBack
<1> QED
  BY <1>1, <1>2, <1>3

(***************************************************************************)
(* The heap never has infinitely many entries: they name pairs of ids.     *)
(***************************************************************************)
THEOREM HeapStaysFinite == Spec => []HeapFinite
<1>1. IInv /\ IInv' /\ HeapFinite /\ [Next]_vars => HeapFinite'
  BY NextFinite
<1> QED
  BY Inductive, InitFinite, <1>1, PTL DEF Spec

(***************************************************************************)
(* Every step of the merge loop makes the triple of live symbols, heap     *)
(* size and stale entries smaller, whatever the corpus and the options:    *)
(* the loop ends after finitely many steps.                                *)
(***************************************************************************)
THEOREM TrainerLoopEnds == Spec => LoopDecreases
<1>1. CInv /\ HeapFinite /\ [Next]_vars =>
        [pc = "loop" /\ pc' = "loop" =>
           \/ LiveSymbols' < LiveSymbols
           \/ LiveSymbols' = LiveSymbols /\ HeapSize' < HeapSize
           \/ /\ LiveSymbols' = LiveSymbols /\ HeapSize' = HeapSize
              /\ StaleEntries' < StaleEntries]_vars
  BY StepDecreases
<1> QED
  BY CountsInductive, HeapStaysFinite, <1>1, PTL DEF Spec, LoopDecreases
===============================================================================
