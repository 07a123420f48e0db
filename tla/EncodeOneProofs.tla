---------------------------- MODULE EncodeOneProofs ----------------------------
(***************************************************************************)
(* Proofs about encode_one, for every set of texts and every pipeline of   *)
(* normalizers, pre-tokenizers, post-processor and truncation.             *)
(*                                                                         *)
(* The invariants go from one to the next: Shape (texts, alignments and    *)
(* offsets fit together), Placement (a pre-token's bytes are where its     *)
(* offsets and alignment say), Tracing (so are a token's), and Order (the  *)
(* pieces are the text, in its order).  Before them come the facts about   *)
(* what one call does: the folds of build_segments, apply_behavior and     *)
(* map_segment are taken apart into one step for each segment or byte, and *)
(* what holds after each step is proved of all of them with InductUpto of  *)
(* SequenceLemmas.                                                         *)
(***************************************************************************)
EXTENDS EncodeOne, SequenceLemmas

-------------------------------------------------------------------------------
(* Loops, step by step. *)

\* NthLeast(S, k) for k from 1 on is S in ascending order.
AscendingOf(S) ==
    /\ Cardinality(S) \in Nat
    /\ \A k \in 1..Cardinality(S) : NthLeast(S, k) \in S /\ NthLeast(S, k) \in Int
    /\ \A j, k \in 1..Cardinality(S) : j < k => NthLeast(S, j) < NthLeast(S, k)
    /\ \A x \in S : \E k \in 1..Cardinality(S) : x = NthLeast(S, k)

LEMMA AscendingFacts ==
    ASSUME NEW S \in SUBSET Int, IsFiniteSet(S)
    PROVE  AscendingOf(S)
<1> DEFINE n == Cardinality(S)
           R(x) == Cardinality(Below(S, x))
<1>1. n \in Nat
  BY FS_CardinalityType
<1>2. /\ \A i \in S : R(i) \in 0..(n - 1)
      /\ \A i, j \in S : i < j => R(i) < R(j)
      /\ \A i, j \in S : R(i) = R(j) => i = j
      /\ \A r \in 0..(n - 1) : \E i \in S : R(i) = r
  BY RankFacts
<1>3. \A k : NthLeast(S, k) = CHOOSE x \in S : R(x) = k - 1
  BY DEF NthLeast, Below
<1> HIDE DEF R, n
<1>4. \A k \in 1..n : NthLeast(S, k) \in S /\ R(NthLeast(S, k)) = k - 1
  <2> TAKE k \in 1..n
  <2>1. k - 1 \in 0..(n - 1)
    BY <1>1
  <2>2. \E i \in S : R(i) = k - 1
    BY <1>2, <2>1
  <2> QED
    BY <1>3, <2>2
<1>5. ASSUME NEW j \in 1..n, NEW k \in 1..n, j < k
      PROVE  NthLeast(S, j) < NthLeast(S, k)
  <2> DEFINE a == NthLeast(S, j)
             b == NthLeast(S, k)
  <2>1. a \in S /\ b \in S /\ R(a) = j - 1 /\ R(b) = k - 1
    BY <1>4
  <2> HIDE DEF a, b
  <2>2. a # b /\ ~(b < a) /\ a \in Int /\ b \in Int
    BY <1>1, <1>2, <1>5, <2>1
  <2>3. a < b
    BY <2>2
  <2> QED
    BY <2>3 DEF a, b
<1>6. ASSUME NEW x \in S
      PROVE  \E k \in 1..n : x = NthLeast(S, k)
  <2>1. R(x) + 1 \in 1..n /\ (R(x) + 1) - 1 = R(x)
    BY <1>1, <1>2
  <2>2. R(NthLeast(S, R(x) + 1)) = R(x) /\ NthLeast(S, R(x) + 1) \in S
    BY <1>4, <2>1
  <2> QED
    BY <1>2, <2>1, <2>2
<1>7. \A k \in 1..n : NthLeast(S, k) \in Int
  BY <1>4
<1> QED
  BY <1>1, <1>4, <1>5, <1>6, <1>7 DEF AscendingOf, n

\* The segments and positions build_segments goes through.
BuildRun(f, V, n, matches) ==
    /\ f \in [0..n -> V]
    /\ f[0] = [segs |-> <<>>, prev |-> 0]
    /\ \A k \in 1..n : f[k] = AddMatch(f[k - 1], matches[k])
    /\ AddMatches(matches) = f[n]

LEMMA BuildTrace ==
    ASSUME NEW matches, NEW n \in Nat, DOMAIN matches = 1..n,
           NEW V, [segs |-> <<>>, prev |-> 0] \in V,
           \A a \in V, k \in 1..n : AddMatch(a, matches[k]) \in V
    PROVE  \E f : BuildRun(f, V, n, matches)
<1> DEFINE H == [x \in (1..n) \X V |-> AddMatch(x[2], matches[x[1]])]
           seq == matches
           Step(it) == it = [s \in SUBSET DOMAIN seq |->
                               IF s = {} THEN [segs |-> <<>>, prev |-> 0]
                               ELSE AddMatch(it[s \ {Max(s)}], seq[Max(s)])]
           it == CHOOSE it : Step(it)
<1>1. DOMAIN seq = 1..n /\ \A k \in 1..n : seq[k] = matches[k]
  OBVIOUS
<1>2. H \in [(1..n) \X V -> V]
  OBVIOUS
<1>3. Step(it)
  <2>1. PICK g \in [SUBSET (1..n) -> V] : FoldFcn(g, [segs |-> <<>>, prev |-> 0], H, n)
    <3> HIDE DEF H
    <3> QED
      BY <1>2, FoldExists
  <2>2. ASSUME NEW s \in SUBSET (1..n)
        PROVE  g[s] = IF s = {} THEN [segs |-> <<>>, prev |-> 0]
                      ELSE AddMatch(g[s \ {Max(s)}], matches[Max(s)])
    <3>1. s # {} => Max(s) \in 1..n
      BY MaxWithin
    <3>2. g[s] = IF s = {} THEN [segs |-> <<>>, prev |-> 0]
                 ELSE H[<<Max(s), g[s \ {Max(s)}]>>]
      BY <2>1 DEF FoldFcn
    <3>3. g[s \ {Max(s)}] \in V
      OBVIOUS
    <3> QED
      BY <3>1, <3>2, <3>3
  <2>3. Step(g)
    <3>1. g = [s \in SUBSET DOMAIN seq |-> g[s]]
      BY <1>1
    <3>2. \A s \in SUBSET (1..n) : s # {} => Max(s) \in 1..n
      BY MaxWithin
    <3> HIDE DEF H, seq
    <3> QED
      BY <1>1, <2>2, <3>1, <3>2
  <2> HIDE DEF Step
  <2> QED
    BY <2>3
<1>4. AddMatches(matches) = it[DOMAIN seq]
  BY DEF AddMatches, FoldLeft, MapThenFoldSet
<1>5. /\ it[1..0] = [segs |-> <<>>, prev |-> 0]
      /\ \A k \in 1..n : it[1..k] = AddMatch(it[1..(k - 1)], matches[k])
  <2> HIDE DEF it, seq
  <2>1. it[1..0] = [segs |-> <<>>, prev |-> 0]
    BY <1>1, <1>3
  <2>2. ASSUME NEW k \in 1..n
        PROVE  it[1..k] = AddMatch(it[1..(k - 1)], matches[k])
    <3>1. k \in Nat \ {0} /\ 1..k \in SUBSET (1..n)
      OBVIOUS
    <3>2. 1..k # {} /\ Max(1..k) = k /\ (1..k) \ {Max(1..k)} = 1..(k - 1)
      BY <3>1, IntervalMax
    <3>3. it[1..k] = AddMatch(it[(1..k) \ {Max(1..k)}], matches[Max(1..k)])
      <4>1. it[1..k] = AddMatch(it[(1..k) \ {Max(1..k)}], seq[Max(1..k)])
        BY <1>1, <1>3, <3>1, <3>2
      <4>2. seq[Max(1..k)] = matches[Max(1..k)]
        BY <1>1, <3>2
      <4> HIDE DEF Step
      <4> QED
        BY <4>1, <4>2
    <3> HIDE DEF Step
    <3> QED
      BY <3>2, <3>3
  <2> QED
    BY <2>1, <2>2
<1> HIDE DEF it, seq, H, Step
<1>6. \A k \in 0..n : it[1..k] \in V
  <2>1. Follows(it, V, n)
    BY <1>5 DEF Follows
  <2> QED
    BY <2>1, FoldWithin
<1> DEFINE f == [k \in 0..n |-> it[1..k]]
<1>7. f \in [0..n -> V] /\ \A k \in 0..n : f[k] = it[1..k]
  BY <1>6
<1>8. 0 \in 0..n /\ n \in 0..n /\ \A k \in 1..n : k \in 0..n /\ k - 1 \in 0..n
  OBVIOUS
<1> HIDE DEF f
<1>9. f[0] = [segs |-> <<>>, prev |-> 0] /\ AddMatches(matches) = f[n]
  BY <1>1, <1>4, <1>5, <1>7, <1>8
<1>10. \A k \in 1..n : f[k] = AddMatch(f[k - 1], matches[k])
  BY <1>5, <1>7, <1>8
<1>11. BuildRun(f, V, n, matches)
  BY <1>7, <1>9, <1>10 DEF BuildRun
<1> QED
  BY <1>11

\* The pieces apply_behavior goes through.
PiecesRun(f, V, n, segs, behavior) ==
    /\ f \in [0..n -> V]
    /\ f[0] = [out |-> <<>>, prev |-> FALSE, first |-> TRUE]
    /\ \A k \in 1..n : f[k] = AddSegment(f[k - 1], segs[k], behavior)
    /\ AddSegments(segs, behavior) = f[n]

LEMMA PiecesTrace ==
    ASSUME NEW segs, NEW behavior, NEW n \in Nat, DOMAIN segs = 1..n,
           NEW V, [out |-> <<>>, prev |-> FALSE, first |-> TRUE] \in V,
           \A a \in V, k \in 1..n : AddSegment(a, segs[k], behavior) \in V
    PROVE  \E f : PiecesRun(f, V, n, segs, behavior)
<1> DEFINE H == [x \in (1..n) \X V |-> AddSegment(x[2], segs[x[1]], behavior)]
           seq == segs
           Step(it) == it = [s \in SUBSET DOMAIN seq |->
                               IF s = {} THEN [out |-> <<>>, prev |-> FALSE, first |-> TRUE]
                               ELSE AddSegment(it[s \ {Max(s)}], seq[Max(s)], behavior)]
           it == CHOOSE it : Step(it)
<1>1. DOMAIN seq = 1..n /\ \A k \in 1..n : seq[k] = segs[k]
  OBVIOUS
<1>2. H \in [(1..n) \X V -> V]
  OBVIOUS
<1>3. Step(it)
  <2>1. PICK g \in [SUBSET (1..n) -> V] : FoldFcn(g, [out |-> <<>>, prev |-> FALSE, first |-> TRUE], H, n)
    <3> HIDE DEF H
    <3> QED
      BY <1>2, FoldExists
  <2>2. ASSUME NEW s \in SUBSET (1..n)
        PROVE  g[s] = IF s = {} THEN [out |-> <<>>, prev |-> FALSE, first |-> TRUE]
                      ELSE AddSegment(g[s \ {Max(s)}], segs[Max(s)], behavior)
    <3>1. s # {} => Max(s) \in 1..n
      BY MaxWithin
    <3>2. g[s] = IF s = {} THEN [out |-> <<>>, prev |-> FALSE, first |-> TRUE]
                 ELSE H[<<Max(s), g[s \ {Max(s)}]>>]
      BY <2>1 DEF FoldFcn
    <3>3. g[s \ {Max(s)}] \in V
      OBVIOUS
    <3> QED
      BY <3>1, <3>2, <3>3
  <2>3. Step(g)
    <3>1. g = [s \in SUBSET DOMAIN seq |-> g[s]]
      BY <1>1
    <3>2. \A s \in SUBSET (1..n) : s # {} => Max(s) \in 1..n
      BY MaxWithin
    <3> HIDE DEF H, seq
    <3> QED
      BY <1>1, <2>2, <3>1, <3>2
  <2> HIDE DEF Step
  <2> QED
    BY <2>3
<1>4. AddSegments(segs, behavior) = it[DOMAIN seq]
  BY DEF AddSegments, FoldLeft, MapThenFoldSet
<1>5. /\ it[1..0] = [out |-> <<>>, prev |-> FALSE, first |-> TRUE]
      /\ \A k \in 1..n : it[1..k] = AddSegment(it[1..(k - 1)], segs[k], behavior)
  <2> HIDE DEF it, seq
  <2>1. it[1..0] = [out |-> <<>>, prev |-> FALSE, first |-> TRUE]
    BY <1>1, <1>3
  <2>2. ASSUME NEW k \in 1..n
        PROVE  it[1..k] = AddSegment(it[1..(k - 1)], segs[k], behavior)
    <3>1. k \in Nat \ {0} /\ 1..k \in SUBSET (1..n)
      OBVIOUS
    <3>2. 1..k # {} /\ Max(1..k) = k /\ (1..k) \ {Max(1..k)} = 1..(k - 1)
      BY <3>1, IntervalMax
    <3>3. it[1..k] = AddSegment(it[(1..k) \ {Max(1..k)}], segs[Max(1..k)], behavior)
      <4>1. it[1..k] = AddSegment(it[(1..k) \ {Max(1..k)}], seq[Max(1..k)], behavior)
        BY <1>1, <1>3, <3>1, <3>2
      <4>2. seq[Max(1..k)] = segs[Max(1..k)]
        BY <1>1, <3>2
      <4> HIDE DEF Step
      <4> QED
        BY <4>1, <4>2
    <3> HIDE DEF Step
    <3> QED
      BY <3>2, <3>3
  <2> QED
    BY <2>1, <2>2
<1> HIDE DEF it, seq, H, Step
<1>6. \A k \in 0..n : it[1..k] \in V
  <2>1. Follows(it, V, n)
    BY <1>5 DEF Follows
  <2> QED
    BY <2>1, FoldWithin
<1> DEFINE f == [k \in 0..n |-> it[1..k]]
<1>7. f \in [0..n -> V] /\ \A k \in 0..n : f[k] = it[1..k]
  BY <1>6
<1>8. 0 \in 0..n /\ n \in 0..n /\ \A k \in 1..n : k \in 0..n /\ k - 1 \in 0..n
  OBVIOUS
<1> HIDE DEF f
<1>9. f[0] = [out |-> <<>>, prev |-> FALSE, first |-> TRUE] /\ AddSegments(segs, behavior) = f[n]
  BY <1>1, <1>4, <1>5, <1>7, <1>8
<1>10. \A k \in 1..n : f[k] = AddSegment(f[k - 1], segs[k], behavior)
  BY <1>5, <1>7, <1>8
<1>11. PiecesRun(f, V, n, segs, behavior)
  BY <1>7, <1>9, <1>10 DEF PiecesRun
<1> QED
  BY <1>11

\* The texts and alignments map_segment goes through.
MapRun(f, V, n, segment) ==
    /\ f \in [0..n -> V]
    /\ f[0] = [text |-> <<>>, align |-> <<>>]
    /\ \A k \in 1..n : f[k] = MapByte(f[k - 1], segment, k)
    /\ MapSegment(segment) = f[n]

LEMMA MapTrace ==
    ASSUME NEW segment, NEW n \in Nat, DOMAIN segment = 1..n,
           NEW V, [text |-> <<>>, align |-> <<>>] \in V,
           \A a \in V, k \in 1..n : MapByte(a, segment, k) \in V
    PROVE  \E f : MapRun(f, V, n, segment)
<1> DEFINE H == [x \in (1..n) \X V |-> MapByte(x[2], segment, x[1])]
           seq == [k \in DOMAIN segment |-> k]
           Step(it) == it = [s \in SUBSET DOMAIN seq |->
                               IF s = {} THEN [text |-> <<>>, align |-> <<>>]
                               ELSE MapByte(it[s \ {Max(s)}], segment, seq[Max(s)])]
           it == CHOOSE it : Step(it)
<1>1. DOMAIN seq = 1..n /\ \A k \in 1..n : seq[k] = k
  OBVIOUS
<1>2. H \in [(1..n) \X V -> V]
  OBVIOUS
<1>3. Step(it)
  <2>1. PICK g \in [SUBSET (1..n) -> V] : FoldFcn(g, [text |-> <<>>, align |-> <<>>], H, n)
    <3> HIDE DEF H
    <3> QED
      BY <1>2, FoldExists
  <2>2. ASSUME NEW s \in SUBSET (1..n)
        PROVE  g[s] = IF s = {} THEN [text |-> <<>>, align |-> <<>>]
                      ELSE MapByte(g[s \ {Max(s)}], segment, Max(s))
    <3>1. s # {} => Max(s) \in 1..n
      BY MaxWithin
    <3>2. g[s] = IF s = {} THEN [text |-> <<>>, align |-> <<>>]
                 ELSE H[<<Max(s), g[s \ {Max(s)}]>>]
      BY <2>1 DEF FoldFcn
    <3>3. g[s \ {Max(s)}] \in V
      OBVIOUS
    <3> QED
      BY <3>1, <3>2, <3>3
  <2>3. Step(g)
    <3>1. g = [s \in SUBSET DOMAIN seq |-> g[s]]
      BY <1>1
    <3>2. \A s \in SUBSET (1..n) : s # {} => Max(s) \in 1..n
      BY MaxWithin
    <3> HIDE DEF H, seq
    <3> QED
      BY ZenonT(30), <1>1, <2>2, <3>1, <3>2
  <2> HIDE DEF Step
  <2> QED
    BY <2>3
<1>4. MapSegment(segment) = it[DOMAIN seq]
  BY DEF MapSegment, FoldLeft, MapThenFoldSet
<1>5. /\ it[1..0] = [text |-> <<>>, align |-> <<>>]
      /\ \A k \in 1..n : it[1..k] = MapByte(it[1..(k - 1)], segment, k)
  <2> HIDE DEF it, seq
  <2>1. it[1..0] = [text |-> <<>>, align |-> <<>>]
    BY <1>1, <1>3
  <2>2. ASSUME NEW k \in 1..n
        PROVE  it[1..k] = MapByte(it[1..(k - 1)], segment, k)
    <3>1. k \in Nat \ {0} /\ 1..k \in SUBSET (1..n)
      OBVIOUS
    <3>2. 1..k # {} /\ Max(1..k) = k /\ (1..k) \ {Max(1..k)} = 1..(k - 1)
      BY <3>1, IntervalMax
    <3>3. it[1..k] = MapByte(it[(1..k) \ {Max(1..k)}], segment, Max(1..k))
      <4>1. it[1..k] = MapByte(it[(1..k) \ {Max(1..k)}], segment, seq[Max(1..k)])
        BY <1>1, <1>3, <3>1, <3>2
      <4>2. seq[Max(1..k)] = Max(1..k)
        BY <1>1, <3>2
      <4> HIDE DEF Step
      <4> QED
        BY <4>1, <4>2
    <3> HIDE DEF Step
    <3> QED
      BY <3>2, <3>3
  <2> QED
    BY <2>1, <2>2
<1> HIDE DEF it, seq, H, Step
<1>6. \A k \in 0..n : it[1..k] \in V
  <2>1. Follows(it, V, n)
    BY <1>5 DEF Follows
  <2> QED
    BY <2>1, FoldWithin
<1> DEFINE f == [k \in 0..n |-> it[1..k]]
<1>7. f \in [0..n -> V] /\ \A k \in 0..n : f[k] = it[1..k]
  BY <1>6
<1>8. 0 \in 0..n /\ n \in 0..n /\ \A k \in 1..n : k \in 0..n /\ k - 1 \in 0..n
  OBVIOUS
<1> HIDE DEF f
<1>9. f[0] = [text |-> <<>>, align |-> <<>>] /\ MapSegment(segment) = f[n]
  BY <1>1, <1>4, <1>5, <1>7, <1>8
<1>10. \A k \in 1..n : f[k] = MapByte(f[k - 1], segment, k)
  BY <1>5, <1>7, <1>8
<1>11. MapRun(f, V, n, segment)
  BY <1>7, <1>9, <1>10 DEF MapRun
<1> QED
  BY <1>11

\* The sets of sequences Concatenations goes through.
ConcatRun(f, V, n, results) ==
    /\ f \in [0..n -> V]
    /\ f[0] = {<<>>}
    /\ \A k \in 1..n : f[k] = Extended(f[k - 1], results[k])
    /\ Concatenations(results) = f[n]

LEMMA ConcatTrace ==
    ASSUME NEW results, NEW n \in Nat, DOMAIN results = 1..n,
           NEW V, {<<>>} \in V,
           \A a \in V, k \in 1..n : Extended(a, results[k]) \in V
    PROVE  \E f : ConcatRun(f, V, n, results)
<1> DEFINE H == [x \in (1..n) \X V |-> Extended(x[2], results[x[1]])]
           seq == results
           Step(it) == it = [s \in SUBSET DOMAIN seq |->
                               IF s = {} THEN {<<>>}
                               ELSE Extended(it[s \ {Max(s)}], seq[Max(s)])]
           it == CHOOSE it : Step(it)
<1>1. DOMAIN seq = 1..n /\ \A k \in 1..n : seq[k] = results[k]
  OBVIOUS
<1>2. H \in [(1..n) \X V -> V]
  OBVIOUS
<1>3. Step(it)
  <2>1. PICK g \in [SUBSET (1..n) -> V] : FoldFcn(g, {<<>>}, H, n)
    <3> HIDE DEF H
    <3> QED
      BY <1>2, FoldExists
  <2>2. ASSUME NEW s \in SUBSET (1..n)
        PROVE  g[s] = IF s = {} THEN {<<>>}
                      ELSE Extended(g[s \ {Max(s)}], results[Max(s)])
    <3>1. s # {} => Max(s) \in 1..n
      BY MaxWithin
    <3>2. g[s] = IF s = {} THEN {<<>>}
                 ELSE H[<<Max(s), g[s \ {Max(s)}]>>]
      BY <2>1 DEF FoldFcn
    <3>3. g[s \ {Max(s)}] \in V
      OBVIOUS
    <3> QED
      BY <3>1, <3>2, <3>3
  <2>3. Step(g)
    <3>1. g = [s \in SUBSET DOMAIN seq |-> g[s]]
      BY <1>1
    <3>2. \A s \in SUBSET (1..n) : s # {} => Max(s) \in 1..n
      BY MaxWithin
    <3> HIDE DEF H, seq
    <3> QED
      BY <1>1, <2>2, <3>1, <3>2
  <2> HIDE DEF Step
  <2> QED
    BY <2>3
<1>4. Concatenations(results) = it[DOMAIN seq]
  BY DEF Concatenations, FoldLeft, MapThenFoldSet
<1>5. /\ it[1..0] = {<<>>}
      /\ \A k \in 1..n : it[1..k] = Extended(it[1..(k - 1)], results[k])
  <2> HIDE DEF it, seq
  <2>1. it[1..0] = {<<>>}
    BY <1>1, <1>3
  <2>2. ASSUME NEW k \in 1..n
        PROVE  it[1..k] = Extended(it[1..(k - 1)], results[k])
    <3>1. k \in Nat \ {0} /\ 1..k \in SUBSET (1..n)
      OBVIOUS
    <3>2. 1..k # {} /\ Max(1..k) = k /\ (1..k) \ {Max(1..k)} = 1..(k - 1)
      BY <3>1, IntervalMax
    <3>3. it[1..k] = Extended(it[(1..k) \ {Max(1..k)}], results[Max(1..k)])
      <4>1. it[1..k] = Extended(it[(1..k) \ {Max(1..k)}], seq[Max(1..k)])
        BY <1>1, <1>3, <3>1, <3>2
      <4>2. seq[Max(1..k)] = results[Max(1..k)]
        BY <1>1, <3>2
      <4> HIDE DEF Step
      <4> QED
        BY <4>1, <4>2
    <3> HIDE DEF Step
    <3> QED
      BY <3>2, <3>3
  <2> QED
    BY <2>1, <2>2
<1> HIDE DEF it, seq, H, Step
<1>6. \A k \in 0..n : it[1..k] \in V
  <2>1. Follows(it, V, n)
    BY <1>5 DEF Follows
  <2> QED
    BY <2>1, FoldWithin
<1> DEFINE f == [k \in 0..n |-> it[1..k]]
<1>7. f \in [0..n -> V] /\ \A k \in 0..n : f[k] = it[1..k]
  BY <1>6
<1>8. 0 \in 0..n /\ n \in 0..n /\ \A k \in 1..n : k \in 0..n /\ k - 1 \in 0..n
  OBVIOUS
<1> HIDE DEF f
<1>9. f[0] = {<<>>} /\ Concatenations(results) = f[n]
  BY <1>1, <1>4, <1>5, <1>7, <1>8
<1>10. \A k \in 1..n : f[k] = Extended(f[k - 1], results[k])
  BY <1>5, <1>7, <1>8
<1>11. ConcatRun(f, V, n, results)
  BY <1>7, <1>9, <1>10 DEF ConcatRun
<1> QED
  BY <1>11

-------------------------------------------------------------------------------
(* Sequences of intervals. *)

\* Non-empty intervals with their ends in E, from left to right without a gap.
Forward(c, a, b, E) ==
    /\ c # <<>> /\ c[1][1] = a /\ c[Len(c)][2] = b
    /\ \A k \in 1..Len(c) : c[k][1] \in E /\ c[k][2] \in E /\ c[k][1] < c[k][2]
    /\ \A k \in 1..(Len(c) - 1) : c[k + 1][1] = c[k][2]

\* The same from right to left.
Backward(c, a, b, E) ==
    /\ c # <<>> /\ c[Len(c)][1] = a /\ c[1][2] = b
    /\ \A k \in 1..Len(c) : c[k][1] \in E /\ c[k][2] \in E /\ c[k][1] < c[k][2]
    /\ \A k \in 1..(Len(c) - 1) : c[k][1] = c[k + 1][2]

\* From left to right, gaps allowed.
Intervals(c, E) ==
    /\ \A k \in 1..Len(c) : c[k][1] \in E /\ c[k][2] \in E /\ c[k][1] < c[k][2]
    /\ \A j, k \in 1..Len(c) : j < k => c[j][2] <= c[k][1]

LEMMA ForwardAppend ==
    ASSUME NEW V, NEW c \in Seq(V), NEW x \in V, NEW E \in SUBSET Int, NEW a, NEW b,
           Forward(c, a, b, E), x[1] = b, x[2] \in E, b < x[2]
    PROVE  Append(c, x) \in Seq(V) /\ Forward(Append(c, x), a, x[2], E)
<1> DEFINE d == Append(c, x)
           n == Len(c)
<1>1. /\ d \in Seq(V) /\ d # <<>> /\ Len(d) = n + 1
      /\ \A i \in 1..n : d[i] = c[i]
      /\ d[n + 1] = x
  BY AppendProperties
<1>2. n \in Nat \ {0}
  BY EmptySeq DEF Forward
<1> HIDE DEF d, n
<1>3. \A k \in 1..(n + 1) : d[k][1] \in E /\ d[k][2] \in E /\ d[k][1] < d[k][2]
  <2> SUFFICES ASSUME NEW k \in 1..(n + 1) PROVE d[k][1] \in E /\ d[k][2] \in E /\ d[k][1] < d[k][2]
    OBVIOUS
  <2>1. CASE k = n + 1
    <3>1. b \in E
      BY <1>2 DEF Forward, n
    <3> QED
      BY <1>1, <2>1, <3>1
  <2>2. CASE k # n + 1
    <3>1. k \in 1..n
      BY <1>2, <2>2
    <3> QED
      BY <1>1, <3>1 DEF Forward, n
  <2> QED
    BY <2>1, <2>2
<1>4. \A k \in 1..n : d[k + 1][1] = d[k][2]
  <2> SUFFICES ASSUME NEW k \in 1..n PROVE d[k + 1][1] = d[k][2]
    OBVIOUS
  <2>1. CASE k = n
    BY <1>1, <1>2, <2>1 DEF Forward, n
  <2>2. CASE k # n
    <3>1. k \in 1..(n - 1) /\ k + 1 \in 1..n
      BY <1>2, <2>2
    <3> QED
      BY <1>1, <3>1 DEF Forward, n
  <2> QED
    BY <2>1, <2>2
<1>5. d[1][1] = a
  BY <1>1, <1>2 DEF Forward
<1>6. Forward(d, a, x[2], E)
  <2>1. (n + 1) - 1 = n
    BY <1>2
  <2> QED
    BY <1>1, <1>3, <1>4, <1>5, <2>1 DEF Forward
<1> QED
  BY <1>1, <1>6 DEF d

LEMMA ForwardOne ==
    ASSUME NEW V, NEW x \in V, NEW E \in SUBSET Int, x[1] \in E, x[2] \in E, x[1] < x[2]
    PROVE  /\ Append(<<>>, x) \in Seq(V) /\ Forward(Append(<<>>, x), x[1], x[2], E)
           /\ Backward(Append(<<>>, x), x[1], x[2], E)
<1> DEFINE d == Append(<<>>, x)
<1>1. d = <<x>>
  OBVIOUS
<1>2. d \in Seq(V) /\ Len(d) = 1 /\ d # <<>> /\ d[1] = x
  BY <1>1
<1> HIDE DEF d
<1>3. /\ \A k \in 1..1 : k = 1
      /\ \A k \in 1..(1 - 1) : FALSE
  OBVIOUS
<1>4. Forward(d, x[1], x[2], E) /\ Backward(d, x[1], x[2], E)
  BY <1>2, <1>3 DEF Forward, Backward
<1> QED
  BY <1>2, <1>4 DEF d

\* The last interval goes on to e.
LEMMA ForwardJoin ==
    ASSUME NEW V, NEW c \in Seq(V), NEW E \in SUBSET Int, NEW a, NEW b, NEW e \in E,
           Forward(c, a, b, E), b < e, NEW d \in Seq(V), Len(d) = Len(c),
           \A k \in 1..(Len(c) - 1) : d[k] = c[k],
           d[Len(c)][1] = c[Len(c)][1], d[Len(c)][2] = e
    PROVE  Forward(d, a, e, E)
<1> DEFINE n == Len(c)
<1>1. n \in Nat \ {0} /\ d # <<>>
  BY EmptySeq DEF Forward
<1>2. \A k \in 1..n : d[k][1] = c[k][1] /\ (k # n => d[k][2] = c[k][2])
  <2> TAKE k \in 1..n
  <2>1. k # n => k \in 1..(n - 1)
    BY <1>1
  <2> QED
    BY <2>1
<1>3. \A k \in 1..n : d[k][1] \in E /\ d[k][2] \in E /\ d[k][1] < d[k][2]
  <2> TAKE k \in 1..n
  <2>1. c[k][1] \in E /\ c[k][2] \in E /\ c[k][1] < c[k][2]
    BY DEF Forward
  <2>2. CASE k = n
    <3>1. c[n][2] = b
      BY DEF Forward
    <3>2. c[n][1] \in Int /\ b \in Int /\ e \in Int /\ c[n][1] < b
      BY <2>1, <2>2, <3>1
    <3>3. c[n][1] < e
      BY <3>2
    <3>4. d[n][1] = c[n][1] /\ d[n][2] = e
      OBVIOUS
    <3> QED
      BY <2>1, <2>2, <3>3, <3>4
  <2>3. CASE k # n
    BY <1>2, <2>1, <2>3
  <2> QED
    BY <2>2, <2>3
<1>4. \A k \in 1..(n - 1) : d[k + 1][1] = d[k][2]
  <2> TAKE k \in 1..(n - 1)
  <2>1. k \in 1..n /\ k + 1 \in 1..n /\ k # n
    BY <1>1
  <2>2. c[k + 1][1] = c[k][2]
    BY DEF Forward
  <2> QED
    BY <1>2, <2>1, <2>2
<1>5. d[1][1] = a /\ d[n][2] = e
  <2>1. 1 \in 1..n
    BY <1>1
  <2> QED
    BY <1>2, <2>1 DEF Forward
<1> QED
  BY <1>1, <1>3, <1>4, <1>5 DEF Forward

LEMMA BackwardAppend ==
    ASSUME NEW V, NEW c \in Seq(V), NEW x \in V, NEW E \in SUBSET Int, NEW a, NEW b,
           Backward(c, a, b, E), x[2] = a, x[1] \in E, x[1] < a
    PROVE  Append(c, x) \in Seq(V) /\ Backward(Append(c, x), x[1], b, E)
<1> DEFINE d == Append(c, x)
           n == Len(c)
<1>1. /\ d \in Seq(V) /\ d # <<>> /\ Len(d) = n + 1
      /\ \A i \in 1..n : d[i] = c[i]
      /\ d[n + 1] = x
  BY AppendProperties
<1>2. n \in Nat \ {0}
  BY EmptySeq DEF Backward
<1> HIDE DEF d, n
<1>3. \A k \in 1..(n + 1) : d[k][1] \in E /\ d[k][2] \in E /\ d[k][1] < d[k][2]
  <2> SUFFICES ASSUME NEW k \in 1..(n + 1) PROVE d[k][1] \in E /\ d[k][2] \in E /\ d[k][1] < d[k][2]
    OBVIOUS
  <2>1. CASE k = n + 1
    <3>1. a \in E
      BY <1>2 DEF Backward, n
    <3> QED
      BY <1>1, <2>1, <3>1
  <2>2. CASE k # n + 1
    <3>1. k \in 1..n
      BY <1>2, <2>2
    <3> QED
      BY <1>1, <3>1 DEF Backward, n
  <2> QED
    BY <2>1, <2>2
<1>4. \A k \in 1..n : d[k][1] = d[k + 1][2]
  <2> SUFFICES ASSUME NEW k \in 1..n PROVE d[k][1] = d[k + 1][2]
    OBVIOUS
  <2>1. CASE k = n
    BY <1>1, <1>2, <2>1 DEF Backward, n
  <2>2. CASE k # n
    <3>1. k \in 1..(n - 1) /\ k + 1 \in 1..n
      BY <1>2, <2>2
    <3> QED
      BY <1>1, <3>1 DEF Backward, n
  <2> QED
    BY <2>1, <2>2
<1>5. d[1][2] = b
  BY <1>1, <1>2 DEF Backward
<1>6. Backward(d, x[1], b, E)
  <2>1. (n + 1) - 1 = n
    BY <1>2
  <2> QED
    BY <1>1, <1>3, <1>4, <1>5, <2>1 DEF Backward
<1> QED
  BY <1>1, <1>6 DEF d

LEMMA BackwardJoin ==
    ASSUME NEW V, NEW c \in Seq(V), NEW E \in SUBSET Int, NEW a, NEW b, NEW e \in E,
           Backward(c, a, b, E), e < a, NEW d \in Seq(V), Len(d) = Len(c),
           \A k \in 1..(Len(c) - 1) : d[k] = c[k],
           d[Len(c)][2] = c[Len(c)][2], d[Len(c)][1] = e
    PROVE  Backward(d, e, b, E)
<1> DEFINE n == Len(c)
<1>1. n \in Nat \ {0} /\ d # <<>>
  BY EmptySeq DEF Backward
<1>2. \A k \in 1..n : d[k][2] = c[k][2] /\ (k # n => d[k][1] = c[k][1])
  <2> TAKE k \in 1..n
  <2>1. k # n => k \in 1..(n - 1)
    BY <1>1
  <2> QED
    BY <2>1
<1>3. \A k \in 1..n : d[k][1] \in E /\ d[k][2] \in E /\ d[k][1] < d[k][2]
  <2> TAKE k \in 1..n
  <2>1. c[k][1] \in E /\ c[k][2] \in E /\ c[k][1] < c[k][2]
    BY DEF Backward
  <2>2. CASE k = n
    <3>1. c[n][1] = a
      BY DEF Backward
    <3>2. c[n][2] \in Int /\ a \in Int /\ e \in Int /\ a < c[n][2]
      BY <2>1, <2>2, <3>1
    <3>3. e < c[n][2]
      BY <3>2
    <3>4. d[n][2] = c[n][2] /\ d[n][1] = e
      OBVIOUS
    <3> QED
      BY <2>1, <2>2, <3>3, <3>4
  <2>3. CASE k # n
    BY <1>2, <2>1, <2>3
  <2> QED
    BY <2>2, <2>3
<1>4. \A k \in 1..(n - 1) : d[k][1] = d[k + 1][2]
  <2> TAKE k \in 1..(n - 1)
  <2>1. k \in 1..n /\ k + 1 \in 1..n /\ k # n
    BY <1>1
  <2>2. c[k][1] = c[k + 1][2]
    BY DEF Backward
  <2> QED
    BY <1>2, <2>1, <2>2
<1>5. d[1][2] = b /\ d[n][1] = e
  <2>1. 1 \in 1..n
    BY <1>1
  <2> QED
    BY <1>2, <2>1 DEF Backward
<1> QED
  BY <1>1, <1>3, <1>4, <1>5 DEF Backward

\* Reversing turns one into the other.
LEMMA ReverseIntervals ==
    ASSUME NEW V, NEW c \in Seq(V), NEW E \in SUBSET Int, NEW a, NEW b
    PROVE  /\ Reverse(c) \in Seq(V) /\ Len(Reverse(c)) = Len(c)
           /\ Forward(c, a, b, E) => Backward(Reverse(c), a, b, E)
           /\ Backward(c, a, b, E) => Forward(Reverse(c), a, b, E)
<1> DEFINE d == Reverse(c)
           n == Len(c)
<1>1. n \in Nat /\ (c # <<>> => n \in Nat \ {0})
  BY EmptySeq, LenProperties
<1>2. d = [k \in 1..n |-> c[(n - k) + 1]]
  BY DEF Reverse
<1>3. \A k \in 1..n : (n - k) + 1 \in 1..n
  BY <1>1
<1>4. d \in Seq(V) /\ Len(d) = n
  BY <1>1, <1>2, <1>3
<1>5. \A k \in 1..n : d[k] = c[(n - k) + 1]
  BY <1>2
<1>6. \A k \in 1..(n - 1) : /\ k \in 1..n /\ k + 1 \in 1..n /\ n - k \in 1..(n - 1)
                            /\ (n - k) + 1 \in 1..n /\ (n - (k + 1)) + 1 = n - k
  BY <1>1
<1>7. c # <<>> => d # <<>> /\ d[1] = c[n] /\ d[n] = c[1]
  <2>1. c # <<>> => 1 \in 1..n /\ n \in 1..n /\ (n - 1) + 1 = n /\ (n - n) + 1 = 1
    BY <1>1
  <2> QED
    BY <1>1, <1>4, <1>5, <2>1
<1> HIDE DEF d, n
<1>8. ASSUME Forward(c, a, b, E) PROVE Backward(d, a, b, E)
  <2>1. \A k \in 1..n : d[k][1] \in E /\ d[k][2] \in E /\ d[k][1] < d[k][2]
    BY <1>3, <1>5, <1>8 DEF Forward, n
  <2>2. \A k \in 1..(n - 1) : d[k][1] = d[k + 1][2]
    <3> TAKE k \in 1..(n - 1)
    <3>1. d[k] = c[(n - k) + 1] /\ d[k + 1] = c[n - k] /\ n - k \in 1..(n - 1)
      BY <1>5, <1>6
    <3>2. \A m \in 1..(n - 1) : c[m + 1][1] = c[m][2]
      BY <1>8 DEF Forward, n
    <3> QED
      BY <3>1, <3>2
  <2> QED
    BY <1>4, <1>7, <1>8, <2>1, <2>2 DEF Forward, Backward, n
<1>9. ASSUME Backward(c, a, b, E) PROVE Forward(d, a, b, E)
  <2>1. \A k \in 1..n : d[k][1] \in E /\ d[k][2] \in E /\ d[k][1] < d[k][2]
    BY <1>3, <1>5, <1>9 DEF Backward, n
  <2>2. \A k \in 1..(n - 1) : d[k + 1][1] = d[k][2]
    <3> TAKE k \in 1..(n - 1)
    <3>1. d[k] = c[(n - k) + 1] /\ d[k + 1] = c[n - k] /\ n - k \in 1..(n - 1)
      BY <1>5, <1>6
    <3>2. \A m \in 1..(n - 1) : c[m][1] = c[m + 1][2]
      BY <1>9 DEF Backward, n
    <3> QED
      BY <3>1, <3>2
  <2> QED
    BY <1>4, <1>7, <1>9, <2>1, <2>2 DEF Forward, Backward, n
<1> QED
  BY <1>4, <1>8, <1>9 DEF d, n

\* Without gaps, later intervals lie to the right of earlier ones.
LEMMA ForwardIntervals ==
    ASSUME NEW V, NEW c \in Seq(V), NEW E \in SUBSET Int, NEW a, NEW b, Forward(c, a, b, E)
    PROVE  Intervals(c, E) /\ (\A k \in 1..Len(c) : a <= c[k][1] /\ c[k][2] <= b)
<1> DEFINE n == Len(c)
           T == {m \in 0..n : \A k \in 1..m : \A j \in 1..(k - 1) : c[j][2] <= c[k][1]}
<1>1. n \in Nat \ {0}
  BY EmptySeq DEF Forward
<1>2. /\ \A k \in 1..n : c[k][1] \in Int /\ c[k][2] \in Int /\ c[k][1] < c[k][2]
      /\ \A k \in 1..(n - 1) : c[k + 1][1] = c[k][2]
      /\ c[1][1] = a /\ c[n][2] = b
  BY DEF Forward
<1> HIDE DEF n
<1>3. \A m \in 0..n : m \in T
  <2>1. 0 \in T
    BY <1>1
  <2>2. ASSUME NEW m \in 1..n, m - 1 \in T PROVE m \in T
    <3> SUFFICES ASSUME NEW k \in 1..m, NEW j \in 1..(k - 1) PROVE c[j][2] <= c[k][1]
      BY <1>1
    <3>1. CASE k # m
      BY <1>1, <2>2, <3>1
    <3>2. CASE k = m
      <4>1. m - 1 \in 1..(n - 1) /\ m - 1 \in 1..n /\ (m - 1) + 1 = m
        BY <1>1, <3>2
      <4>2. c[m][1] = c[m - 1][2] /\ c[m - 1][1] < c[m - 1][2]
        BY <1>2, <4>1
      <4>3. j # m - 1 => c[j][2] <= c[m - 1][1]
        BY <1>1, <2>2, <3>2, <4>1
      <4>4. j \in 1..n
        BY <1>1, <3>2
      <4> QED
        BY <1>2, <3>2, <4>1, <4>2, <4>3, <4>4
    <3> QED
      BY <3>1, <3>2
  <2> HIDE DEF T
  <2> QED
    BY <1>1, <2>1, <2>2, InductUpto
<1>4. \A j, k \in 1..n : j < k => c[j][2] <= c[k][1]
  <2> SUFFICES ASSUME NEW j \in 1..n, NEW k \in 1..n, j < k PROVE c[j][2] <= c[k][1]
    OBVIOUS
  <2>1. n \in T /\ j \in 1..(k - 1)
    BY <1>1, <1>3
  <2> QED
    BY <2>1
<1>5. \A k \in 1..n : a <= c[k][1] /\ c[k][2] <= b
  <2> TAKE k \in 1..n
  <2>1. 1 \in 1..n /\ n \in 1..n
    BY <1>1
  <2>2. 1 < k => c[1][2] <= c[k][1]
    BY <1>4, <2>1
  <2>3. k < n => c[k][2] <= c[n][1]
    BY <1>4, <2>1
  <2> HIDE DEF T
  <2>4. /\ c[k][1] \in Int /\ c[k][2] \in Int /\ a \in Int /\ b \in Int
        /\ a < c[1][2] /\ c[n][1] < b /\ c[1][2] \in Int /\ c[n][1] \in Int
    BY <1>2, <2>1
  <2>5. k = 1 \/ 1 < k
    OBVIOUS
  <2>6. k = n \/ k < n
    BY <1>1
  <2>7. a <= c[k][1]
    BY <1>2, <2>2, <2>4, <2>5
  <2>8. c[k][2] <= b
    BY <1>2, <2>3, <2>4, <2>6
  <2> QED
    BY <2>7, <2>8
<1> QED
  BY <1>4, <1>5 DEF Intervals, Forward, n

\* Where a text may be cut: at some places, and at its ends.
Ends(text, places) == (places \cap (1..(Len(text) - 1))) \cup {0, Len(text)}

LEMMA TilingFacts ==
    ASSUME NEW text, Len(text) \in Nat, NEW places, NEW t \in Tilings(text, places)
    PROVE  /\ t \in Seq(Int \X Int)
           /\ Len(text) = 0 => t = <<>>
           /\ Len(text) > 0 => Forward(t, 0, Len(text), Ends(text, places))
<1> DEFINE n == Len(text)
<1>1. PICK c \in SUBSET (places \cap (1..(n - 1))) :
        t = [k \in 1..(Len(Ascending(c \cup {0, n})) - 1) |->
               <<Ascending(c \cup {0, n})[k], Ascending(c \cup {0, n})[k + 1]>>]
  BY DEF Tilings
<1> DEFINE S == c \cup {0, n}
           m == Cardinality(S)
           x(k) == NthLeast(S, k)
<1>2. n \in Nat /\ S \in SUBSET (0..n) /\ S \in SUBSET Int /\ 0 \in S /\ n \in S
      /\ S \in SUBSET Ends(text, places)
  BY DEF Ends
<1>3. IsFiniteSet(S)
  <2> HIDE DEF S
  <2> QED
    BY <1>2, FS_Interval, FS_Subset
<1>4. AscendingOf(S)
  <2> HIDE DEF S
  <2> QED
    BY <1>2, <1>3, AscendingFacts
<1>5. t = [k \in 1..(m - 1) |-> <<x(k), x(k + 1)>>]
  <2>1. Ascending(S) = [k \in 1..m |-> x(k)] /\ m \in Nat
    BY <1>4 DEF Ascending, AscendingOf
  <2>2. Len(Ascending(S)) = m
    <3> HIDE DEF S, m, x
    <3> QED
      BY <2>1
  <2>3. \A k \in 1..(m - 1) : k \in 1..m /\ k + 1 \in 1..m
    BY <2>1
  <2>4. t = [k \in 1..(m - 1) |-> <<Ascending(S)[k], Ascending(S)[k + 1]>>]
    BY <1>1, <2>2
  <2> HIDE DEF S, m, x
  <2> QED
    BY <2>1, <2>3, <2>4
<1>6. /\ m \in Nat
      /\ \A k \in 1..m : x(k) \in S /\ x(k) \in Int
      /\ \A j, k \in 1..m : j < k => x(j) < x(k)
      /\ \A y \in S : \E k \in 1..m : y = x(k)
  BY <1>4 DEF AscendingOf
<1> HIDE DEF S, m, x
<1>7. m >= 1 /\ x(1) = 0 /\ x(m) = n
  <2>1. PICK i \in 1..m : x(i) = 0
    BY <1>2, <1>6
  <2>2. PICK j \in 1..m : x(j) = n
    BY <1>2, <1>6
  <2>3. m >= 1 /\ 1 \in 1..m /\ m \in 1..m
    BY <1>6, <2>1
  <2>4. x(1) \in 0..n /\ x(m) \in 0..n
    BY <1>2, <1>6, <2>3
  <2>5. 1 < i => x(1) < 0
    BY <1>6, <2>1, <2>3
  <2>6. j < m => n < x(m)
    BY <1>6, <2>2, <2>3
  <2>7. i = 1 /\ j = m
    BY <1>2, <1>6, <2>3, <2>4, <2>5, <2>6
  <2> QED
    BY <2>1, <2>2, <2>3, <2>7
<1>8. \A k \in 1..(m - 1) : k \in 1..m /\ k + 1 \in 1..m /\ k < k + 1
  BY <1>6
<1>9. t \in Seq(Int \X Int) /\ Len(t) = m - 1
  <2>1. m - 1 \in Nat
    BY <1>6, <1>7
  <2>2. \A k \in 1..(m - 1) : <<x(k), x(k + 1)>> \in Int \X Int
    BY <1>6, <1>8
  <2> QED
    BY <1>5, <2>1, <2>2
<1>10. \A k \in 1..(m - 1) : t[k][1] = x(k) /\ t[k][2] = x(k + 1)
  BY <1>5
<1>11. ASSUME n = 0 PROVE t = <<>>
  <2>1. ~(1 < m)
    BY <1>6, <1>7, <1>11
  <2>2. m - 1 = 0
    BY <1>6, <1>7, <2>1
  <2> QED
    BY <1>9, <2>2
<1>12. ASSUME n > 0 PROVE Forward(t, 0, n, Ends(text, places))
  <2>1. m > 1
    BY <1>2, <1>6, <1>7, <1>12
  <2>2. Len(t) >= 1 /\ t # <<>> /\ 1 \in 1..(m - 1) /\ m - 1 \in 1..(m - 1) /\ (m - 1) + 1 = m
    BY <1>6, <1>9, <2>1
  <2>3. t[1][1] = 0 /\ t[Len(t)][2] = n
    BY <1>7, <1>9, <1>10, <2>2
  <2>4. \A k \in 1..(m - 1) : /\ t[k][1] \in Ends(text, places) /\ t[k][2] \in Ends(text, places)
                              /\ t[k][1] < t[k][2]
    BY <1>2, <1>6, <1>8, <1>10
  <2>5. \A k \in 1..((m - 1) - 1) : t[k + 1][1] = t[k][2]
    <3> TAKE k \in 1..((m - 1) - 1)
    <3>1. k \in 1..(m - 1) /\ k + 1 \in 1..(m - 1)
      BY <1>6
    <3> QED
      BY <1>10, <3>1
  <2> QED
    BY <1>9, <2>2, <2>3, <2>4, <2>5 DEF Forward
<1> QED
  BY <1>9, <1>11, <1>12

\* The elements picked from a sequence.
LEMMA PickFacts ==
    ASSUME NEW V, NEW s \in Seq(V), NEW K \in SUBSET DOMAIN s
    PROVE  /\ AscendingOf(K)
           /\ Pick(s, K) \in Seq(V) /\ Len(Pick(s, K)) = Cardinality(K)
           /\ \A k \in 1..Cardinality(K) : Pick(s, K)[k] = s[NthLeast(K, k)]
<1>1. DOMAIN s = 1..Len(s) /\ Len(s) \in Nat
  BY LenProperties
<1>2. K \in SUBSET Int /\ IsFiniteSet(K)
  <2>1. K \in SUBSET (1..Len(s)) /\ K \in SUBSET Int
    BY <1>1
  <2>2. IsFiniteSet(1..Len(s))
    BY <1>1, FS_Interval
  <2> QED
    BY <2>1, <2>2, FS_Subset
<1>3. AscendingOf(K)
  BY <1>2, AscendingFacts
<1>4. Cardinality(K) \in Nat /\ \A k \in 1..Cardinality(K) : NthLeast(K, k) \in K
  BY <1>3 DEF AscendingOf
<1>5. \A k \in 1..Cardinality(K) : s[NthLeast(K, k)] \in V
  BY <1>1, <1>4
<1> QED
  BY <1>3, <1>4, <1>5 DEF Pick

LEMMA IntervalsPick ==
    ASSUME NEW V, NEW s \in Seq(V), NEW K \in SUBSET DOMAIN s, NEW E, Intervals(s, E)
    PROVE  Intervals(Pick(s, K), E)
<1> DEFINE p == Pick(s, K)
           m == Cardinality(K)
           x(k) == NthLeast(K, k)
<1>1. DOMAIN s = 1..Len(s)
  BY LenProperties
<1>2. AscendingOf(K) /\ Len(p) = m /\ \A k \in 1..m : p[k] = s[x(k)]
  BY PickFacts
<1>3. /\ \A k \in 1..m : x(k) \in 1..Len(s)
      /\ \A j, k \in 1..m : j < k => x(j) < x(k)
  BY <1>1, <1>2 DEF AscendingOf
<1> HIDE DEF p, m, x
<1> QED
  BY <1>2, <1>3 DEF Intervals, p

\* What the regex engine answers.
LEMMA FindAllFacts ==
    ASSUME NEW text, Len(text) \in Nat, NEW ms \in FindAll(text)
    PROVE  /\ ms \in Seq(Int \X Int)
           /\ Intervals(ms, Ends(text, Boundaries(text)))
           /\ \A k \in 1..Len(ms) : 0 <= ms[k][1] /\ ms[k][2] <= Len(text)
<1> DEFINE E == Ends(text, Boundaries(text))
<1>0. PICK t \in Covering(text) : ms \in {Pick(t, K) : K \in SUBSET DOMAIN t}
  BY DEF FindAll
<1>1. PICK K \in SUBSET DOMAIN t : ms = Pick(t, K)
  BY <1>0
<1>2. /\ t \in Seq(Int \X Int)
      /\ Len(text) = 0 => t = <<>>
      /\ Len(text) > 0 => Forward(t, 0, Len(text), E)
  BY TilingFacts DEF Covering
<1>3. E \in SUBSET (0..Len(text))
  BY DEF Ends
<1>4. E \in SUBSET Int
  BY <1>3
<1> HIDE DEF E
<1>5. Intervals(t, E)
  <2>1. CASE Len(text) > 0
    BY <1>2, <1>4, <2>1, ForwardIntervals
  <2>2. CASE Len(text) = 0
    <3>1. \A k \in 1..Len(t) : FALSE
      BY <1>2, <2>2
    <3> QED
      BY <3>1 DEF Intervals
  <2> QED
    BY <2>1, <2>2
<1>6. ms \in Seq(Int \X Int) /\ Intervals(ms, E)
  BY <1>1, <1>2, <1>5, PickFacts, IntervalsPick
<1>7. \A k \in 1..Len(ms) : 0 <= ms[k][1] /\ ms[k][2] <= Len(text)
  <2> TAKE k \in 1..Len(ms)
  <2>1. ms[k][1] \in E /\ ms[k][2] \in E
    BY <1>6 DEF Intervals
  <2>2. ms[k][1] \in 0..Len(text) /\ ms[k][2] \in 0..Len(text)
    BY <1>3, <2>1, Zenon
  <2> QED
    BY <2>2
<1> QED
  BY <1>6, <1>7 DEF E

\* Nothing so far, or intervals up to p.
RunTo(c, p, E) == (c = <<>> /\ p = 0) \/ Forward(c, 0, p, E)

Segments == Int \X Int \X BOOLEAN

LEMMA RunAppend ==
    ASSUME NEW V, NEW c \in Seq(V), NEW x \in V, NEW E \in SUBSET Int, 0 \in E,
           RunTo(c, x[1], E), x[2] \in E, x[1] < x[2]
    PROVE  /\ Append(c, x) \in Seq(V) /\ RunTo(Append(c, x), x[2], E)
           /\ Append(c, x) # <<>>
<1>1. CASE c = <<>> /\ x[1] = 0
  BY <1>1, ForwardOne DEF RunTo, Forward
<1>2. CASE Forward(c, 0, x[1], E)
  BY <1>2, ForwardAppend DEF RunTo, Forward
<1> QED
  BY <1>1, <1>2 DEF RunTo

LEMMA GapFacts ==
    ASSUME NEW c \in Seq(Segments), NEW E \in SUBSET Int, 0 \in E, NEW p \in E, NEW q \in E,
           RunTo(c, p, E), p <= q
    PROVE  AddGap(c, p, q) \in Seq(Segments) /\ RunTo(AddGap(c, p, q), q, E)
<1>1. CASE p < q
  <2> DEFINE x == <<p, q, FALSE>>
  <2>1. x \in Segments /\ x[1] = p /\ x[2] = q
    BY DEF Segments
  <2>2. AddGap(c, p, q) = Append(c, x)
    BY <1>1 DEF AddGap
  <2> HIDE DEF x
  <2> QED
    BY <1>1, <2>1, <2>2, RunAppend
<1>2. CASE ~(p < q)
  <2>1. p = q /\ AddGap(c, p, q) = c
    BY <1>2 DEF AddGap
  <2> QED
    BY <2>1
<1> QED
  BY <1>1, <1>2

\* The matches and the gaps between them make up the text.
LEMMA BuildFacts ==
    ASSUME NEW text, Len(text) \in Nat, text # <<>>, NEW E \in SUBSET Int, {0, Len(text)} \subseteq E,
           NEW ms \in Seq(Int \X Int), Intervals(ms, E),
           \A k \in 1..Len(ms) : 0 <= ms[k][1] /\ ms[k][2] <= Len(text)
    PROVE  BuildSegments(text, ms) \in Seq(Segments) /\ RunTo(BuildSegments(text, ms), Len(text), E)
<1> DEFINE n == Len(ms)
           V == [segs : Seq(Segments), prev : Int]
           At(k, a) == /\ RunTo(a.segs, a.prev, E)
                       /\ a.prev = IF k = 0 THEN 0 ELSE ms[k][2]
<1>1. n \in Nat /\ DOMAIN ms = 1..n
  BY LenProperties
<1>2. \A k \in 1..n : /\ ms[k][1] \in E /\ ms[k][2] \in E /\ ms[k][1] < ms[k][2]
                      /\ ms[k][1] \in Int /\ ms[k][2] \in Int
                      /\ 0 <= ms[k][1] /\ ms[k][2] <= Len(text)
                      /\ (k > 1 => k - 1 \in 1..n /\ ms[k - 1][2] <= ms[k][1])
  <2> TAKE k \in 1..n
  <2>1. k > 1 => k - 1 \in 1..n /\ k - 1 < k
    BY <1>1
  <2> QED
    BY <2>1 DEF Intervals
<1>3. [segs |-> <<>>, prev |-> 0] \in V /\ At(0, [segs |-> <<>>, prev |-> 0])
  BY DEF RunTo
<1>4. ASSUME NEW a \in V, NEW k \in 1..n
      PROVE  /\ AddMatch(a, ms[k]) \in V
             /\ At(k - 1, a) => At(k, AddMatch(a, ms[k]))
  <2> DEFINE g == AddGap(a.segs, a.prev, ms[k][1])
             x == <<ms[k][1], ms[k][2], TRUE>>
  <2>1. x \in Segments /\ x[1] = ms[k][1] /\ x[2] = ms[k][2]
    BY <1>2 DEF Segments
  <2>2. AddMatch(a, ms[k]) = [segs |-> Append(g, x), prev |-> ms[k][2]]
    BY DEF AddMatch
  <2>3. g \in Seq(Segments)
    <3>1. <<a.prev, ms[k][1], FALSE>> \in Segments /\ a.segs \in Seq(Segments)
      BY <1>2 DEF Segments
    <3> QED
      BY <3>1 DEF AddGap
  <2> HIDE DEF g, x
  <2>4. AddMatch(a, ms[k]) \in V
    <3>1. Append(g, x) \in Seq(Segments)
      BY <2>1, <2>3
    <3> QED
      BY <1>2, <2>2, <3>1
  <2>5. ASSUME At(k - 1, a) PROVE At(k, AddMatch(a, ms[k]))
    <3>1. a.prev \in E /\ a.prev <= ms[k][1]
      <4>1. CASE k = 1
        BY <1>2, <2>5, <4>1
      <4>2. CASE k # 1
        <5>1. k > 1 /\ k - 1 # 0
          BY <4>2
        <5> QED
          BY <1>2, <2>5, <5>1
      <4> QED
        BY <4>1, <4>2
    <3>2. RunTo(g, ms[k][1], E)
      <4>1. a.segs \in Seq(Segments) /\ 0 \in E /\ ms[k][1] \in E
        BY <1>2
      <4> QED
        BY <2>5, <3>1, <4>1, GapFacts DEF g
    <3>3. RunTo(Append(g, x), x[2], E)
      BY <1>2, <2>1, <2>3, <3>2, RunAppend
    <3>4. k # 0
      OBVIOUS
    <3> QED
      BY <2>1, <2>2, <3>3, <3>4
  <2> QED
    BY <2>4, <2>5
<1> HIDE DEF V, At
<1>5. PICK f : BuildRun(f, V, n, ms)
  BY <1>1, <1>3, <1>4, BuildTrace
<1> DEFINE T == {k \in 0..n : At(k, f[k])}
<1>6. \A k \in 0..n : k \in T
  <2>1. 0 \in T
    BY <1>1, <1>3, <1>5 DEF BuildRun
  <2>2. \A k \in 1..n : k - 1 \in T => k \in T
    <3> TAKE k \in 1..n
    <3>1. k - 1 \in 0..n /\ k \in 0..n
      BY <1>1
    <3>2. f[k - 1] \in V /\ f[k] = AddMatch(f[k - 1], ms[k])
      BY <1>5, <3>1 DEF BuildRun
    <3> QED
      BY <1>4, <3>1, <3>2
  <2> HIDE DEF T
  <2> QED
    BY <1>1, <2>1, <2>2, InductUpto
<1>7. f[n] \in V /\ At(n, f[n]) /\ AddMatches(ms) = f[n]
  BY <1>1, <1>5, <1>6 DEF BuildRun
<1> DEFINE a == f[n]
<1>8. a.segs \in Seq(Segments) /\ RunTo(a.segs, a.prev, E) /\ a.prev \in E /\ a.prev <= Len(text)
  <2>1. n = 0 \/ n \in 1..n
    BY <1>1
  <2> QED
    BY <1>2, <1>7, <2>1 DEF V, At
<1>9. BuildSegments(text, ms) = AddGap(a.segs, a.prev, Len(text))
  BY <1>7 DEF BuildSegments
<1> HIDE DEF a
<1> QED
  BY <1>8, <1>9, GapFacts

Spans == Int \X Int
Joining == [out : Seq(Spans), prev : BOOLEAN, first : BOOLEAN]

\* A segment is a piece of its own, or part of the last piece.
Added(new, out, s) == new = Append(out, <<s[1], s[2]>>)
Joined(new, out, s) ==
    /\ out # <<>> /\ Len(new) = Len(out)
    /\ \A k \in 1..(Len(out) - 1) : new[k] = out[k]
    /\ new[Len(out)] = <<Min({out[Len(out)][1], s[1]}), Max({out[Len(out)][2], s[2]})>>

LEMMA JoinFacts ==
    ASSUME NEW out \in Seq(Spans), NEW s \in Segments
    PROVE  Join(out, s) \in Seq(Spans) /\ (Added(Join(out, s), out, s) \/ Joined(Join(out, s), out, s))
<1>1. s[1] \in Int /\ s[2] \in Int /\ <<s[1], s[2]>> \in Spans
  BY DEF Segments, Spans
<1>2. CASE out = <<>>
  <2> DEFINE x == <<s[1], s[2]>>
  <2>1. Join(out, s) = <<x>>
    BY <1>2 DEF Join
  <2>2. x \in Spans
    BY <1>1
  <2> HIDE DEF x
  <2>3. <<x>> = Append(out, x) /\ <<x>> \in Seq(Spans)
    BY <1>2, <2>2
  <2> QED
    BY <2>1, <2>3 DEF Added, x
<1>3. CASE out # <<>>
  <2> DEFINE n == Len(out)
             x == <<Min({out[n][1], s[1]}), Max({out[n][2], s[2]})>>
  <2>1. n \in 1..n /\ n \in Nat
    BY <1>3, EmptySeq
  <2>2. out[n][1] \in Int /\ out[n][2] \in Int
    BY <2>1, ElementOfSeq DEF Spans
  <2>3. x \in Spans
    <3>1. Min({out[n][1], s[1]}) \in Int
      BY <1>1, <2>2, MinOfTwo
    <3>2. Max({out[n][2], s[2]}) \in Int
      BY <1>1, <2>2, MaxOfTwo
    <3> QED
      BY <3>1, <3>2 DEF Spans
  <2>4. Join(out, s) = [out EXCEPT ![n] = x]
    BY <1>3 DEF Join
  <2>5. /\ [out EXCEPT ![n] = x] \in Seq(Spans)
        /\ Len([out EXCEPT ![n] = x]) = Len(out)
        /\ \A j \in 1 .. Len(out) : [out EXCEPT ![n] = x][j] = IF j = n THEN x ELSE out[j]
    <3> HIDE DEF x
    <3> QED
      BY <2>1, <2>3, ExceptSeq DEF n
  <2>6. \A j \in 1..(n - 1) : j \in 1..n /\ j # n
    BY <2>1
  <2> QED
    BY <1>3, <2>1, <2>4, <2>5, <2>6 DEF Joined
<1> QED
  BY <1>2, <1>3

LEMMA SegmentFacts ==
    ASSUME NEW a \in Joining, NEW s \in Segments, NEW b
    PROVE  /\ AddSegment(a, s, b) \in Joining
           /\ Added(AddSegment(a, s, b).out, a.out, s) \/ Joined(AddSegment(a, s, b).out, a.out, s)
           /\ b = "Removed" => Added(AddSegment(a, s, b).out, a.out, s)
<1> DEFINE new == IF Joins(b, s[3], a.prev, a.first) THEN Join(a.out, s)
                  ELSE Append(a.out, <<s[1], s[2]>>)
<1>1. AddSegment(a, s, b) = [out |-> new, prev |-> s[3], first |-> FALSE]
  BY DEF AddSegment
<1>2. a.out \in Seq(Spans) /\ s[3] \in BOOLEAN
  BY DEF Joining, Segments
<1>3. <<s[1], s[2]>> \in Spans
  BY DEF Segments, Spans
<1>4. new \in Seq(Spans) /\ (Added(new, a.out, s) \/ Joined(new, a.out, s))
  <2>1. CASE Joins(b, s[3], a.prev, a.first)
    BY <1>2, <2>1, JoinFacts
  <2>2. CASE ~Joins(b, s[3], a.prev, a.first)
    BY <1>2, <1>3, <2>2 DEF Added
  <2> QED
    BY <2>1, <2>2
<1>5. b = "Removed" => ~Joins(b, s[3], a.prev, a.first)
  BY DEF Joins
<1> QED
  BY <1>1, <1>2, <1>4, <1>5 DEF Joining, Added

\* The pieces after each segment.
PiecesAfter(f, segs, b) ==
    /\ f \in [0..Len(segs) -> Joining]
    /\ f[0].out = <<>>
    /\ \A k \in 1..Len(segs) : f[k] = AddSegment(f[k - 1], segs[k], b)
    /\ Pieces(segs, b) = f[Len(segs)].out

LEMMA PiecesExist ==
    ASSUME NEW segs \in Seq(Segments), NEW b
    PROVE  \E f : PiecesAfter(f, segs, b)
<1> DEFINE n == Len(segs)
<1>1. n \in Nat /\ DOMAIN segs = 1..n /\ \A k \in 1..n : segs[k] \in Segments
  BY LenProperties, ElementOfSeq
<1>2. [out |-> <<>>, prev |-> FALSE, first |-> TRUE] \in Joining
  BY DEF Joining
<1>3. \A a \in Joining, k \in 1..n : AddSegment(a, segs[k], b) \in Joining
  BY <1>1, SegmentFacts
<1> HIDE DEF n
<1>4. PICK f : PiecesRun(f, Joining, n, segs, b)
  BY <1>1, <1>2, <1>3, PiecesTrace
<1> QED
  BY <1>4 DEF PiecesRun, PiecesAfter, Pieces, n

\* Pieces of segments without gaps have no gaps.
LEMMA PiecesForward ==
    ASSUME NEW segs \in Seq(Segments), NEW b, NEW E \in SUBSET Int, NEW from, NEW to,
           Forward(segs, from, to, E)
    PROVE  Pieces(segs, b) \in Seq(Spans) /\ Forward(Pieces(segs, b), from, to, E)
<1> DEFINE n == Len(segs)
           At(k, out) == IF k = 0 THEN out = <<>> ELSE Forward(out, from, segs[k][2], E)
<1>1. PICK f : PiecesAfter(f, segs, b)
  BY PiecesExist
<1>2. n \in Nat \ {0} /\ \A k \in 1..n : segs[k] \in Segments
  BY EmptySeq, ElementOfSeq DEF Forward
<1>3. /\ segs[1][1] = from /\ segs[n][2] = to
      /\ \A k \in 1..n : segs[k][1] \in E /\ segs[k][2] \in E /\ segs[k][1] < segs[k][2]
      /\ \A k \in 1..(n - 1) : segs[k + 1][1] = segs[k][2]
  BY DEF Forward
<1>4. /\ \A k \in 0..n : f[k] \in Joining /\ f[k].out \in Seq(Spans)
      /\ f[0].out = <<>> /\ Pieces(segs, b) = f[n].out
      /\ \A k \in 1..n : f[k] = AddSegment(f[k - 1], segs[k], b)
  BY <1>1 DEF PiecesAfter, Joining
<1> HIDE DEF n
<1>5. ASSUME NEW k \in 1..n, At(k - 1, f[k - 1].out) PROVE At(k, f[k].out)
  <2> DEFINE s == segs[k]
             old == f[k - 1].out
             new == f[k].out
             x == <<s[1], s[2]>>
  <2>1. k \in 0..n /\ k - 1 \in 0..n /\ (k # 1 => k - 1 \in 1..(n - 1) /\ (k - 1) + 1 = k /\ k - 1 # 0)
    BY <1>2
  <2>2. Added(new, old, s) \/ Joined(new, old, s)
    BY <1>2, <1>4, <2>1, SegmentFacts
  <2>3. /\ x \in Spans /\ x[1] = s[1] /\ x[2] = s[2] /\ s[1] \in E /\ s[2] \in E /\ s[1] < s[2]
        /\ s[1] \in Int /\ s[2] \in Int
    BY <1>3 DEF Spans
  <2>4. old \in Seq(Spans) /\ new \in Seq(Spans)
    BY <1>4, <2>1
  <2>5. CASE k = 1
    <3>1. old = <<>> /\ s[1] = from
      BY <1>3, <1>5, <2>5
    <3>2. new = Append(<<>>, x)
      BY <2>2, <3>1 DEF Added, Joined
    <3> HIDE DEF x, new, s
    <3>3. Forward(new, from, s[2], E)
      BY <2>3, <3>1, <3>2, ForwardOne
    <3> QED
      BY <2>5, <3>3 DEF new, s
  <2>6. CASE k # 1
    <3>1. segs[k - 1][2] = s[1]
      BY <1>3, <2>1, <2>6
    <3>2. Forward(old, from, s[1], E)
      BY <1>5, <2>1, <2>6, <3>1
    <3>3. ASSUME Added(new, old, s) PROVE Forward(new, from, s[2], E)
      <4>1. new = Append(old, x)
        BY <3>3 DEF Added
      <4> HIDE DEF x, old, new, s
      <4>2. Forward(new, from, x[2], E)
        BY <2>3, <2>4, <3>2, <4>1, ForwardAppend
      <4> QED
        BY <2>3, <4>2
    <3>4. ASSUME Joined(new, old, s) PROVE Forward(new, from, s[2], E)
      <4> DEFINE m == Len(old)
      <4>1. /\ m \in 1..m /\ Len(new) = m
            /\ \A j \in 1..(m - 1) : new[j] = old[j]
            /\ new[m][1] = Min({old[m][1], s[1]}) /\ new[m][2] = Max({old[m][2], s[2]})
        BY <2>4, <3>4, EmptySeq DEF Joined
      <4>2. old[m][1] \in Int /\ old[m][2] = s[1] /\ old[m][1] < s[1]
        BY <3>2, <4>1 DEF Forward
      <4>2a. s[1] \in Int /\ s[2] \in Int /\ s[2] \in E /\ s[1] < s[2]
        BY <2>3
      <4> HIDE DEF x, s, old, new
      <4>3. Min({old[m][1], s[1]}) = old[m][1]
        <5>1. Min({old[m][1], s[1]}) \in {old[m][1], s[1]} /\ Min({old[m][1], s[1]}) <= old[m][1]
          BY <4>2, <4>2a, MinOfTwo
        <5> QED
          BY <4>2, <4>2a, <5>1
      <4>4. Max({old[m][2], s[2]}) = s[2]
        <5>1. Max({s[1], s[2]}) \in {s[1], s[2]} /\ s[2] <= Max({s[1], s[2]})
          BY <4>2a, MaxOfTwo
        <5> QED
          BY <4>2, <4>2a, <5>1
      <4>5. Forward(new, from, s[2], E)
        <5>1. new[m][1] = old[m][1] /\ new[m][2] = s[2]
          BY <4>1, <4>3, <4>4
        <5> QED
          BY SMTT(30), <2>4, <3>2, <4>1, <4>2a, <5>1, ForwardJoin
      <4> QED
        BY <4>5
    <3>5. Forward(new, from, s[2], E)
      BY <2>2, <3>3, <3>4
    <3> QED
      BY <3>5
  <2> QED
    BY <2>5, <2>6
<1> DEFINE T == {k \in 0..n : At(k, f[k].out)}
<1>6. \A k \in 0..n : k \in T
  <2>1. 0 \in T
    BY <1>2, <1>4
  <2>2. \A k \in 1..n : k - 1 \in T => k \in T
    <3> TAKE k \in 1..n
    <3>1. k \in 0..n
      BY <1>2
    <3>2. At(k - 1, f[k - 1].out) => At(k, f[k].out)
      BY <1>5
    <3> HIDE DEF At
    <3> QED
      BY <3>1, <3>2
  <2> HIDE DEF T
  <2> QED
    BY <1>2, <2>1, <2>2, InductUpto
<1>7. n \in 0..n /\ n # 0
  BY <1>2
<1>8. At(n, f[n].out)
  BY <1>6, <1>7
<1> QED
  BY <1>3, <1>4, <1>7, <1>8

LEMMA PiecesBackward ==
    ASSUME NEW segs \in Seq(Segments), NEW b, NEW E \in SUBSET Int, NEW from, NEW to,
           Backward(segs, from, to, E)
    PROVE  Pieces(segs, b) \in Seq(Spans) /\ Backward(Pieces(segs, b), from, to, E)
<1> DEFINE n == Len(segs)
           At(k, out) == IF k = 0 THEN out = <<>> ELSE Backward(out, segs[k][1], to, E)
<1>1. PICK f : PiecesAfter(f, segs, b)
  BY PiecesExist
<1>2. n \in Nat \ {0} /\ \A k \in 1..n : segs[k] \in Segments
  BY EmptySeq, ElementOfSeq DEF Backward
<1>3. /\ segs[n][1] = from /\ segs[1][2] = to
      /\ \A k \in 1..n : segs[k][1] \in E /\ segs[k][2] \in E /\ segs[k][1] < segs[k][2]
      /\ \A k \in 1..(n - 1) : segs[k][1] = segs[k + 1][2]
  BY DEF Backward
<1>4. /\ \A k \in 0..n : f[k] \in Joining /\ f[k].out \in Seq(Spans)
      /\ f[0].out = <<>> /\ Pieces(segs, b) = f[n].out
      /\ \A k \in 1..n : f[k] = AddSegment(f[k - 1], segs[k], b)
  BY <1>1 DEF PiecesAfter, Joining
<1> HIDE DEF n
<1>5. ASSUME NEW k \in 1..n, At(k - 1, f[k - 1].out) PROVE At(k, f[k].out)
  <2> DEFINE s == segs[k]
             old == f[k - 1].out
             new == f[k].out
             x == <<s[1], s[2]>>
  <2>1. k \in 0..n /\ k - 1 \in 0..n /\ (k # 1 => k - 1 \in 1..(n - 1) /\ (k - 1) + 1 = k /\ k - 1 # 0)
    BY <1>2
  <2>2. Added(new, old, s) \/ Joined(new, old, s)
    BY <1>2, <1>4, <2>1, SegmentFacts
  <2>3. /\ x \in Spans /\ x[1] = s[1] /\ x[2] = s[2] /\ s[1] \in E /\ s[2] \in E /\ s[1] < s[2]
        /\ s[1] \in Int /\ s[2] \in Int
    BY <1>3 DEF Spans
  <2>4. old \in Seq(Spans) /\ new \in Seq(Spans)
    BY <1>4, <2>1
  <2>5. CASE k = 1
    <3>1. old = <<>> /\ s[2] = to
      BY <1>3, <1>5, <2>5
    <3>2. new = Append(<<>>, x)
      BY <2>2, <3>1 DEF Added, Joined
    <3> HIDE DEF x, new, s
    <3>3. Backward(new, s[1], to, E)
      BY <2>3, <3>1, <3>2, ForwardOne
    <3> QED
      BY <2>5, <3>3 DEF new, s
  <2>6. CASE k # 1
    <3>1. segs[k - 1][1] = s[2]
      BY <1>3, <2>1, <2>6
    <3>2. Backward(old, s[2], to, E)
      BY <1>5, <2>1, <2>6, <3>1
    <3>3. ASSUME Added(new, old, s) PROVE Backward(new, s[1], to, E)
      <4>1. new = Append(old, x)
        BY <3>3 DEF Added
      <4> HIDE DEF x, old, new, s
      <4>2. Backward(new, x[1], to, E)
        BY <2>3, <2>4, <3>2, <4>1, BackwardAppend
      <4> QED
        BY <2>3, <4>2
    <3>4. ASSUME Joined(new, old, s) PROVE Backward(new, s[1], to, E)
      <4> DEFINE m == Len(old)
      <4>1. /\ m \in 1..m /\ Len(new) = m
            /\ \A j \in 1..(m - 1) : new[j] = old[j]
            /\ new[m][1] = Min({old[m][1], s[1]}) /\ new[m][2] = Max({old[m][2], s[2]})
        BY <2>4, <3>4, EmptySeq DEF Joined
      <4>2. old[m][2] \in Int /\ old[m][1] = s[2] /\ s[2] < old[m][2]
        BY <3>2, <4>1 DEF Backward
      <4>2a. s[1] \in Int /\ s[2] \in Int /\ s[1] \in E /\ s[1] < s[2]
        BY <2>3
      <4> HIDE DEF x, s, old, new
      <4>3. Min({old[m][1], s[1]}) = s[1]
        <5>1. Min({s[2], s[1]}) \in {s[2], s[1]} /\ Min({s[2], s[1]}) <= s[1]
          BY <4>2a, MinOfTwo
        <5> QED
          BY <4>2, <4>2a, <5>1
      <4>4. Max({old[m][2], s[2]}) = old[m][2]
        <5>1. Max({old[m][2], s[2]}) \in {old[m][2], s[2]} /\ old[m][2] <= Max({old[m][2], s[2]})
          BY <4>2, <4>2a, MaxOfTwo
        <5> QED
          BY <4>2, <4>2a, <5>1
      <4>5. Backward(new, s[1], to, E)
        BY <2>4, <3>2, <4>1, <4>2a, <4>3, <4>4, BackwardJoin
      <4> QED
        BY <4>5
    <3>5. Backward(new, s[1], to, E)
      BY <2>2, <3>3, <3>4
    <3> QED
      BY <3>5
  <2> QED
    BY <2>5, <2>6
<1> DEFINE T == {k \in 0..n : At(k, f[k].out)}
<1>6. \A k \in 0..n : k \in T
  <2>1. 0 \in T
    BY <1>2, <1>4
  <2>2. \A k \in 1..n : k - 1 \in T => k \in T
    <3> TAKE k \in 1..n
    <3>1. k \in 0..n
      BY <1>2
    <3>2. At(k - 1, f[k - 1].out) => At(k, f[k].out)
      BY <1>5
    <3> HIDE DEF At
    <3> QED
      BY <3>1, <3>2
  <2> HIDE DEF T
  <2> QED
    BY <1>2, <2>1, <2>2, InductUpto
<1>7. n \in 0..n /\ n # 0
  BY <1>2
<1>8. At(n, f[n].out)
  BY <1>6, <1>7
<1> QED
  BY <1>3, <1>4, <1>7, <1>8

\* The segments that are left when the others are removed, each a piece.
LEMMA PiecesRemoved ==
    ASSUME NEW segs \in Seq(Segments), NEW E, Intervals(segs, E)
    PROVE  Pieces(segs, "Removed") \in Seq(Spans) /\ Intervals(Pieces(segs, "Removed"), E)
<1> DEFINE n == Len(segs)
           At(k, out) == Len(out) = k /\ \A j \in 1..k : out[j] = <<segs[j][1], segs[j][2]>>
<1>1. PICK f : PiecesAfter(f, segs, "Removed")
  BY PiecesExist
<1>2. n \in Nat /\ \A k \in 1..n : segs[k] \in Segments
  BY LenProperties, ElementOfSeq
<1>4. /\ \A k \in 0..n : f[k] \in Joining /\ f[k].out \in Seq(Spans)
      /\ f[0].out = <<>> /\ Pieces(segs, "Removed") = f[n].out
      /\ \A k \in 1..n : f[k] = AddSegment(f[k - 1], segs[k], "Removed")
  BY <1>1 DEF PiecesAfter, Joining
<1> HIDE DEF n
<1>5. ASSUME NEW k \in 1..n, At(k - 1, f[k - 1].out) PROVE At(k, f[k].out)
  <2> DEFINE old == f[k - 1].out
             new == f[k].out
             x == <<segs[k][1], segs[k][2]>>
  <2>1. k \in 0..n /\ k - 1 \in 0..n /\ (k - 1) + 1 = k
    BY <1>2
  <2>2. new = Append(old, x)
    <3>1. f[k - 1] \in Joining /\ segs[k] \in Segments /\ f[k] = AddSegment(f[k - 1], segs[k], "Removed")
      BY <1>2, <1>4, <2>1
    <3>2. Added(AddSegment(f[k - 1], segs[k], "Removed").out, f[k - 1].out, segs[k])
      BY <3>1, SegmentFacts
    <3> QED
      BY <3>1, <3>2 DEF Added
  <2>3. old \in Seq(Spans) /\ x \in Spans
    BY <1>2, <1>4, <2>1 DEF Segments, Spans
  <2> HIDE DEF x
  <2>4. Len(new) = Len(old) + 1 /\ new[Len(old) + 1] = x /\ \A j \in 1..Len(old) : new[j] = old[j]
    BY <2>2, <2>3, AppendProperties
  <2>5. Len(old) = k - 1 /\ \A j \in 1..(k - 1) : old[j] = <<segs[j][1], segs[j][2]>>
    BY <1>5
  <2> HIDE DEF old, new
  <2>6. Len(new) = k /\ \A j \in 1..k : new[j] = <<segs[j][1], segs[j][2]>>
    <3>1. \A j \in 1..k : j # k => j \in 1..(k - 1)
      BY <2>1
    <3> QED
      BY <2>1, <2>4, <2>5, <3>1 DEF x
  <2> QED
    BY <2>6 DEF new
<1> DEFINE T == {k \in 0..n : At(k, f[k].out)}
<1>6. \A k \in 0..n : k \in T
  <2>1. 0 \in T
    BY <1>2, <1>4
  <2>2. \A k \in 1..n : k - 1 \in T => k \in T
    <3> TAKE k \in 1..n
    <3>1. k \in 0..n
      BY <1>2
    <3>2. At(k - 1, f[k - 1].out) => At(k, f[k].out)
      BY <1>5
    <3> HIDE DEF At
    <3> QED
      BY <3>1, <3>2
  <2> HIDE DEF T
  <2> QED
    BY <1>2, <2>1, <2>2, InductUpto
<1>7. n \in 0..n
  BY <1>2
<1>8. At(n, f[n].out)
  BY <1>6, <1>7
<1> DEFINE p == f[n].out
<1>9. Len(p) = n /\ \A j \in 1..n : p[j][1] = segs[j][1] /\ p[j][2] = segs[j][2]
  BY <1>8
<1> HIDE DEF p
<1>10. Intervals(p, E)
  BY <1>9 DEF Intervals, n
<1> QED
  BY <1>4, <1>7, <1>10 DEF p

\* What apply_behavior makes of the segments of a text of n bytes.
LEMMA BehaviorFacts ==
    ASSUME NEW segs \in Seq(Segments), NEW b \in Behaviors, NEW E \in SUBSET Int, NEW n,
           Forward(segs, 0, n, E)
    PROVE  /\ ApplyBehavior(segs, b) \in Seq(Spans) /\ Intervals(ApplyBehavior(segs, b), E)
           /\ b # "Removed" => Forward(ApplyBehavior(segs, b), 0, n, E)
<1>1. CASE b = "Removed"
  <2> DEFINE K == {k \in DOMAIN segs : ~segs[k][3]}
             left == Pick(segs, K)
  <2>1. ApplyBehavior(segs, b) = Pieces(left, "Removed")
    BY <1>1 DEF ApplyBehavior
  <2>2. K \in SUBSET DOMAIN segs
    OBVIOUS
  <2> HIDE DEF K
  <2>3. Intervals(segs, E)
    BY ForwardIntervals
  <2>4. left \in Seq(Segments) /\ Intervals(left, E)
    BY <2>2, <2>3, PickFacts, IntervalsPick
  <2> HIDE DEF left
  <2> QED
    BY <1>1, <2>1, <2>4, PiecesRemoved
<1>2. CASE b = "MergedWithNext"
  <2> DEFINE r == Reverse(segs)
             p == Pieces(r, b)
  <2>1. ApplyBehavior(segs, b) = Reverse(p)
    BY <1>2 DEF ApplyBehavior
  <2>2. r \in Seq(Segments) /\ Backward(r, 0, n, E)
    BY ReverseIntervals
  <2> HIDE DEF r
  <2>3. p \in Seq(Spans) /\ Backward(p, 0, n, E)
    BY <2>2, PiecesBackward
  <2> HIDE DEF p
  <2>4. Reverse(p) \in Seq(Spans) /\ Forward(Reverse(p), 0, n, E)
    BY <2>3, ReverseIntervals
  <2>5. Intervals(Reverse(p), E)
    BY <2>4, ForwardIntervals
  <2> QED
    BY <2>1, <2>4, <2>5
<1>3. CASE b \notin {"Removed", "MergedWithNext"}
  <2>1. ApplyBehavior(segs, b) = Pieces(segs, b)
    BY <1>3 DEF ApplyBehavior
  <2>2. Pieces(segs, b) \in Seq(Spans) /\ Forward(Pieces(segs, b), 0, n, E)
    BY PiecesForward
  <2>3. Intervals(Pieces(segs, b), E)
    BY <2>2, ForwardIntervals
  <2> QED
    BY <2>1, <2>2, <2>3
<1> QED
  BY <1>1, <1>2, <1>3

LEMMA ExtendedFacts ==
    ASSUME NEW A, NEW B, NEW y \in Extended(A, B)
    PROVE  \E x \in A, c \in B : y = x \o c
BY DEF Extended

\* The concatenations of one result each, from what each result adds.
LEMMA ConcatenationsWithin ==
    ASSUME NEW S, NEW n \in Nat, NEW R, DOMAIN R = 1..n, \A k \in 1..n : R[k] \in SUBSET Seq(S),
           NEW G, <<>> \in G[0],
           \A k \in 1..n : \A a \in G[k - 1] \cap Seq(S), c \in R[k] : a \o c \in G[k]
    PROVE  Concatenations(R) \in SUBSET Seq(S) /\ Concatenations(R) \in SUBSET G[n]
<1> DEFINE V == SUBSET Seq(S)
<1>1. {<<>>} \in V
  BY EmptySeq
<1>2. ASSUME NEW a \in V, NEW k \in 1..n PROVE Extended(a, R[k]) \in V
  <2> DEFINE B == R[k]
  <2>1. \A x \in a, c \in B : x \o c \in Seq(S)
    BY ConcatProperties
  <2> HIDE DEF B
  <2>2. \A y \in Extended(a, B) : \E x \in a, c \in B : y = x \o c
    BY ExtendedFacts
  <2>3. Extended(a, B) \in SUBSET Seq(S)
    <3> SUFFICES ASSUME NEW y \in Extended(a, B) PROVE y \in Seq(S)
      OBVIOUS
    <3>1. PICK x \in a : \E c \in B : y = x \o c
      BY <2>2
    <3>2. PICK c \in B : y = x \o c
      BY <3>1
    <3> QED
      BY <2>1, <3>2
  <2> QED
    BY <2>3 DEF B
<1>3. PICK f : ConcatRun(f, V, n, R)
  <2> HIDE DEF V
  <2> QED
    BY <1>1, <1>2, ConcatTrace
<1>4. /\ \A k \in 0..n : f[k] \in SUBSET Seq(S)
      /\ f[0] = {<<>>} /\ Concatenations(R) = f[n]
      /\ \A k \in 1..n : f[k] = Extended(f[k - 1], R[k])
  BY <1>3 DEF ConcatRun
<1> DEFINE T == {k \in 0..n : f[k] \in SUBSET G[k]}
<1>5. \A k \in 0..n : k \in T
  <2>1. 0 \in T
    BY <1>4
  <2>2. ASSUME NEW k \in 1..n, k - 1 \in T PROVE k \in T
    <3>1. k \in 0..n /\ k - 1 \in 0..n
      OBVIOUS
    <3>2. \A x \in f[k - 1] : x \in G[k - 1] \cap Seq(S)
      BY <1>4, <2>2, <3>1
    <3>3. \A y \in f[k] : \E x \in f[k - 1], c \in R[k] : y = x \o c
      <4> DEFINE A == f[k - 1]
                 B == R[k]
      <4>1. f[k] = Extended(A, B)
        BY <1>4
      <4> HIDE DEF A, B
      <4>2. \A y \in f[k] : \E x \in A, c \in B : y = x \o c
        BY <4>1, ExtendedFacts
      <4> QED
        BY <4>2 DEF A, B
    <3>4. \A y \in f[k] : y \in G[k]
      BY ZenonT(30), <3>2, <3>3
    <3> QED
      BY <3>1, <3>4
  <2> HIDE DEF T
  <2> QED
    BY <2>1, <2>2, InductUpto
<1>6. n \in 0..n
  OBVIOUS
<1> QED
  BY <1>4, <1>5, <1>6

-------------------------------------------------------------------------------
(* The bytes ByteLevel spells. *)

Bytes == [b : PlainClasses \cup MappedClasses, src : Int]

Heads == {"g1", "m1", "upper", "lower", "dash"}
Tails == {"g2", "m2"}
Kept == {"upper", "lower", "dash"}
Image(c, d) ==
    /\ c = "space" <=> d \in {"g1", "g2"}
    /\ c \in Kept => d = c
    /\ c \notin Kept \cup {"space"} => d \in {"m1", "m2"}
Spelled(c, d) == (c = "g1" /\ d = "g2") \/ (c = "m1" /\ d = "m2")

\* The text and alignment after k bytes of a segment.
MapUpto(t, a, seg, k) ==
    /\ t \in Seq(Bytes) /\ a \in Seq(Int) /\ Len(a) = Len(t)
    /\ \A j \in 1..Len(t) : /\ a[j] \in 0..(k - 1) /\ t[j].src = seg[a[j] + 1].src
                            /\ Image(seg[a[j] + 1].b, t[j].b)
    /\ \A j \in 1..(Len(t) - 1) : \/ a[j + 1] = a[j] /\ Spelled(t[j].b, t[j + 1].b)
                                  \/ a[j + 1] = a[j] + 1 /\ t[j + 1].b \in Heads
    /\ \A i \in 1..k : \E j \in 1..Len(t) : a[j] = i - 1 /\ t[j].b \notin Tails
    /\ \A i, j \in 1..Len(t) : i < j /\ t[i].b \notin Tails /\ t[j].b \notin Tails => a[i] < a[j]
    /\ k = 0 => t = <<>>
    /\ k # 0 => t # <<>> /\ a[1] = 0 /\ a[Len(t)] = k - 1 /\ t[1].b \in Heads

\* The first byte a byte is mapped to.
LEMMA MapHead ==
    ASSUME NEW seg \in Seq(Bytes), NEW k \in 1..Len(seg), NEW t, NEW a, MapUpto(t, a, seg, k - 1),
           NEW x \in Bytes, x.src = seg[k].src, x.b \in Heads, Image(seg[k].b, x.b)
    PROVE  MapUpto(Append(t, x), Append(a, k - 1), seg, k)
<1> DEFINE u == Append(t, x)
           e == Append(a, k - 1)
           n == Len(t)
<1>1. t \in Seq(Bytes) /\ a \in Seq(Int) /\ Len(a) = n /\ n \in Nat /\ k - 1 \in Int
  BY LenProperties DEF MapUpto
<1>2. /\ u \in Seq(Bytes) /\ u # <<>> /\ Len(u) = n + 1
      /\ \A i \in 1..n : u[i] = t[i]
      /\ u[n + 1] = x
  BY <1>1, AppendProperties
<1>3. /\ e \in Seq(Int) /\ Len(e) = n + 1
      /\ \A i \in 1..n : e[i] = a[i]
      /\ e[n + 1] = k - 1
  BY <1>1, AppendProperties
<1>4. /\ \A j \in 1..n : /\ a[j] \in 0..((k - 1) - 1) /\ t[j].src = seg[a[j] + 1].src
                         /\ Image(seg[a[j] + 1].b, t[j].b)
      /\ \A j \in 1..(n - 1) : \/ a[j + 1] = a[j] /\ Spelled(t[j].b, t[j + 1].b)
                               \/ a[j + 1] = a[j] + 1 /\ t[j + 1].b \in Heads
      /\ \A i \in 1..(k - 1) : \E j \in 1..n : a[j] = i - 1 /\ t[j].b \notin Tails
      /\ \A i, j \in 1..n : i < j /\ t[i].b \notin Tails /\ t[j].b \notin Tails => a[i] < a[j]
      /\ k - 1 = 0 => n = 0
      /\ k - 1 # 0 => n # 0 /\ a[1] = 0 /\ a[n] = (k - 1) - 1 /\ t[1].b \in Heads
  BY <1>1, EmptySeq DEF MapUpto
<1>5. k \in Nat \ {0} /\ x.b \notin Tails
  BY LenProperties DEF Heads, Tails
<1> HIDE DEF u, e, n
<1>6. \A j \in 1..(n + 1) : j = n + 1 \/ j \in 1..n
  BY <1>1
<1>7. \A j \in 1..(n + 1) : /\ e[j] \in 0..(k - 1) /\ u[j].src = seg[e[j] + 1].src
                            /\ Image(seg[e[j] + 1].b, u[j].b)
  <2> SUFFICES ASSUME NEW j \in 1..(n + 1)
               PROVE  /\ e[j] \in 0..(k - 1) /\ u[j].src = seg[e[j] + 1].src
                      /\ Image(seg[e[j] + 1].b, u[j].b)
    OBVIOUS
  <2>1. CASE j = n + 1
    <3>1. e[j] = k - 1 /\ u[j] = x /\ e[j] + 1 = k /\ k - 1 \in 0..(k - 1)
      BY <1>2, <1>3, <1>5, <2>1
    <3> QED
      BY <3>1
  <2>2. CASE j \in 1..n
    <3>1. e[j] = a[j] /\ u[j] = t[j] /\ a[j] \in 0..((k - 1) - 1)
      BY <1>2, <1>3, <1>4, <2>2
    <3>2. a[j] \in 0..(k - 1)
      BY <1>5, <3>1
    <3> QED
      BY <1>4, <2>2, <3>1, <3>2
  <2> QED
    BY <1>6, <2>1, <2>2
<1>8. \A j \in 1..n : \/ e[j + 1] = e[j] /\ Spelled(u[j].b, u[j + 1].b)
                      \/ e[j + 1] = e[j] + 1 /\ u[j + 1].b \in Heads
  <2> SUFFICES ASSUME NEW j \in 1..n
               PROVE  \/ e[j + 1] = e[j] /\ Spelled(u[j].b, u[j + 1].b)
                      \/ e[j + 1] = e[j] + 1 /\ u[j + 1].b \in Heads
    OBVIOUS
  <2>1. CASE j = n
    <3>1. e[j + 1] = k - 1 /\ u[j + 1] = x /\ e[j] = a[n] /\ k - 1 # 0
      BY <1>1, <1>2, <1>3, <1>4, <2>1
    <3> QED
      BY <1>4, <1>5, <3>1
  <2>2. CASE j # n
    <3>1. j \in 1..(n - 1) /\ j + 1 \in 1..n
      BY <1>1, <2>2
    <3> QED
      BY <1>2, <1>3, <1>4, <3>1
  <2> QED
    BY <2>1, <2>2
<1>9. \A i \in 1..k : \E j \in 1..(n + 1) : e[j] = i - 1 /\ u[j].b \notin Tails
  <2> SUFFICES ASSUME NEW i \in 1..k
               PROVE  \E j \in 1..(n + 1) : e[j] = i - 1 /\ u[j].b \notin Tails
    OBVIOUS
  <2>1. CASE i = k
    <3>1. n + 1 \in 1..(n + 1)
      BY <1>1
    <3> QED
      BY <1>2, <1>3, <1>5, <2>1, <3>1
  <2>2. CASE i # k
    <3>1. i \in 1..(k - 1)
      BY <1>5, <2>2
    <3>2. PICK j \in 1..n : a[j] = i - 1 /\ t[j].b \notin Tails
      BY <1>4, <3>1
    <3>3. j \in 1..(n + 1)
      BY <1>1
    <3> QED
      BY <1>2, <1>3, <3>2, <3>3
  <2> QED
    BY <2>1, <2>2
<1>10. \A i, j \in 1..(n + 1) : i < j /\ u[i].b \notin Tails /\ u[j].b \notin Tails => e[i] < e[j]
  <2> SUFFICES ASSUME NEW i \in 1..(n + 1), NEW j \in 1..(n + 1), i < j,
                      u[i].b \notin Tails, u[j].b \notin Tails
               PROVE  e[i] < e[j]
    OBVIOUS
  <2>1. i \in 1..n
    BY <1>1
  <2>2. e[i] = a[i] /\ u[i] = t[i] /\ a[i] \in 0..((k - 1) - 1)
    BY <1>2, <1>3, <1>4, <2>1
  <2>3. CASE j = n + 1
    BY <1>3, <1>5, <2>2, <2>3
  <2>4. CASE j \in 1..n
    BY <1>2, <1>3, <1>4, <2>1, <2>2, <2>4
  <2> QED
    BY <1>6, <2>3, <2>4
<1>11. e[1] = 0 /\ e[n + 1] = k - 1 /\ u[1].b \in Heads
  <2>1. CASE n = 0
    BY <1>2, <1>3, <1>4, <1>5, <2>1
  <2>2. CASE n # 0
    <3>1. 1 \in 1..n
      BY <1>1, <2>2
    <3> QED
      BY <1>2, <1>3, <1>4, <1>5, <2>2, <3>1
  <2> QED
    BY <2>1, <2>2
<1>12. (n + 1) - 1 = n /\ k # 0
  BY <1>1, <1>5
<1>13. MapUpto(u, e, seg, k)
  BY <1>2, <1>3, <1>7, <1>8, <1>9, <1>10, <1>11, <1>12 DEF MapUpto
<1> QED
  BY <1>13 DEF u, e

\* The second byte a byte is mapped to.
LEMMA MapTail ==
    ASSUME NEW seg \in Seq(Bytes), NEW k \in 1..Len(seg), NEW t, NEW a, MapUpto(t, a, seg, k),
           NEW x \in Bytes, x.src = seg[k].src, Spelled(t[Len(t)].b, x.b), Image(seg[k].b, x.b)
    PROVE  MapUpto(Append(t, x), Append(a, k - 1), seg, k)
<1> DEFINE u == Append(t, x)
           e == Append(a, k - 1)
           n == Len(t)
<1>0. k \in Nat \ {0} /\ x.b \in Tails
  BY LenProperties DEF Spelled, Tails
<1>1. /\ t \in Seq(Bytes) /\ a \in Seq(Int) /\ Len(a) = n /\ n \in Nat \ {0} /\ k - 1 \in Int
  BY <1>0, EmptySeq DEF MapUpto
<1>2. /\ u \in Seq(Bytes) /\ u # <<>> /\ Len(u) = n + 1
      /\ \A i \in 1..n : u[i] = t[i]
      /\ u[n + 1] = x
  BY <1>1, AppendProperties
<1>3. /\ e \in Seq(Int) /\ Len(e) = n + 1
      /\ \A i \in 1..n : e[i] = a[i]
      /\ e[n + 1] = k - 1
  BY <1>1, AppendProperties
<1>4. /\ \A j \in 1..n : /\ a[j] \in 0..(k - 1) /\ t[j].src = seg[a[j] + 1].src
                         /\ Image(seg[a[j] + 1].b, t[j].b)
      /\ \A j \in 1..(n - 1) : \/ a[j + 1] = a[j] /\ Spelled(t[j].b, t[j + 1].b)
                               \/ a[j + 1] = a[j] + 1 /\ t[j + 1].b \in Heads
      /\ \A i \in 1..k : \E j \in 1..n : a[j] = i - 1 /\ t[j].b \notin Tails
      /\ \A i, j \in 1..n : i < j /\ t[i].b \notin Tails /\ t[j].b \notin Tails => a[i] < a[j]
      /\ a[1] = 0 /\ a[n] = k - 1 /\ t[1].b \in Heads
  BY <1>0 DEF MapUpto
<1>5. Spelled(t[n].b, x.b)
  OBVIOUS
<1> HIDE DEF u, e, n
<1>6. \A j \in 1..(n + 1) : j = n + 1 \/ j \in 1..n
  BY <1>1
<1>7. \A j \in 1..(n + 1) : /\ e[j] \in 0..(k - 1) /\ u[j].src = seg[e[j] + 1].src
                            /\ Image(seg[e[j] + 1].b, u[j].b)
  <2> SUFFICES ASSUME NEW j \in 1..(n + 1)
               PROVE  /\ e[j] \in 0..(k - 1) /\ u[j].src = seg[e[j] + 1].src
                      /\ Image(seg[e[j] + 1].b, u[j].b)
    OBVIOUS
  <2>1. CASE j = n + 1
    <3>1. e[j] = k - 1 /\ u[j] = x /\ e[j] + 1 = k /\ k - 1 \in 0..(k - 1)
      BY <1>0, <1>2, <1>3, <2>1
    <3> QED
      BY <3>1
  <2>2. CASE j \in 1..n
    BY <1>2, <1>3, <1>4, <2>2
  <2> QED
    BY <1>6, <2>1, <2>2
<1>8. \A j \in 1..n : \/ e[j + 1] = e[j] /\ Spelled(u[j].b, u[j + 1].b)
                      \/ e[j + 1] = e[j] + 1 /\ u[j + 1].b \in Heads
  <2> SUFFICES ASSUME NEW j \in 1..n
               PROVE  \/ e[j + 1] = e[j] /\ Spelled(u[j].b, u[j + 1].b)
                      \/ e[j + 1] = e[j] + 1 /\ u[j + 1].b \in Heads
    OBVIOUS
  <2>1. CASE j = n
    BY <1>2, <1>3, <1>4, <1>5, <2>1
  <2>2. CASE j # n
    <3>1. j \in 1..(n - 1) /\ j + 1 \in 1..n
      BY <1>1, <2>2
    <3> QED
      BY <1>2, <1>3, <1>4, <3>1
  <2> QED
    BY <2>1, <2>2
<1>9. \A i \in 1..k : \E j \in 1..(n + 1) : e[j] = i - 1 /\ u[j].b \notin Tails
  <2> SUFFICES ASSUME NEW i \in 1..k
               PROVE  \E j \in 1..(n + 1) : e[j] = i - 1 /\ u[j].b \notin Tails
    OBVIOUS
  <2>1. PICK j \in 1..n : a[j] = i - 1 /\ t[j].b \notin Tails
    BY <1>4
  <2>2. j \in 1..(n + 1)
    BY <1>1
  <2> QED
    BY <1>2, <1>3, <2>1, <2>2
<1>10. \A i, j \in 1..(n + 1) : i < j /\ u[i].b \notin Tails /\ u[j].b \notin Tails => e[i] < e[j]
  <2> SUFFICES ASSUME NEW i \in 1..(n + 1), NEW j \in 1..(n + 1), i < j,
                      u[i].b \notin Tails, u[j].b \notin Tails
               PROVE  e[i] < e[j]
    OBVIOUS
  <2>1. i \in 1..n
    BY <1>1
  <2>2. e[i] = a[i] /\ u[i] = t[i]
    BY <1>2, <1>3, <2>1
  <2>3. j # n + 1
    BY <1>0, <1>2
  <2> QED
    BY <1>2, <1>3, <1>4, <1>6, <2>1, <2>2, <2>3
<1>11. e[1] = 0 /\ e[n + 1] = k - 1 /\ u[1].b \in Heads
  <2>1. 1 \in 1..n
    BY <1>1
  <2> QED
    BY <1>2, <1>3, <1>4, <2>1
<1>12. (n + 1) - 1 = n /\ k # 0
  BY <1>0, <1>1
<1>13. MapUpto(u, e, seg, k)
  BY <1>2, <1>3, <1>7, <1>8, <1>9, <1>10, <1>11, <1>12 DEF MapUpto
<1> QED
  BY <1>13 DEF u, e

LEMMA ConcatAppend ==
    ASSUME NEW S, NEW s \in Seq(S), NEW x \in S, NEW y \in S
    PROVE  s \o <<x>> = Append(s, x) /\ s \o <<x, y>> = Append(Append(s, x), y)
<1>1. <<x>> \in Seq(S) /\ <<x, y>> \in Seq(S) /\ Append(s, x) \in Seq(S)
  OBVIOUS
<1> QED
  BY <1>1

LEMMA MapByteFacts ==
    ASSUME NEW seg \in Seq(Bytes), NEW k \in 1..Len(seg), NEW acc,
           acc = [text |-> acc.text, align |-> acc.align], MapUpto(acc.text, acc.align, seg, k - 1)
    PROVE  /\ MapByte(acc, seg, k) = [text |-> MapByte(acc, seg, k).text,
                                      align |-> MapByte(acc, seg, k).align]
           /\ MapUpto(MapByte(acc, seg, k).text, MapByte(acc, seg, k).align, seg, k)
<1> DEFINE m == Mapped(seg[k])
           r == [j \in DOMAIN m |-> k - 1]
<1>1. MapByte(acc, seg, k) = [text |-> acc.text \o m, align |-> acc.align \o r]
  BY DEF MapByte
<1>2. seg[k] \in Bytes /\ k - 1 \in Int
  BY ElementOfSeq, LenProperties
<1>3. acc.text \in Seq(Bytes) /\ acc.align \in Seq(Int)
  BY DEF MapUpto
<1>4. CASE seg[k].b \in Kept
  <2>1. m = <<seg[k]>>
    BY <1>4 DEF Mapped, Kept
  <2>2. r = <<k - 1>>
    BY <2>1
  <2> HIDE DEF m, r
  <2>3. acc.text \o m = Append(acc.text, seg[k]) /\ acc.align \o r = Append(acc.align, k - 1)
    BY <1>2, <1>3, <2>1, <2>2, ConcatAppend
  <2>4. seg[k].b \in Heads /\ Image(seg[k].b, seg[k].b)
    BY <1>4 DEF Heads, Kept, Image
  <2>5. MapUpto(Append(acc.text, seg[k]), Append(acc.align, k - 1), seg, k)
    BY <1>2, <2>4, MapHead
  <2> QED
    BY <1>1, <2>3, <2>5
<1>5. ASSUME NEW c \in {"g1", "m1"}, NEW d \in {"g2", "m2"}, Spelled(c, d),
             Image(seg[k].b, c), Image(seg[k].b, d),
             m = <<[seg[k] EXCEPT !.b = c], [seg[k] EXCEPT !.b = d]>>
      PROVE  /\ MapByte(acc, seg, k) = [text |-> MapByte(acc, seg, k).text,
                                        align |-> MapByte(acc, seg, k).align]
             /\ MapUpto(MapByte(acc, seg, k).text, MapByte(acc, seg, k).align, seg, k)
  <2> DEFINE x == [seg[k] EXCEPT !.b = c]
             y == [seg[k] EXCEPT !.b = d]
  <2>1. x \in Bytes /\ y \in Bytes /\ x.src = seg[k].src /\ y.src = seg[k].src /\ x.b = c /\ y.b = d
    BY <1>2 DEF Bytes, MappedClasses
  <2>2. r = <<k - 1, k - 1>>
    BY <1>5
  <2>3. m = <<x, y>>
    BY <1>5
  <2> HIDE DEF m, r, x, y
  <2>4. /\ acc.text \o m = Append(Append(acc.text, x), y)
        /\ acc.align \o r = Append(Append(acc.align, k - 1), k - 1)
    BY SMTT(30), <1>2, <1>3, <2>1, <2>2, <2>3, ConcatAppend
  <2>5. MapUpto(Append(acc.text, x), Append(acc.align, k - 1), seg, k)
    <3>1. x.b \in Heads
      BY <2>1 DEF Heads
    <3> QED
      BY <1>5, <2>1, <3>1, MapHead
  <2> DEFINE t == Append(acc.text, x)
  <2>6. t[Len(t)] = x
    BY <1>3, <2>1, AppendProperties
  <2> HIDE DEF t
  <2>7. MapUpto(Append(t, y), Append(Append(acc.align, k - 1), k - 1), seg, k)
    <3>1. MapUpto(t, Append(acc.align, k - 1), seg, k) /\ Spelled(t[Len(t)].b, y.b)
      BY <1>5, <2>1, <2>5, <2>6 DEF t
    <3> QED
      BY <1>5, <2>1, <3>1, MapTail
  <2> QED
    BY <1>1, <2>4, <2>7 DEF t
<1>6. CASE seg[k].b = "space"
  <2>1. m = <<[seg[k] EXCEPT !.b = "g1"], [seg[k] EXCEPT !.b = "g2"]>>
    BY <1>6 DEF Mapped
  <2>2. Spelled("g1", "g2") /\ Image(seg[k].b, "g1") /\ Image(seg[k].b, "g2")
    BY <1>6 DEF Spelled, Image, Kept
  <2> HIDE DEF m
  <2> QED
    BY <1>5, <2>1, <2>2
<1>7. CASE seg[k].b \notin Kept \cup {"space"}
  <2>1. m = <<[seg[k] EXCEPT !.b = "m1"], [seg[k] EXCEPT !.b = "m2"]>>
    BY <1>7 DEF Mapped, Kept
  <2>2. Spelled("m1", "m2") /\ Image(seg[k].b, "m1") /\ Image(seg[k].b, "m2")
    BY <1>7 DEF Spelled, Image, Kept
  <2> HIDE DEF m
  <2> QED
    BY <1>5, <2>1, <2>2
<1> QED
  BY <1>4, <1>6, <1>7

\* What map_segment makes of a segment.
LEMMA MapFacts ==
    ASSUME NEW seg \in Seq(Bytes)
    PROVE  MapUpto(MapSegment(seg).text, MapSegment(seg).align, seg, Len(seg))
<1> DEFINE n == Len(seg)
           V == [text : Seq(Bytes), align : Seq(Int)]
<1>1. n \in Nat /\ DOMAIN seg = 1..n /\ \A k \in 1..n : seg[k] \in Bytes
  BY LenProperties, ElementOfSeq
<1>2. [text |-> <<>>, align |-> <<>>] \in V
  OBVIOUS
<1>3. ASSUME NEW a \in V, NEW k \in 1..n PROVE MapByte(a, seg, k) \in V
  <2> DEFINE m == Mapped(seg[k])
             r == [j \in DOMAIN m |-> k - 1]
  <2>1. k - 1 \in Int /\ seg[k] \in Bytes /\ a.text \in Seq(Bytes) /\ a.align \in Seq(Int)
    BY <1>1
  <2>2. /\ m \in Seq(Bytes)
    <3>1. \A c \in MappedClasses : [seg[k] EXCEPT !.b = c] \in Bytes
      BY <2>1 DEF Bytes
    <3>2. m \in {<<[seg[k] EXCEPT !.b = "g1"], [seg[k] EXCEPT !.b = "g2"]>>, <<seg[k]>>,
                 <<[seg[k] EXCEPT !.b = "m1"], [seg[k] EXCEPT !.b = "m2"]>>}
      BY DEF Mapped
    <3>3. <<[seg[k] EXCEPT !.b = "g1"], [seg[k] EXCEPT !.b = "g2"]>> \in Seq(Bytes)
      BY <3>1 DEF MappedClasses
    <3>4. <<[seg[k] EXCEPT !.b = "m1"], [seg[k] EXCEPT !.b = "m2"]>> \in Seq(Bytes)
      BY <3>1 DEF MappedClasses
    <3>5. <<seg[k]>> \in Seq(Bytes)
      BY <2>1
    <3> QED
      BY <3>2, <3>3, <3>4, <3>5
  <2> HIDE DEF m
  <2>3. r \in Seq(Int)
    <3>1. DOMAIN m = 1..Len(m) /\ Len(m) \in Nat
      BY <2>2, LenProperties
    <3> QED
      BY <2>1, <3>1
  <2> HIDE DEF r
  <2>4. a.text \o m \in Seq(Bytes) /\ a.align \o r \in Seq(Int)
    BY <2>1, <2>2, <2>3, ConcatProperties
  <2> QED
    BY <2>4 DEF MapByte, m, r
<1> HIDE DEF n, V
<1>4. PICK f : MapRun(f, V, n, seg)
  BY <1>1, <1>2, <1>3, MapTrace
<1>5. /\ f[0] = [text |-> <<>>, align |-> <<>>] /\ MapSegment(seg) = f[n]
      /\ \A k \in 1..n : f[k] = MapByte(f[k - 1], seg, k)
  BY <1>4 DEF MapRun
<1> DEFINE T == {k \in 0..n : f[k] = [text |-> f[k].text, align |-> f[k].align]
                              /\ MapUpto(f[k].text, f[k].align, seg, k)}
<1>6. \A k \in 0..n : k \in T
  <2>1. 0 \in T
    <3>1. MapUpto(<<>>, <<>>, seg, 0)
      BY EmptySeq DEF MapUpto
    <3> QED
      BY <1>1, <1>5, <3>1
  <2>2. ASSUME NEW k \in 1..n, k - 1 \in T PROVE k \in T
    <3>1. k \in 0..n /\ k - 1 \in 0..n /\ f[k] = MapByte(f[k - 1], seg, k)
      BY <1>1, <1>5
    <3>2. f[k - 1] = [text |-> f[k - 1].text, align |-> f[k - 1].align]
          /\ MapUpto(f[k - 1].text, f[k - 1].align, seg, k - 1)
      BY <2>2
    <3> QED
      BY <3>1, <3>2, MapByteFacts DEF n
  <2> HIDE DEF T
  <2> QED
    BY <1>1, <2>1, <2>2, InductUpto
<1>7. n \in T
  BY <1>1, <1>6
<1> QED
  BY <1>5, <1>7 DEF n

LEMMA IntervalsWider ==
    ASSUME NEW c, NEW E, NEW F, E \subseteq F, Intervals(c, E)
    PROVE  Intervals(c, F)
BY DEF Intervals

\* Intervals without gaps cover everything between their ends.
LEMMA ForwardCovers ==
    ASSUME NEW V, NEW c \in Seq(V), NEW E \in SUBSET Int, NEW n \in Nat, Forward(c, 0, n, E)
    PROVE  \A i \in 1..n : \E k \in 1..Len(c) : c[k][1] < i /\ i <= c[k][2]
<1> SUFFICES ASSUME NEW i \in 1..n PROVE \E k \in 1..Len(c) : c[k][1] < i /\ i <= c[k][2]
  OBVIOUS
<1> DEFINE m == Len(c)
           T == {k \in 1..m : i <= c[k][2]}
<1>1. m \in Nat \ {0} /\ m \in 1..m
  BY EmptySeq DEF Forward
<1>2. /\ c[1][1] = 0 /\ c[m][2] = n
      /\ \A k \in 1..m : c[k][1] \in Int /\ c[k][2] \in Int
      /\ \A k \in 1..(m - 1) : c[k + 1][1] = c[k][2]
  BY DEF Forward
<1> HIDE DEF m
<1>3. m \in T /\ T \in SUBSET Nat
  BY <1>1, <1>2
<1>4. PICK k \in T : \A l \in T : k <= l
  <2> HIDE DEF T
  <2> QED
    BY <1>3, LeastNat
<1>5. c[k][1] < i
  <2>1. CASE k = 1
    BY <1>2, <2>1
  <2>2. CASE k # 1
    <3>1. k - 1 \in 1..(m - 1) /\ k - 1 \in 1..m /\ (k - 1) + 1 = k /\ ~(k <= k - 1)
      BY <1>1, <2>2
    <3>2. k - 1 \notin T
      BY <1>4, <3>1
    <3>3. c[k][1] = c[k - 1][2] /\ c[k - 1][2] \in Int /\ ~(i <= c[k - 1][2])
      BY <1>2, <3>1, <3>2
    <3> QED
      BY <3>3
  <2> QED
    BY <2>1, <2>2
<1> QED
  BY <1>4, <1>5 DEF m

\* A match ends where a token may end.
LEMMA EndsWithin ==
    ASSUME NEW text, Len(text) \in Nat
    PROVE  /\ Ends(text, Boundaries(text)) \subseteq Ends(text, TokenEnds(text))
           /\ Ends(text, TokenEnds(text)) \in SUBSET (0..Len(text))
           /\ Ends(text, TokenEnds(text)) \in SUBSET Int
           /\ 0 \in Ends(text, TokenEnds(text)) /\ Len(text) \in Ends(text, TokenEnds(text))
<1>1. Boundaries(text) \subseteq TokenEnds(text)
  BY DEF Boundaries, InsideChar, TokenEnds
<1> QED
  BY <1>1 DEF Ends

\* Every byte of a text of n bytes lies in one of the spans.
Covered(spans, n) == \A i \in 1..n : \E k \in 1..Len(spans) : spans[k][1] < i /\ i <= spans[k][2]

\* The spans Split makes pieces of.
SplitSpans(text, matches, split) ==
    LET found == BuildSegments(text, matches)
        segs  == [k \in DOMAIN found |-> <<found[k][1], found[k][2], found[k][3] # split.invert>>]
    IN ApplyBehavior(segs, split.behavior)

LEMMA SplitSpanFacts ==
    ASSUME NEW text \in Seq(Bytes), text # <<>>, NEW ms \in FindAll(text), NEW split \in Splits
    PROVE  /\ SplitSpans(text, ms, split) \in Seq(Spans)
           /\ Intervals(SplitSpans(text, ms, split), Ends(text, TokenEnds(text)))
           /\ split.behavior # "Removed" => Covered(SplitSpans(text, ms, split), Len(text))
<1> DEFINE E == Ends(text, TokenEnds(text))
           n == Len(text)
           found == BuildSegments(text, ms)
           segs == [k \in DOMAIN found |-> <<found[k][1], found[k][2], found[k][3] # split.invert>>]
           spans == ApplyBehavior(segs, split.behavior)
<1>0. Len(text) \in Nat \ {0}
  BY EmptySeq
<1>1. /\ ms \in Seq(Int \X Int)
      /\ Intervals(ms, Ends(text, Boundaries(text)))
      /\ \A k \in 1..Len(ms) : 0 <= ms[k][1] /\ ms[k][2] <= n
  BY <1>0, FindAllFacts
<1>2. E \in SUBSET Int /\ {0, n} \subseteq E /\ Intervals(ms, E) /\ n \in Nat
  BY <1>0, <1>1, EndsWithin, IntervalsWider
<1> HIDE DEF E
<1>3. found \in Seq(Segments) /\ RunTo(found, n, E)
  <2> HIDE DEF n
  <2> QED
    BY <1>0, <1>1, <1>2, BuildFacts DEF n
<1>4. Forward(found, 0, n, E)
  BY <1>0, <1>3 DEF RunTo
<1>5. split.behavior \in Behaviors /\ split.invert \in BOOLEAN
  BY DEF Splits
<1>6. Len(found) \in Nat /\ DOMAIN found = 1..Len(found) /\ \A k \in 1..Len(found) : found[k] \in Segments
  BY <1>3, LenProperties, ElementOfSeq
<1> HIDE DEF found, n
<1>7. segs \in Seq(Segments) /\ Len(segs) = Len(found)
      /\ \A k \in 1..Len(found) : segs[k][1] = found[k][1] /\ segs[k][2] = found[k][2]
  <2>1. \A k \in 1..Len(found) : <<found[k][1], found[k][2], found[k][3] # split.invert>> \in Segments
    BY <1>6 DEF Segments
  <2>2. segs = [k \in 1..Len(found) |-> <<found[k][1], found[k][2], found[k][3] # split.invert>>]
    BY <1>6
  <2>3. segs \in Seq(Segments) /\ Len(segs) = Len(found)
    BY <1>6, <2>1, <2>2
  <2> QED
    BY <2>2, <2>3
<1> HIDE DEF segs
<1>8. Forward(segs, 0, n, E)
  <2>1. found # <<>> => Len(found) # 0
    BY <1>3, EmptySeq
  <2>2. Len(found) # 0 /\ segs # <<>>
    BY <1>4, <1>7, <2>1, EmptySeq DEF Forward
  <2>3. 1 \in 1..Len(found) /\ Len(found) \in 1..Len(found)
        /\ \A k \in 1..(Len(found) - 1) : k \in 1..Len(found) /\ k + 1 \in 1..Len(found)
    BY <1>6, <2>2
  <2>4. segs[1][1] = 0 /\ segs[Len(segs)][2] = n
    BY <1>4, <1>7, <2>3 DEF Forward
  <2>5. \A k \in 1..Len(segs) : segs[k][1] \in E /\ segs[k][2] \in E /\ segs[k][1] < segs[k][2]
    BY <1>4, <1>7 DEF Forward
  <2>6. \A k \in 1..(Len(segs) - 1) : segs[k + 1][1] = segs[k][2]
    <3> TAKE k \in 1..(Len(segs) - 1)
    <3>1. k \in 1..Len(found) /\ k + 1 \in 1..Len(found) /\ k \in 1..(Len(found) - 1)
      BY <1>7, <2>3
    <3>2. found[k + 1][1] = found[k][2]
      BY <1>4, <3>1 DEF Forward
    <3> QED
      BY <1>7, <3>1, <3>2
  <2> QED
    BY <2>2, <2>4, <2>5, <2>6 DEF Forward
<1>9. spans \in Seq(Spans) /\ Intervals(spans, E)
      /\ (split.behavior # "Removed" => Forward(spans, 0, n, E))
  BY <1>2, <1>5, <1>7, <1>8, BehaviorFacts
<1> HIDE DEF spans
<1>10. split.behavior # "Removed" => Covered(spans, n)
  BY <1>2, <1>9, ForwardCovers DEF Covered
<1>11. SplitSpans(text, ms, split) = spans
  BY DEF SplitSpans, spans, segs, found
<1> QED
  BY <1>9, <1>10, <1>11 DEF E, n

-------------------------------------------------------------------------------
(* What a pre-tokenizer makes of a pre-token. *)

PreTokenSet == [text : Seq(Bytes), first : Int, last : Int, align : Seq(Int)]
TokenSet == [text : Seq(Bytes), first : Int, last : Int]

CutText(pt, p) == IF p.type = "Split" THEN pt.text ELSE PrefixedText(pt, p)
CutPiece(pt, p, lo, hi) ==
    IF p.type = "Split" THEN SplitPiece(pt, lo, hi) ELSE ByteLevelPiece(pt, p, lo, hi)

Removes(p) == p.type = "Split" /\ p.behavior = "Removed"

\* A pre-token cut at spans of its text.
CutAt(pt, p, c, spans) ==
    /\ spans \in Seq(Spans) /\ Intervals(spans, Ends(CutText(pt, p), TokenEnds(CutText(pt, p))))
    /\ c = [k \in 1..Len(spans) |-> CutPiece(pt, p, spans[k][1], spans[k][2])]
    /\ ~Removes(p) => Covered(spans, Len(CutText(pt, p)))

\* The text after add_prefix_space.
LEMMA PrefixedFacts ==
    ASSUME NEW pt \in PreTokenSet, NEW p
    PROVE  /\ PrefixedText(pt, p) \in Seq(Bytes)
           /\ ~Prefixed(pt, p) => PrefixedText(pt, p) = pt.text
           /\ Prefixed(pt, p) => /\ Len(PrefixedText(pt, p)) = Len(pt.text) + 1
                                 /\ PrefixedText(pt, p)[1] = [b |-> "space", src |-> Inserted]
                                 /\ \A i \in 1..Len(pt.text) : PrefixedText(pt, p)[i + 1] = pt.text[i]
<1> DEFINE x == [b |-> "space", src |-> Inserted]
<1>1. x \in Bytes /\ pt.text \in Seq(Bytes) /\ Len(pt.text) \in Nat
  BY LenProperties DEF Bytes, PlainClasses, Inserted, PreTokenSet
<1>2. CASE Prefixed(pt, p)
  <2>1. PrefixedText(pt, p) = <<x>> \o pt.text
    BY <1>2 DEF PrefixedText
  <2> HIDE DEF x
  <2>2. <<x>> \in Seq(Bytes) /\ Len(<<x>>) = 1 /\ <<x>>[1] = x
    BY <1>1
  <2> DEFINE w == <<x>>
  <2> HIDE DEF w
  <2>3. w \in Seq(Bytes) /\ Len(w) = 1 /\ w[1] = x /\ PrefixedText(pt, p) = w \o pt.text
    BY <2>1, <2>2 DEF w
  <2> DEFINE t == pt.text
  <2>3a. t \in Seq(Bytes)
    BY <1>1
  <2> HIDE DEF t
  <2>4. /\ w \o t \in Seq(Bytes) /\ Len(w \o t) = 1 + Len(t)
        /\ \A i \in 1..(1 + Len(t)) : (w \o t)[i] = IF i <= 1 THEN w[i] ELSE t[i - 1]
    <3>1. /\ w \o t \in Seq(Bytes) /\ Len(w \o t) = Len(w) + Len(t)
          /\ \A i \in 1..(Len(w) + Len(t)) : (w \o t)[i] = IF i <= Len(w) THEN w[i] ELSE t[i - Len(w)]
      BY <2>3, <2>3a, ConcatProperties
    <3>2. Len(w) = 1
      BY <2>3
    <3> QED
      BY <3>1, <3>2
  <2>5. 1 \in 1..(1 + Len(pt.text))
        /\ \A i \in 1..Len(pt.text) : i + 1 \in 1..(1 + Len(pt.text)) /\ ~(i + 1 <= 1) /\ (i + 1) - 1 = i
    BY <1>1
  <2>6. 1 + Len(pt.text) = Len(pt.text) + 1
    BY <1>1
  <2> QED
    BY <1>2, <2>3, <2>4, <2>5, <2>6 DEF x, t
<1>3. CASE ~Prefixed(pt, p)
  <2>1. PrefixedText(pt, p) = <<>> \o pt.text
    BY <1>3 DEF PrefixedText
  <2> QED
    BY <1>1, <1>3, <2>1, ConcatEmptySeq
<1> QED
  BY <1>2, <1>3

\* What pre_tokenize makes of a pre-token.
LEMMA CutFacts ==
    ASSUME NEW pt \in PreTokenSet, NEW p \in Splits \cup ByteLevels, NEW c \in Cuts(pt, p)
    PROVE  \/ p.type = "Split" /\ pt.text = <<>> /\ c = <<pt>>
           \/ \E spans : CutAt(pt, p, c, spans)
<1>1. CASE p \in Splits
  <2>1. p.type = "Split" /\ pt.text \in Seq(Bytes) /\ Len(pt.text) \in Nat
    BY <1>1, LenProperties DEF Splits, PreTokenSet
  <2>2. PICK m \in FindAll(pt.text) : c = SplitOne(pt, m, p)
    BY <2>1 DEF Cuts
  <2>3. CASE pt.text = <<>>
    BY <2>1, <2>2, <2>3 DEF SplitOne
  <2>4. CASE pt.text # <<>>
    <3> DEFINE s == SplitSpans(pt.text, m, p)
    <3>1. /\ s \in Seq(Spans) /\ Intervals(s, Ends(pt.text, TokenEnds(pt.text)))
          /\ p.behavior # "Removed" => Covered(s, Len(pt.text))
      BY <1>1, <2>1, <2>4, SplitSpanFacts
    <3>2. c = [k \in DOMAIN s |-> SplitPiece(pt, s[k][1], s[k][2])]
      BY <2>2, <2>4 DEF SplitOne, SplitSpans
    <3> HIDE DEF s
    <3>3. DOMAIN s = 1..Len(s)
      BY <3>1, LenProperties
    <3>4. c = [k \in 1..Len(s) |-> CutPiece(pt, p, s[k][1], s[k][2])]
      BY <2>1, <3>2, <3>3 DEF CutPiece
    <3>5. CutText(pt, p) = pt.text
      BY <2>1 DEF CutText
    <3>6. CutAt(pt, p, c, s)
      <4>1. ~Removes(p) => Covered(s, Len(pt.text))
        BY <2>1, <3>1 DEF Removes
      <4> DEFINE t == CutText(pt, p)
      <4>2. Intervals(s, Ends(t, TokenEnds(t))) /\ (~Removes(p) => Covered(s, Len(t)))
        BY <3>1, <3>5, <4>1
      <4> QED
        BY <3>1, <3>4, <4>2 DEF CutAt
    <3> QED
      BY <3>6
  <2> QED
    BY <2>3, <2>4
<1>2. CASE p \in ByteLevels
  <2> DEFINE text == PrefixedText(pt, p)
             E == Ends(text, TokenEnds(text))
  <2>1. p.type = "ByteLevel" /\ p.type # "Split"
    BY <1>2 DEF ByteLevels
  <2>2. text \in Seq(Bytes) /\ Len(text) \in Nat
    BY PrefixedFacts, LenProperties
  <2>3. CutText(pt, p) = text
    BY <2>1 DEF CutText
  <2>4. ASSUME NEW s \in Seq(Spans), Intervals(s, E), Covered(s, Len(text)),
               c = [k \in 1..Len(s) |-> ByteLevelPiece(pt, p, s[k][1], s[k][2])]
        PROVE  CutAt(pt, p, c, s)
    <3>1. c = [k \in 1..Len(s) |-> CutPiece(pt, p, s[k][1], s[k][2])]
      BY <2>1, <2>4 DEF CutPiece
    <3> HIDE DEF text
    <3> QED
      BY <2>3, <2>4, <3>1 DEF CutAt
  <2>5. CASE text = <<>>
    <3>1. c = <<>>
      BY <2>1, <2>5 DEF Cuts
    <3>2. /\ <<>> \in Seq(Spans) /\ Len(<<>>) = 0
          /\ \A k \in 1..0 : FALSE
          /\ \A i \in 1..Len(text) : FALSE
      BY <2>5
    <3>3. Intervals(<<>>, E) /\ Covered(<<>>, Len(text))
      <4> HIDE DEF text, E
      <4> QED
        BY <3>2 DEF Intervals, Covered
    <3>4. c = [k \in 1..Len(<<>>) |-> ByteLevelPiece(pt, p, <<>>[k][1], <<>>[k][2])]
      BY <3>1
    <3>5. CutAt(pt, p, c, <<>>)
      BY <2>4, <3>2, <3>3, <3>4
    <3> QED
      BY <3>5
  <2>6. CASE text # <<>>
    <3>1. PICK m \in IF p.regex THEN Covering(text) ELSE {<<<<0, Len(text)>>>>} :
             c = ByteLevelOne(pt, m, p)
      BY <2>1, <2>6 DEF Cuts
    <3>2. Len(text) \in Nat \ {0}
      BY <2>2, <2>6, EmptySeq
    <3> HIDE DEF text
    <3>3. E \in SUBSET Int /\ 0 \in E /\ Len(text) \in E
          /\ Ends(text, Boundaries(text)) \subseteq E
      BY <2>2, EndsWithin
    <3> HIDE DEF E
    <3>4. m \in Seq(Spans) /\ Forward(m, 0, Len(text), E)
      <4>1. CASE p.regex
        <5>1. m \in Tilings(text, Boundaries(text))
          BY <3>1, <4>1 DEF Covering
        <5>2. m \in Seq(Int \X Int) /\ Forward(m, 0, Len(text), Ends(text, Boundaries(text)))
          BY <2>2, <3>2, <5>1, TilingFacts
        <5>3. Forward(m, 0, Len(text), E)
          BY <3>3, <5>2 DEF Forward
        <5> QED
          BY <5>2, <5>3 DEF Spans
      <4>2. CASE ~p.regex
        <5> DEFINE x == <<0, Len(text)>>
        <5>1. x \in Spans /\ x[1] = 0 /\ x[2] = Len(text) /\ m = <<x>>
          BY <2>2, <3>1, <4>2 DEF Spans
        <5> HIDE DEF x
        <5>2. m = Append(<<>>, x)
          BY <5>1
        <5> QED
          BY <3>2, <3>3, <5>1, <5>2, ForwardOne
      <4> QED
        BY <4>1, <4>2
    <3>5. Intervals(m, E) /\ Covered(m, Len(text))
      BY <2>2, <3>3, <3>4, ForwardIntervals, ForwardCovers DEF Covered
    <3>6. DOMAIN m = 1..Len(m)
      BY <3>4, LenProperties
    <3>7. c = [k \in 1..Len(m) |-> ByteLevelPiece(pt, p, m[k][1], m[k][2])]
      BY <3>1, <3>6 DEF ByteLevelOne
    <3>8. CutAt(pt, p, c, m)
      BY <2>4, <3>4, <3>5, <3>7
    <3> QED
      BY <3>8
  <2> QED
    BY <2>5, <2>6
<1> QED
  BY <1>1, <1>2

\* map_parent_span, for bytes i to j of the parent.
LEMMA MapParentFacts ==
    ASSUME NEW align \in Seq(Int), NEW i \in Nat
    PROVE  /\ MapParent(i, align) \in Int
           /\ align = <<>> => MapParent(i, align) = i
           /\ align # <<>> => \E j \in 1..Len(align) : MapParent(i, align) = align[j]
           /\ i + 1 \in 1..Len(align) => MapParent(i, align) = align[i + 1]
<1>1. Len(align) \in Nat /\ (align # <<>> => Len(align) \in Nat \ {0})
  BY EmptySeq, LenProperties
<1>2. \A j \in 1..Len(align) : align[j] \in Int
  BY ElementOfSeq
<1>3. CASE align = <<>>
  <2>1. Len(align) = 0
    BY <1>3, EmptySeq
  <2> QED
    BY <1>1, <1>3, <2>1 DEF MapParent
<1>4. CASE align # <<>>
  <2>1. Len(align) \in 1..Len(align)
    BY <1>1, <1>4
  <2>2. CASE i >= Len(align)
    <3>1. MapParent(i, align) = align[Len(align)]
      BY <1>4, <2>2 DEF MapParent, Last
    <3> QED
      BY <1>1, <1>2, <1>4, <2>1, <2>2, <3>1
  <2>3. CASE ~(i >= Len(align))
    <3>1. MapParent(i, align) = align[i + 1] /\ i + 1 \in 1..Len(align)
      BY <1>1, <1>4, <2>3 DEF MapParent
    <3> QED
      BY <1>2, <1>4, <3>1
  <2> QED
    BY <2>2, <2>3
<1> QED
  BY <1>3, <1>4

LEMMA MapParentDifference ==
    ASSUME NEW align \in Seq(Int), NEW i \in Nat, NEW j \in Nat
    PROVE  MapParent(i, align) - MapParent(j, align) \in Int
<1>1. MapParent(i, align) \in Int
  BY MapParentFacts
<1>2. MapParent(j, align) \in Int
  BY MapParentFacts
<1> QED
  BY <1>1, <1>2

LEMMA SpanFacts ==
    ASSUME NEW pt \in PreTokenSet, NEW lo \in Nat, NEW hi \in Nat
    PROVE  /\ SpanFirst(pt, lo) = pt.first + MapParent(lo, pt.align) /\ SpanFirst(pt, lo) \in Int
           /\ SpanLast(pt, lo, hi) \in Int /\ SpanFirst(pt, lo) <= SpanLast(pt, lo, hi)
           /\ hi > lo => /\ SpanLast(pt, lo, hi) \in {SpanFirst(pt, lo), SpanFirst(pt, hi - 1) + 1}
                         /\ SpanFirst(pt, hi - 1) + 1 <= SpanLast(pt, lo, hi)
           /\ ~(hi > lo) => SpanLast(pt, lo, hi) = SpanFirst(pt, lo)
<1>1. pt.first \in Int /\ pt.align \in Seq(Int)
  BY DEF PreTokenSet
<1>2. SpanFirst(pt, lo) = pt.first + MapParent(lo, pt.align) /\ SpanFirst(pt, lo) \in Int
  BY <1>1, MapParentFacts DEF SpanFirst
<1>3. CASE hi > lo
  <2>1. hi - 1 \in Nat
    BY <1>3
  <2> DEFINE a == SpanFirst(pt, lo)
             c == pt.first + MapParent(hi - 1, pt.align) + 1
  <2>2. c \in Int /\ c = SpanFirst(pt, hi - 1) + 1 /\ a \in Int
    BY <1>1, <1>2, <2>1, MapParentFacts DEF SpanFirst
  <2>3. SpanLast(pt, lo, hi) = Max({a, c})
    BY <1>3 DEF SpanLast
  <2> HIDE DEF a, c
  <2>4. Max({a, c}) \in {a, c} /\ a <= Max({a, c}) /\ c <= Max({a, c})
    BY <2>2, MaxOfTwo
  <2>5. Max({a, c}) \in Int
    BY <2>2, <2>4
  <2> QED
    BY <1>2, <1>3, <2>2, <2>3, <2>4, <2>5 DEF a
<1>4. CASE ~(hi > lo)
  <2>1. SpanLast(pt, lo, hi) = SpanFirst(pt, lo)
    BY <1>4 DEF SpanLast
  <2> QED
    BY <1>2, <1>4, <2>1
<1> QED
  BY <1>3, <1>4

\* A pre-token made of bytes lo..hi-1 of the text T, whose place in the text of
\* the pre-token pt begins at start; g tells which byte each of its bytes was.
Made(new, pt, T, start, end, lo, hi, g) ==
    /\ new \in PreTokenSet
    /\ new.first = SpanFirst(pt, start) /\ new.last = SpanLast(pt, start, end)
    /\ g \in Seq(Int) /\ Len(g) = Len(new.text) /\ Len(g) # 0
    /\ \A j \in 1..Len(g) : g[j] \in 0..(hi - lo - 1) /\ new.text[j].src = T[lo + g[j] + 1].src
    /\ g[1] = 0 /\ g[Len(g)] = hi - lo - 1
    /\ \A j \in 1..(Len(g) - 1) : g[j + 1] = g[j] \/ g[j + 1] = g[j] + 1
    /\ \/ /\ new.align = <<>> /\ pt.align = <<>> /\ start = lo /\ T = pt.text
          /\ \A j \in 1..Len(g) : g[j] = j - 1
       \/ /\ Len(new.align) = Len(g)
          /\ \A j \in 1..Len(g) :
                new.align[j] = MapParent(start + g[j], pt.align) - MapParent(start, pt.align)

LEMMA SubText ==
    ASSUME NEW T \in Seq(Bytes), NEW lo \in Nat, NEW hi \in Nat, lo < hi, hi <= Len(T)
    PROVE  /\ SubSeq(T, lo + 1, hi) \in Seq(Bytes) /\ Len(SubSeq(T, lo + 1, hi)) = hi - lo
           /\ \A i \in 1..(hi - lo) : /\ SubSeq(T, lo + 1, hi)[i] = T[lo + i]
                                      /\ lo + i \in 1..Len(T)
<1>1. Len(T) \in Nat
  BY LenProperties
<1>2. \A i \in (lo + 1)..hi : T[i] \in Bytes
  BY <1>1, ElementOfSeq
<1>3. /\ SubSeq(T, lo + 1, hi) \in Seq(Bytes)
      /\ Len(SubSeq(T, lo + 1, hi)) = IF lo + 1 <= hi THEN hi - (lo + 1) + 1 ELSE 0
      /\ \A i \in 1..(hi - (lo + 1) + 1) : SubSeq(T, lo + 1, hi)[i] = T[(lo + 1) + i - 1]
  <2>1. lo + 1 \in Int /\ hi \in Int
    OBVIOUS
  <2> QED
    BY <1>2, <2>1, SubSeqProperties
<1>4. hi - (lo + 1) + 1 = hi - lo /\ lo + 1 <= hi
      /\ \A i \in 1..(hi - lo) : (lo + 1) + i - 1 = lo + i /\ lo + i \in 1..Len(T)
  BY <1>1
<1> QED
  BY <1>3, <1>4

\* A piece of Split.
LEMMA SplitMade ==
    ASSUME NEW pt \in PreTokenSet, NEW lo \in Nat, NEW hi \in Nat, lo < hi, hi <= Len(pt.text),
           NEW g, g = [j \in 1..(hi - lo) |-> j - 1]
    PROVE  /\ Made(SplitPiece(pt, lo, hi), pt, pt.text, lo, hi, lo, hi, g)
           /\ Len(SplitPiece(pt, lo, hi).text) = hi - lo
           /\ \A j \in 1..(hi - lo) : SplitPiece(pt, lo, hi).text[j] = pt.text[lo + j]
<1> DEFINE new == SplitPiece(pt, lo, hi)
           n == hi - lo
           t == SubSeq(pt.text, lo + 1, hi)
           a == [k \in 1..n |-> MapParent(lo + k - 1, pt.align) - MapParent(lo, pt.align)]
           e == IF pt.align = <<>> THEN <<>> ELSE a
<1>1. pt.text \in Seq(Bytes) /\ pt.align \in Seq(Int) /\ n \in Nat \ {0}
  BY DEF PreTokenSet
<1>2. new = [text |-> t, first |-> SpanFirst(pt, lo), last |-> SpanLast(pt, lo, hi), align |-> e]
  BY DEF SplitPiece
<1>3. t \in Seq(Bytes) /\ Len(t) = n /\ \A i \in 1..n : t[i] = pt.text[lo + i]
  BY <1>1, SubText
<1>4. SpanFirst(pt, lo) \in Int /\ SpanLast(pt, lo, hi) \in Int
  BY SpanFacts
<1>5. a \in Seq(Int) /\ Len(a) = n
  <2>1. \A k \in 1..n : lo + k - 1 \in Nat
    BY <1>1
  <2>2. \A k \in 1..n : MapParent(lo + k - 1, pt.align) - MapParent(lo, pt.align) \in Int
    <3> TAKE k \in 1..n
    <3> HIDE DEF a, e, new, t
    <3>1. lo + k - 1 \in Nat
      BY <2>1
    <3> DEFINE i == lo + k - 1
    <3> HIDE DEF i
    <3>2. MapParent(i, pt.align) - MapParent(lo, pt.align) \in Int
      BY <1>1, <3>1, MapParentDifference DEF i
    <3> QED
      BY <3>2 DEF i
  <2> HIDE DEF n
  <2> QED
    BY <1>1, <2>2
<1>6. \A k \in 1..n : a[k] = MapParent(lo + k - 1, pt.align) - MapParent(lo, pt.align)
  OBVIOUS
<1>7. e \in Seq(Int) /\ (pt.align = <<>> => e = <<>>) /\ (pt.align # <<>> => e = a)
  <2> HIDE DEF a
  <2> QED
    BY <1>5, EmptySeq
<1>8. /\ g \in Seq(Int) /\ Len(g) = n
      /\ \A j \in 1..n : g[j] = j - 1
  <2> HIDE DEF n
  <2>1. g = [j \in 1..n |-> j - 1]
    BY DEF n
  <2> QED
    BY <1>1, <2>1
<1> HIDE DEF t, a, e
<1>9. new \in PreTokenSet /\ new.text = t /\ new.align = e
      /\ new.first = SpanFirst(pt, lo) /\ new.last = SpanLast(pt, lo, hi)
  BY <1>2, <1>3, <1>4, <1>7 DEF PreTokenSet
<1> HIDE DEF new
<1>10. \A j \in 1..n : /\ g[j] \in 0..(hi - lo - 1) /\ lo + g[j] + 1 = lo + j /\ lo + j - 1 = lo + g[j]
                       /\ new.text[j].src = pt.text[lo + g[j] + 1].src
  <2> TAKE j \in 1..n
  <2>1. g[j] = j - 1 /\ j - 1 \in 0..(hi - lo - 1) /\ lo + (j - 1) + 1 = lo + j /\ lo + j - 1 = lo + (j - 1)
    BY <1>1, <1>8
  <2>2. new.text[j] = pt.text[lo + j]
    BY <1>3, <1>9
  <2> QED
    BY <2>1, <2>2
<1>11. g[1] = 0 /\ g[n] = hi - lo - 1
  <2>1. 1 \in 1..n /\ n \in 1..n
    BY <1>1
  <2> QED
    BY <1>8, <2>1
<1>12. \A j \in 1..(n - 1) : g[j + 1] = g[j] + 1
  BY <1>1, <1>8
<1>13. \/ new.align = <<>> /\ pt.align = <<>>
       \/ /\ Len(new.align) = n
          /\ \A j \in 1..n : new.align[j] = MapParent(lo + g[j], pt.align) - MapParent(lo, pt.align)
  <2>1. CASE pt.align = <<>>
    BY <1>7, <1>9, <2>1
  <2>2. CASE pt.align # <<>>
    <3>1. new.align = a
      BY <1>7, <1>9, <2>2
    <3> HIDE DEF n
    <3> QED
      BY <1>5, <1>6, <1>10, <3>1
  <2> QED
    BY <2>1, <2>2
<1>14. Made(new, pt, pt.text, lo, hi, lo, hi, g)
  <2>1. Len(g) = n /\ Len(g) = Len(new.text) /\ Len(g) # 0
    BY <1>1, <1>3, <1>8, <1>9
  <2> HIDE DEF n
  <2> QED
    BY <1>8, <1>9, <1>10, <1>11, <1>12, <1>13, <2>1 DEF Made
<1> QED
  BY <1>3, <1>9, <1>14 DEF new

LEMMA ShiftFacts ==
    ASSUME NEW i \in Nat, NEW prefixed \in BOOLEAN
    PROVE  /\ Shift(i, prefixed) \in Nat /\ Shift(i, prefixed) <= i
           /\ prefixed /\ i # 0 => Shift(i, prefixed) = i - 1
           /\ ~prefixed \/ i = 0 => Shift(i, prefixed) = i
BY DEF Shift

\* A piece of ByteLevel.
LEMMA ByteLevelMade ==
    ASSUME NEW pt \in PreTokenSet, NEW bl, NEW T \in Seq(Bytes), T = PrefixedText(pt, bl),
           NEW lo \in Nat, NEW hi \in Nat, lo < hi, hi <= Len(T),
           NEW start \in Nat, NEW end \in Nat,
           start = Shift(lo, Prefixed(pt, bl)), end = Shift(hi, Prefixed(pt, bl)),
           NEW seg, seg = SubSeq(T, lo + 1, hi), NEW g, g = MapSegment(seg).align
    PROVE  /\ Made(ByteLevelPiece(pt, bl, lo, hi), pt, T, start, end, lo, hi, g)
           /\ MapUpto(ByteLevelPiece(pt, bl, lo, hi).text, g, seg, hi - lo)
<1> DEFINE new == ByteLevelPiece(pt, bl, lo, hi)
           n == hi - lo
           t == MapSegment(seg).text
           e == [k \in DOMAIN g |-> MapParent(start + g[k], pt.align) - MapParent(start, pt.align)]
<1>1. pt.align \in Seq(Int) /\ n \in Nat \ {0}
  BY DEF PreTokenSet
<1>2. new = [text |-> t, first |-> SpanFirst(pt, start), last |-> SpanLast(pt, start, end), align |-> e]
  BY DEF ByteLevelPiece
<1>3. seg \in Seq(Bytes) /\ Len(seg) = n /\ \A i \in 1..n : seg[i] = T[lo + i]
  BY SubText
<1>4. SpanFirst(pt, start) \in Int /\ SpanLast(pt, start, end) \in Int
  BY SpanFacts
<1> HIDE DEF n
<1>5. MapUpto(t, g, seg, n)
  BY <1>3, MapFacts
<1> HIDE DEF t
<1>6. /\ t \in Seq(Bytes) /\ g \in Seq(Int) /\ Len(g) = Len(t)
      /\ \A j \in 1..Len(t) : g[j] \in 0..(n - 1) /\ t[j].src = seg[g[j] + 1].src
      /\ \A j \in 1..(Len(t) - 1) : g[j + 1] = g[j] \/ g[j + 1] = g[j] + 1
      /\ t # <<>> /\ g[1] = 0 /\ g[Len(t)] = n - 1
  BY <1>1, <1>5 DEF MapUpto
<1>7. Len(g) \in Nat /\ Len(g) # 0 /\ DOMAIN g = 1..Len(g)
  BY <1>6, EmptySeq, LenProperties
<1>8. e \in Seq(Int) /\ Len(e) = Len(g)
      /\ \A j \in 1..Len(g) : e[j] = MapParent(start + g[j], pt.align) - MapParent(start, pt.align)
  <2> HIDE DEF e, new
  <2>2. \A j \in 1..Len(g) : MapParent(start + g[j], pt.align) - MapParent(start, pt.align) \in Int
    <3> TAKE j \in 1..Len(g)
    <3>1. g[j] \in 0..(n - 1)
      BY <1>6
    <3> DEFINE x == g[j]
               i == start + x
    <3> HIDE DEF x
    <3>2. x \in Nat
      BY <3>1 DEF x
    <3>3. i \in Nat
      BY <3>2
    <3> HIDE DEF i
    <3>4. MapParent(i, pt.align) - MapParent(start, pt.align) \in Int
      BY <1>1, <3>3, MapParentDifference
    <3> QED
      BY <3>4 DEF i, x
  <2>3. e = [k \in 1..Len(g) |-> MapParent(start + g[k], pt.align) - MapParent(start, pt.align)]
    BY <1>7 DEF e
  <2> DEFINE D(k) == MapParent(start + g[k], pt.align) - MapParent(start, pt.align)
  <2>4. e = [k \in 1..Len(g) |-> D(k)] /\ \A j \in 1..Len(g) : D(j) \in Int
    BY <2>2, <2>3
  <2> HIDE DEF D
  <2>5. e \in Seq(Int) /\ Len(e) = Len(g) /\ \A j \in 1..Len(g) : e[j] = D(j)
    BY <1>7, <2>4
  <2> QED
    BY <2>5 DEF D
<1> HIDE DEF e
<1>9. new \in PreTokenSet /\ new.text = t /\ new.align = e
      /\ new.first = SpanFirst(pt, start) /\ new.last = SpanLast(pt, start, end)
  BY <1>2, <1>4, <1>6, <1>8 DEF PreTokenSet
<1> HIDE DEF new
<1>10. \A j \in 1..Len(g) : g[j] \in 0..(hi - lo - 1) /\ new.text[j].src = T[lo + g[j] + 1].src
  <2> TAKE j \in 1..Len(g)
  <2>1. g[j] \in 0..(n - 1) /\ t[j].src = seg[g[j] + 1].src
    BY <1>6
  <2> DEFINE x == g[j]
  <2> HIDE DEF x
  <2>2a. x \in 0..(n - 1)
    BY <2>1 DEF x
  <2>2b. x + 1 \in 1..n /\ lo + (x + 1) = lo + x + 1
    BY <1>1, <2>2a
  <2>2. g[j] + 1 \in 1..n /\ lo + (g[j] + 1) = lo + g[j] + 1
    BY <2>2b DEF x
  <2>3. n - 1 = hi - lo - 1
    BY DEF n
  <2> QED
    BY <1>3, <1>9, <2>1, <2>2, <2>3
<1>11. g[Len(g)] = hi - lo - 1
  BY <1>6 DEF n
<1>12. Made(new, pt, T, start, end, lo, hi, g)
  BY <1>6, <1>7, <1>8, <1>9, <1>10, <1>11 DEF Made
<1> QED
  BY <1>5, <1>9, <1>12 DEF new, n

\* The offsets a pre-token can give lie within a text of n bytes.
Bounded(pt, n) ==
    /\ pt \in PreTokenSet
    /\ pt.first \in 0..n /\ pt.last \in 0..(n + 1) /\ pt.first <= pt.last
    /\ \A i \in 0..Len(pt.text) : SpanFirst(pt, i) \in 0..n
    /\ pt.align = <<>> \/ Len(pt.align) = Len(pt.text)

LEMMA SpanBounds ==
    ASSUME NEW n \in Nat, NEW pt, Bounded(pt, n),
           NEW lo \in Nat, NEW hi \in Nat, lo <= Len(pt.text), hi <= Len(pt.text)
    PROVE  /\ SpanFirst(pt, lo) \in 0..n /\ SpanLast(pt, lo, hi) \in 0..(n + 1)
           /\ SpanFirst(pt, lo) <= SpanLast(pt, lo, hi)
<1>1. pt \in PreTokenSet /\ Len(pt.text) \in Nat /\ \A i \in 0..Len(pt.text) : SpanFirst(pt, i) \in 0..n
  BY LenProperties DEF Bounded, PreTokenSet
<1>2. SpanFirst(pt, lo) \in 0..n
  BY <1>1
<1>3. /\ SpanLast(pt, lo, hi) \in Int /\ SpanFirst(pt, lo) <= SpanLast(pt, lo, hi)
      /\ hi > lo => SpanLast(pt, lo, hi) \in {SpanFirst(pt, lo), SpanFirst(pt, hi - 1) + 1}
      /\ ~(hi > lo) => SpanLast(pt, lo, hi) = SpanFirst(pt, lo)
  BY <1>1, SpanFacts
<1>4. hi > lo => SpanFirst(pt, hi - 1) \in 0..n
  <2>1. hi > lo => hi - 1 \in 0..Len(pt.text)
    BY <1>1
  <2> QED
    BY <1>1, <2>1
<1>5. SpanLast(pt, lo, hi) \in 0..(n + 1)
  BY <1>2, <1>3, <1>4
<1> QED
  BY <1>2, <1>3, <1>5

LEMMA MadeBounded ==
    ASSUME NEW n \in Nat, NEW pt, Bounded(pt, n),
           NEW lo \in Nat, NEW hi \in Nat, lo < hi, NEW start \in Nat, NEW end \in Nat,
           NEW T \in Seq(Bytes), hi <= Len(T), start <= Len(pt.text), end <= Len(pt.text),
           start + (hi - lo - 1) <= Len(pt.text),
           NEW g, NEW new, Made(new, pt, T, start, end, lo, hi, g)
    PROVE  Bounded(new, n)
<1>1. /\ pt \in PreTokenSet /\ pt.align \in Seq(Int) /\ pt.first \in Int /\ Len(pt.text) \in Nat
      /\ \A i \in 0..Len(pt.text) : SpanFirst(pt, i) \in 0..n
  BY LenProperties DEF Bounded, PreTokenSet
<1>2. /\ new \in PreTokenSet /\ new.first = SpanFirst(pt, start) /\ new.last = SpanLast(pt, start, end)
      /\ g \in Seq(Int) /\ Len(g) = Len(new.text) /\ Len(g) # 0
      /\ \A j \in 1..Len(g) : g[j] \in 0..(hi - lo - 1)
      /\ g[Len(g)] = hi - lo - 1
  BY DEF Made
<1>3. \/ /\ new.align = <<>> /\ pt.align = <<>> /\ start = lo /\ T = pt.text
         /\ \A j \in 1..Len(g) : g[j] = j - 1
      \/ /\ Len(new.align) = Len(g)
         /\ \A j \in 1..Len(g) :
               new.align[j] = MapParent(start + g[j], pt.align) - MapParent(start, pt.align)
  BY DEF Made
<1>4. new.align \in Seq(Int) /\ Len(g) \in Nat \ {0} /\ new.first \in Int
  BY <1>2, LenProperties DEF PreTokenSet
<1>5. new.first \in 0..n /\ new.last \in 0..(n + 1) /\ new.first <= new.last
  BY <1>2, SpanBounds
<1>6. ASSUME NEW i \in 0..Len(g) PROVE SpanFirst(new, i) \in 0..n
  <2>0. SpanFirst(new, i) = new.first + MapParent(i, new.align) /\ i \in Nat
    BY <1>4 DEF SpanFirst
  <2>1. CASE /\ new.align = <<>> /\ pt.align = <<>> /\ start = lo /\ T = pt.text
             /\ \A j \in 1..Len(g) : g[j] = j - 1
    <3>1. MapParent(i, new.align) = i
      BY <2>0, <2>1 DEF MapParent
    <3>2. Len(g) = hi - lo
      <4>1. Len(g) \in 1..Len(g)
        BY <1>4
      <4>2. g[Len(g)] = Len(g) - 1
        BY <2>1, <4>1
      <4>3. Len(g) - 1 = hi - lo - 1
        BY <1>2, <4>2
      <4> DEFINE l == Len(g)
      <4>4. l \in Nat /\ l - 1 = hi - lo - 1
        BY <1>4, <4>3
      <4> HIDE DEF l
      <4>5. l = hi - lo
        BY <4>4
      <4> QED
        BY <4>5 DEF l
    <3>3. lo + i \in 0..Len(pt.text)
      BY <1>1, <2>1, <3>2
    <3>4. SpanFirst(pt, lo + i) = pt.first + (lo + i) /\ SpanFirst(pt, lo) = pt.first + lo
      BY <2>1 DEF SpanFirst, MapParent
    <3>5. SpanFirst(pt, lo + i) \in 0..n
      BY <1>1, <3>3
    <3>6. SpanFirst(new, i) = (pt.first + lo) + i
      BY <1>2, <2>0, <2>1, <3>1, <3>4
    <3>7. (pt.first + lo) + i = pt.first + (lo + i)
      BY SMTT(30), <1>1, <2>0
    <3> QED
      BY <3>4, <3>5, <3>6, <3>7
  <2>2. CASE /\ Len(new.align) = Len(g)
             /\ \A j \in 1..Len(g) :
                   new.align[j] = MapParent(start + g[j], pt.align) - MapParent(start, pt.align)
    <3>1. new.align # <<>>
      BY <1>4, <2>2, EmptySeq
    <3>1a. \E j \in 1..Len(new.align) : MapParent(i, new.align) = new.align[j]
      <4> DEFINE e == new.align
      <4>1. e \in Seq(Int) /\ e # <<>>
        BY <1>4, <3>1
      <4> HIDE DEF e
      <4>2. \E j \in 1..Len(e) : MapParent(i, e) = e[j]
        BY <2>0, <4>1, MapParentFacts
      <4> QED
        BY <4>2 DEF e
    <3>2. PICK j \in 1..Len(g) : MapParent(i, new.align) = new.align[j]
      BY <2>2, <3>1a
    <3> DEFINE x == g[j]
               a == MapParent(start + x, pt.align)
               c == MapParent(start, pt.align)
    <3>3. x \in 0..(hi - lo - 1)
      BY <1>2
    <3>4. MapParent(i, new.align) = a - c
      BY <2>2, <3>2
    <3> HIDE DEF x
    <3>5. start + x \in 0..Len(pt.text) /\ start + x \in Nat
      BY <1>1, <3>3
    <3>6. SpanFirst(pt, start + x) \in 0..n
      BY <1>1, <3>5
    <3>7. SpanFirst(pt, start + x) = pt.first + a /\ new.first = pt.first + c
      BY <1>2 DEF SpanFirst
    <3>8. a \in Int
      BY <1>1, <3>5, MapParentFacts
    <3>9. c \in Int
      BY <1>1, MapParentFacts
    <3> HIDE DEF a, c
    <3>10. new.first + MapParent(i, new.align) = pt.first + a
      BY <1>1, <3>4, <3>7, <3>8, <3>9
    <3> QED
      BY <2>0, <3>6, <3>7, <3>10
  <2> QED
    BY <1>3, <2>1, <2>2
<1> QED
  BY <1>2, <1>3, <1>5, <1>6 DEF Bounded

\* A piece of a cut, made of the bytes of its span.
LEMMA PieceMade ==
    ASSUME NEW pt \in PreTokenSet, NEW p \in Splits \cup ByteLevels, NEW c, NEW spans,
           CutAt(pt, p, c, spans), NEW k \in 1..Len(spans)
    PROVE  LET T == CutText(pt, p)
               lo == spans[k][1]
               hi == spans[k][2]
           IN /\ T \in Seq(Bytes) /\ lo \in Nat /\ hi \in Nat /\ lo < hi /\ hi <= Len(T)
              /\ lo \in Ends(T, TokenEnds(T)) /\ hi \in Ends(T, TokenEnds(T))
              /\ c[k] = CutPiece(pt, p, lo, hi)
<1> DEFINE T == CutText(pt, p)
           lo == spans[k][1]
           hi == spans[k][2]
           E == Ends(T, TokenEnds(T))
<1>1. T \in Seq(Bytes) /\ Len(T) \in Nat
  <2>1. T \in Seq(Bytes)
    BY PrefixedFacts DEF CutText, PreTokenSet
  <2> QED
    BY <2>1, LenProperties
<1>2. lo \in E /\ hi \in E /\ lo < hi
  BY DEF CutAt, Intervals
<1>3. E \in SUBSET (0..Len(T))
  <2> HIDE DEF T
  <2> QED
    BY <1>1, EndsWithin
<1>4. lo \in 0..Len(T) /\ hi \in 0..Len(T)
  <2> HIDE DEF T, E, lo, hi
  <2> QED
    BY <1>2, <1>3
<1>5. c[k] = CutPiece(pt, p, lo, hi)
  BY DEF CutAt
<1> HIDE DEF T, E, lo, hi
<1>6. lo \in Nat /\ hi \in Nat /\ lo < hi /\ hi <= Len(T)
  BY <1>1, <1>2, <1>4
<1> QED
  BY <1>1, <1>2, <1>5, <1>6 DEF T, E, lo, hi

\* Where in the pre-token the piece for bytes lo..hi-1 of T lies.
LEMMA ByteLevelPlace ==
    ASSUME NEW pt \in PreTokenSet, NEW bl \in ByteLevels, NEW lo \in Nat, NEW hi \in Nat, lo < hi,
           hi <= Len(PrefixedText(pt, bl))
    PROVE  LET start == Shift(lo, Prefixed(pt, bl))
               end == Shift(hi, Prefixed(pt, bl))
           IN /\ start \in Nat /\ end \in Nat /\ start <= lo
              /\ start <= Len(pt.text) /\ end <= Len(pt.text)
              /\ start + (hi - lo - 1) <= Len(pt.text)
              /\ ~(Prefixed(pt, bl) /\ lo = 0) => end = start + (hi - lo)
              /\ Prefixed(pt, bl) /\ lo = 0 => start = 0 /\ end = hi - 1
<1> DEFINE pf == Prefixed(pt, bl)
           start == Shift(lo, pf)
           end == Shift(hi, pf)
           n == Len(pt.text)
<1>1. n \in Nat /\ pf \in BOOLEAN
  BY LenProperties DEF PreTokenSet, Prefixed, ByteLevels
<1>2. IF pf THEN hi <= n + 1 ELSE hi <= n
  BY PrefixedFacts
<1> HIDE DEF pf, n
<1>3. CASE pf
  <2>1. end = hi - 1 /\ start = (IF lo > 0 THEN lo - 1 ELSE lo)
    BY <1>3 DEF Shift
  <2> HIDE DEF start, end
  <2>2. /\ start \in Nat /\ end \in Nat /\ start <= lo /\ start <= n /\ end <= n
        /\ start + (hi - lo - 1) <= n
    BY <1>1, <1>2, <1>3, <2>1
  <2>3. (lo # 0 => end = start + (hi - lo)) /\ (lo = 0 => start = 0 /\ end = hi - 1)
    BY <2>1
  <2> QED
    BY <1>3, <2>2, <2>3 DEF start, end, pf, n
<1>4. CASE ~pf
  <2>1. end = hi /\ start = lo
    BY <1>4 DEF Shift
  <2> HIDE DEF start, end
  <2>2. /\ start \in Nat /\ end \in Nat /\ start <= lo /\ start <= n /\ end <= n
        /\ start + (hi - lo - 1) <= n /\ end = start + (hi - lo)
    BY <1>1, <1>2, <1>4, <2>1
  <2> QED
    BY <1>4, <2>2 DEF start, end, pf, n
<1> QED
  BY <1>3, <1>4

\* The pieces of a pre-token within the text lie within the text.
LEMMA CutBounded ==
    ASSUME NEW n \in Nat, NEW pt, Bounded(pt, n), NEW p \in Splits \cup ByteLevels, NEW c \in Cuts(pt, p)
    PROVE  c \in Seq({x \in PreTokenSet : Bounded(x, n)})
<1> DEFINE B == {x \in PreTokenSet : Bounded(x, n)}
<1>1. pt \in PreTokenSet
  BY DEF Bounded
<1>2. ASSUME c = <<pt>> PROVE c \in Seq(B)
  <2>1. pt \in B
    BY <1>1
  <2> HIDE DEF B
  <2> QED
    BY <1>2, <2>1
<1>3. ASSUME NEW spans, CutAt(pt, p, c, spans) PROVE c \in Seq(B)
  <2>1. Len(spans) \in Nat /\ c = [k \in 1..Len(spans) |-> CutPiece(pt, p, spans[k][1], spans[k][2])]
    BY <1>3, LenProperties DEF CutAt
  <2>2. ASSUME NEW k \in 1..Len(spans) PROVE Bounded(CutPiece(pt, p, spans[k][1], spans[k][2]), n)
    <3> DEFINE T == CutText(pt, p)
               lo == spans[k][1]
               hi == spans[k][2]
    <3>1. T \in Seq(Bytes) /\ lo \in Nat /\ hi \in Nat /\ lo < hi /\ hi <= Len(T)
      BY <1>1, <1>3, PieceMade
    <3> HIDE DEF lo, hi
    <3>2. CASE p.type = "Split"
      <4> DEFINE g == [j \in 1..(hi - lo) |-> j - 1]
      <4>1. T = pt.text /\ CutPiece(pt, p, lo, hi) = SplitPiece(pt, lo, hi) /\ Len(T) \in Nat
        BY <3>1, <3>2, LenProperties DEF CutText, CutPiece
      <4> HIDE DEF T
      <4>2. Made(SplitPiece(pt, lo, hi), pt, pt.text, lo, hi, lo, hi, g)
        BY <1>1, <3>1, <4>1, SplitMade
      <4>3. lo <= Len(pt.text) /\ lo + (hi - lo - 1) <= Len(pt.text) /\ hi <= Len(pt.text)
        BY <3>1, <4>1
      <4> HIDE DEF g
      <4> QED
        BY <3>1, <4>1, <4>2, <4>3, MadeBounded DEF lo, hi
    <3>3. CASE p.type # "Split"
      <4> DEFINE start == Shift(lo, Prefixed(pt, p))
                 end == Shift(hi, Prefixed(pt, p))
                 seg == SubSeq(T, lo + 1, hi)
                 g == MapSegment(seg).align
                 new == ByteLevelPiece(pt, p, lo, hi)
      <4>1. T = PrefixedText(pt, p) /\ CutPiece(pt, p, lo, hi) = new
        BY <3>3 DEF CutText, CutPiece
      <4>2. p \in ByteLevels
        BY <3>3 DEF Splits
      <4>3. /\ start \in Nat /\ end \in Nat /\ start <= Len(pt.text) /\ end <= Len(pt.text)
            /\ start + (hi - lo - 1) <= Len(pt.text)
        BY <1>1, <3>1, <4>1, <4>2, ByteLevelPlace
      <4> HIDE DEF T
      <4>4. Made(new, pt, T, start, end, lo, hi, g)
        BY <1>1, <3>1, <4>1, <4>3, ByteLevelMade
      <4> HIDE DEF start, end, seg, g, new
      <4>5. Bounded(new, n)
        BY <3>1, <4>3, <4>4, MadeBounded
      <4> QED
        BY <4>1, <4>5 DEF lo, hi
    <3> QED
      BY <3>2, <3>3
  <2>3. \A k \in 1..Len(spans) : CutPiece(pt, p, spans[k][1], spans[k][2]) \in B
    BY <2>2 DEF Bounded
  <2> HIDE DEF B
  <2> QED
    BY <2>1, <2>3
<1> QED
  BY <1>1, <1>2, <1>3, CutFacts

TokenBounded(token, n) ==
    /\ token \in TokenSet
    /\ token.first \in 0..(n + 1) /\ token.last \in 0..(n + 1) /\ token.first <= token.last

\* The tokens of a pre-token: none, or one for each interval.
TokenCut(pt, c, t) ==
    /\ pt.text # <<>>
    /\ t \in Seq(Spans) /\ Forward(t, 0, Len(pt.text), Ends(pt.text, TokenEnds(pt.text)))
    /\ c = [k \in 1..Len(t) |-> TokenOf(pt, t[k][1], t[k][2])]

\* What the model makes of a pre-token.
LEMMA TokenizationFacts ==
    ASSUME NEW pt \in PreTokenSet, NEW c \in Tokenizations(pt)
    PROVE  c = <<>> \/ \E t : TokenCut(pt, c, t)
<1>1. pt.text \in Seq(Bytes)
  BY DEF PreTokenSet
<1>2. CASE pt.text = <<>>
  BY <1>2 DEF Tokenizations
<1>3. CASE pt.text # <<>>
  <2>1. Len(pt.text) \in Nat \ {0}
    BY <1>1, <1>3, EmptySeq
  <2>2. SUFFICES ASSUME c # <<>> PROVE \E t : TokenCut(pt, c, t)
    OBVIOUS
  <2>3. PICK t \in Tilings(pt.text, TokenEnds(pt.text)) :
           c = [k \in DOMAIN t |-> TokenOf(pt, t[k][1], t[k][2])]
    BY <1>3, <2>2 DEF Tokenizations
  <2>4. t \in Seq(Spans) /\ Forward(t, 0, Len(pt.text), Ends(pt.text, TokenEnds(pt.text)))
    BY <2>1, TilingFacts DEF Spans
  <2>5. DOMAIN t = 1..Len(t)
    BY <2>4, LenProperties
  <2>6. TokenCut(pt, c, t)
    BY <1>3, <2>3, <2>4, <2>5 DEF TokenCut
  <2> QED
    BY <2>6
<1> QED
  BY <1>2, <1>3

LEMMA TokenEndFacts ==
    ASSUME NEW pt \in PreTokenSet, NEW c, NEW t, TokenCut(pt, c, t), NEW k \in 1..Len(t)
    PROVE  LET lo == t[k][1]
               hi == t[k][2]
               E == Ends(pt.text, TokenEnds(pt.text))
           IN /\ lo \in Nat /\ hi \in Nat /\ lo < hi /\ hi <= Len(pt.text) /\ Len(pt.text) \in Nat
              /\ lo \in E /\ hi \in E
              /\ c[k] = TokenOf(pt, lo, hi)
<1> DEFINE lo == t[k][1]
           hi == t[k][2]
           E == Ends(pt.text, TokenEnds(pt.text))
           n == Len(pt.text)
<1>1. n \in Nat
  BY LenProperties DEF PreTokenSet
<1>2. lo \in E /\ hi \in E /\ lo < hi /\ c[k] = TokenOf(pt, lo, hi)
  BY DEF TokenCut, Forward
<1>3. E \in SUBSET (0..n)
  BY <1>1, EndsWithin
<1>4. lo \in 0..n /\ hi \in 0..n
  <2> HIDE DEF E, lo, hi, n
  <2> QED
    BY <1>2, <1>3
<1>5. lo \in Nat /\ hi \in Nat /\ lo < hi /\ hi <= n
  <2> HIDE DEF E, lo, hi, n
  <2> QED
    BY <1>1, <1>2, <1>4
<1> QED
  BY <1>1, <1>2, <1>5

LEMMA TokenOfFacts ==
    ASSUME NEW pt \in PreTokenSet, NEW lo \in Nat, NEW hi \in Nat, lo < hi, hi <= Len(pt.text)
    PROVE  /\ TokenOf(pt, lo, hi) \in TokenSet
           /\ TokenOf(pt, lo, hi).first = SpanFirst(pt, lo)
           /\ TokenOf(pt, lo, hi).last = SpanLast(pt, lo, hi)
           /\ Len(TokenOf(pt, lo, hi).text) = hi - lo
           /\ \A i \in 1..(hi - lo) : TokenOf(pt, lo, hi).text[i] = pt.text[lo + i]
<1> DEFINE x == SubSeq(pt.text, lo + 1, hi)
<1>1. pt.text \in Seq(Bytes)
  BY DEF PreTokenSet
<1>2. x \in Seq(Bytes) /\ Len(x) = hi - lo /\ \A i \in 1..(hi - lo) : x[i] = pt.text[lo + i]
  BY <1>1, SubText
<1>3. SpanFirst(pt, lo) \in Int /\ SpanLast(pt, lo, hi) \in Int
  BY SpanFacts
<1>4. TokenOf(pt, lo, hi) = [text |-> x, first |-> SpanFirst(pt, lo), last |-> SpanLast(pt, lo, hi)]
  BY DEF TokenOf
<1> HIDE DEF x
<1> QED
  BY <1>2, <1>3, <1>4 DEF TokenSet

LEMMA TokenizationBounded ==
    ASSUME NEW n \in Nat, NEW pt, Bounded(pt, n), NEW c \in Tokenizations(pt)
    PROVE  c \in Seq({x \in TokenSet : TokenBounded(x, n)})
<1> DEFINE B == {x \in TokenSet : TokenBounded(x, n)}
<1>1. pt \in PreTokenSet
  BY DEF Bounded
<1>2. ASSUME c = <<>> PROVE c \in Seq(B)
  BY <1>2, EmptySeq
<1>3. ASSUME NEW t, TokenCut(pt, c, t) PROVE c \in Seq(B)
  <2>1. Len(t) \in Nat /\ c = [k \in 1..Len(t) |-> TokenOf(pt, t[k][1], t[k][2])]
    BY <1>3, LenProperties DEF TokenCut
  <2>2. ASSUME NEW k \in 1..Len(t) PROVE TokenOf(pt, t[k][1], t[k][2]) \in B
    <3> DEFINE lo == t[k][1]
               hi == t[k][2]
    <3>1. lo \in Nat /\ hi \in Nat /\ lo < hi /\ hi <= Len(pt.text) /\ Len(pt.text) \in Nat
      BY <1>1, <1>3, TokenEndFacts
    <3> HIDE DEF lo, hi
    <3>2. lo <= Len(pt.text)
      BY <3>1
    <3>3. /\ SpanFirst(pt, lo) \in 0..n /\ SpanLast(pt, lo, hi) \in 0..(n + 1)
          /\ SpanFirst(pt, lo) <= SpanLast(pt, lo, hi)
      BY <3>1, <3>2, SpanBounds
    <3>4. /\ TokenOf(pt, lo, hi) \in TokenSet
          /\ TokenOf(pt, lo, hi).first = SpanFirst(pt, lo)
          /\ TokenOf(pt, lo, hi).last = SpanLast(pt, lo, hi)
      BY <1>1, <3>1, TokenOfFacts
    <3> DEFINE x == TokenOf(pt, lo, hi)
    <3> HIDE DEF x
    <3>5. x \in TokenSet /\ x.first \in 0..n /\ x.last \in 0..(n + 1) /\ x.first <= x.last
      BY <3>3, <3>4 DEF x
    <3>6. x.first \in 0..(n + 1)
      BY <3>5
    <3> QED
      BY <3>5, <3>6 DEF TokenBounded, x, lo, hi
  <2> HIDE DEF B
  <2> QED
    BY <2>1, <2>2
<1> QED
  BY <1>1, <1>2, <1>3, TokenizationFacts

-------------------------------------------------------------------------------
(* Trimming *)

LEMMA RunLengthFacts ==
    ASSUME NEW flags, Len(flags) \in Nat
    PROVE  /\ RunLength(flags) \in 0..Len(flags)
           /\ \A k \in 1..RunLength(flags) : flags[k]
           /\ RunLength(flags) < Len(flags) => ~flags[RunLength(flags) + 1]
<1> DEFINE n == Len(flags)
           T == {m \in 0..n : \A k \in 1..m : flags[k]}
           r == RunLength(flags)
<1>1. r = Max(T)
  BY DEF RunLength
<1>2. T \in SUBSET Int /\ 0 \in T /\ n \in Int /\ \A x \in T : x <= n
  OBVIOUS
<1>3. r \in T /\ \A y \in T : y <= r
  <2> HIDE DEF T, n
  <2> QED
    BY <1>1, <1>2, MaxFacts
<1> HIDE DEF r
<1>4. ASSUME r < n PROVE ~flags[r + 1]
  <2>1. r + 1 \notin T /\ r + 1 \in 0..n
    BY <1>3, <1>4
  <2>2. \A k \in 1..(r + 1) : k = r + 1 \/ k \in 1..r
    BY <1>3
  <2> QED
    BY <1>3, <2>1, <2>2
<1> QED
  BY <1>3, <1>4 DEF r

LEMMA WhiteFacts ==
    ASSUME NEW token \in TokenSet
    PROVE  /\ White(token) \in Seq(BOOLEAN)
           /\ Len(White(token)) = Len(Chars(token)) /\ Len(Chars(token)) \in Nat
           /\ \A k \in 1..Len(White(token)) : White(token)[k] <=> Chars(token)[k].b \in {"space", "g1"}
           /\ Reverse(White(token)) \in Seq(BOOLEAN)
           /\ Len(Reverse(White(token))) = Len(White(token))
           /\ \A k \in 1..Len(White(token)) :
                 Reverse(White(token))[k] = White(token)[Len(White(token)) - k + 1]
<1> DEFINE K == {i \in DOMAIN token.text : token.text[i].b \notin {"g2", "m2"}}
           c == Chars(token)
           w == White(token)
<1>1. token.text \in Seq(Bytes)
  BY DEF TokenSet
<1>2. c = Pick(token.text, K)
  BY DEF Chars
<1>3. c \in Seq(Bytes)
  <2>1. K \in SUBSET DOMAIN token.text
    OBVIOUS
  <2> HIDE DEF K, c
  <2> QED
    BY <1>1, <1>2, <2>1, PickFacts
<1>4. w = [k \in DOMAIN c |-> c[k].b \in {"space", "g1"}]
  BY DEF White
<1> HIDE DEF c, w
<1>5. DOMAIN c = 1..Len(c) /\ Len(c) \in Nat
  BY <1>3, LenProperties
<1>6. w \in Seq(BOOLEAN) /\ Len(w) = Len(c) /\ \A k \in 1..Len(c) : w[k] <=> c[k].b \in {"space", "g1"}
  <2> DEFINE F(k) == c[k].b \in {"space", "g1"}
             m == Len(c)
  <2>1. w = [k \in 1..m |-> F(k)] /\ m \in Nat
    BY <1>4, <1>5
  <2>2. \A k : F(k) \in BOOLEAN
    OBVIOUS
  <2> HIDE DEF F, m
  <2>3. w \in Seq(BOOLEAN) /\ Len(w) = m
    BY <2>1, <2>2
  <2>4. \A k \in 1..m : w[k] = F(k)
    BY <2>1
  <2> QED
    BY <2>3, <2>4 DEF F, m
<1> DEFINE n == Len(w)
<1>7. n \in Nat
  BY <1>5, <1>6
<1>8. Reverse(w) = [k \in 1..n |-> w[(n - k) + 1]]
  BY DEF Reverse
<1> HIDE DEF n
<1>9. \A k \in 1..n : (n - k) + 1 \in 1..n
  BY <1>7
<1>10. \A k \in 1..n : w[(n - k) + 1] \in BOOLEAN
  BY <1>6, <1>9, ElementOfSeq DEF n
<1>11. Reverse(w) \in Seq(BOOLEAN) /\ Len(Reverse(w)) = n /\ \A k \in 1..n : Reverse(w)[k] = w[(n - k) + 1]
  BY <1>7, <1>8, <1>10
<1> QED
  BY <1>5, <1>6, <1>11 DEF c, w, n

\* What trimming leaves of a token's offsets.
TrimmedBy(new, token, l, t) ==
    /\ new \in TokenSet /\ new.text = token.text
    /\ new.first = Min({token.first + l, token.last})
    /\ new.last = IF token.last >= new.first + t THEN token.last - t ELSE new.first

LeadWhite(token) == RunLength(White(token))
TailWhite(token) == Min({RunLength(Reverse(White(token))), Len(White(token)) - LeadWhite(token)})

\* What trim_offsets does to the offsets of a token.
LEMMA TrimFacts ==
    ASSUME NEW token \in TokenSet, NEW index, NEW prefix
    PROVE  /\ LeadWhite(token) \in 0..Len(White(token))
           /\ TailWhite(token) \in 0..(Len(White(token)) - LeadWhite(token))
           /\ TailWhite(token) <= RunLength(Reverse(White(token)))
           /\ \E l \in {0, LeadWhite(token)} : TrimmedBy(Trim(token, index, prefix), token, l, TailWhite(token))
<1> DEFINE w == White(token)
           f == LeadWhite(token)
           r == RunLength(Reverse(w))
           t == TailWhite(token)
<1>1. Len(w) \in Nat /\ Len(Reverse(w)) = Len(w)
  BY WhiteFacts
<1>2. f \in 0..Len(w)
  BY <1>1, RunLengthFacts DEF LeadWhite
<1>3. r \in 0..Len(w)
  <2> DEFINE v == Reverse(w)
  <2> HIDE DEF v, w
  <2>1. Len(v) \in Nat /\ Len(v) = Len(w)
    BY <1>1 DEF v
  <2>2. RunLength(v) \in 0..Len(v)
    BY <2>1, RunLengthFacts
  <2> QED
    BY <2>1, <2>2 DEF v
<1>4. t = Min({r, Len(w) - f})
  BY DEF TailWhite
<1> HIDE DEF w, f, r, t
<1>5. t \in 0..(Len(w) - f) /\ t <= r
  <2>1. r \in Int /\ Len(w) - f \in Int
    BY <1>1, <1>2, <1>3
  <2> DEFINE d == Len(w) - f
  <2> HIDE DEF d
  <2>2. Min({r, d}) \in {r, d} /\ Min({r, d}) <= r /\ Min({r, d}) <= d
    BY <2>1, MinOfTwo DEF d
  <2> QED
    BY <1>1, <1>2, <1>3, <1>4, <2>2 DEF d
<1>6. \E l \in {0, f} : TrimmedBy(Trim(token, index, prefix), token, l, t)
  <2> DEFINE l == IF index = 1 /\ prefix /\ f = 1 THEN 0 ELSE f
             first == Min({token.first + l, token.last})
             last == IF token.last >= first + t THEN token.last - t ELSE first
             new == Trim(token, index, prefix)
  <2>1. new = [token EXCEPT !.first = first, !.last = last]
    BY DEF Trim, t, f, w, LeadWhite, TailWhite
  <2>2. l \in {0, f}
    OBVIOUS
  <2>3. token.first \in Int /\ token.last \in Int /\ token.text \in Seq(Bytes)
        /\ token = [text |-> token.text, first |-> token.first, last |-> token.last]
    BY DEF TokenSet
  <2>4. token.first + l \in Int
    BY <1>2, <2>2, <2>3
  <2> DEFINE x == token.first + l
             y == token.last
  <2>5. first \in {x, y} /\ x \in Int /\ y \in Int
    <3>1. x \in Int /\ y \in Int /\ first = Min({x, y})
      BY <2>3, <2>4
    <3> HIDE DEF x, y, first, last, new, l
    <3> QED
      BY <3>1, MinOfTwo
  <2>6. first \in Int
    BY <2>5
  <2> HIDE DEF x, first, new, l
  <2>7. last \in Int
    BY <1>1, <1>2, <1>5, <2>3, <2>6
  <2> HIDE DEF last
  <2>8. new = [text |-> token.text, first |-> first, last |-> last]
    BY <2>1, <2>3
  <2>9. new \in TokenSet /\ new.text = token.text /\ new.first = first /\ new.last = last
    BY <2>3, <2>6, <2>7, <2>8 DEF TokenSet
  <2>10. TrimmedBy(new, token, l, t)
    BY <2>9 DEF TrimmedBy, first, last
  <2> QED
    BY <2>2, <2>10 DEF new
<1> QED
  BY <1>2, <1>5, <1>6 DEF w, f, r, t

LEMMA TrimBounded ==
    ASSUME NEW n \in Nat, NEW token, TokenBounded(token, n), NEW index, NEW prefix
    PROVE  TokenBounded(Trim(token, index, prefix), n)
<1> DEFINE new == Trim(token, index, prefix)
<1>1. token \in TokenSet /\ token.first \in 0..(n + 1) /\ token.last \in 0..(n + 1) /\ token.first <= token.last
  BY DEF TokenBounded
<1>2. /\ LeadWhite(token) \in Nat /\ TailWhite(token) \in Nat
      /\ \E l \in {0, LeadWhite(token)} : TrimmedBy(new, token, l, TailWhite(token))
  <2>1. Len(White(token)) \in Nat
    BY <1>1, WhiteFacts
  <2> QED
    BY <1>1, <2>1, TrimFacts
<1>3. PICK l \in {0, LeadWhite(token)} : TrimmedBy(new, token, l, TailWhite(token))
  BY <1>2
<1> DEFINE t == TailWhite(token)
           x == token.first + l
           y == token.last
<1>4. /\ new \in TokenSet /\ new.first = Min({x, y})
      /\ new.last = IF y >= new.first + t THEN y - t ELSE new.first
  BY <1>3 DEF TrimmedBy
<1>5. l \in Nat /\ t \in Nat /\ x \in Int /\ y \in Int
  BY <1>1, <1>2
<1>6. token.first <= x
  BY <1>1, <1>5
<1> HIDE DEF new, t, x, y
<1>7. Min({x, y}) \in {x, y} /\ Min({x, y}) <= y
  BY <1>5, MinOfTwo
<1>8. token.first <= new.first /\ new.first <= y /\ new.first \in Int
  BY <1>1, <1>4, <1>5, <1>6, <1>7 DEF y
<1>9. new.first \in 0..(n + 1) /\ new.last \in 0..(n + 1) /\ new.first <= new.last
  <2>1. y \in 0..(n + 1)
    BY <1>1 DEF y
  <2>2. CASE y >= new.first + t
    BY <1>1, <1>4, <1>5, <1>8, <2>1, <2>2
  <2>3. CASE ~(y >= new.first + t)
    BY <1>1, <1>4, <1>5, <1>8, <2>1, <2>3
  <2> QED
    BY <2>2, <2>3
<1> QED
  BY <1>4, <1>9 DEF TokenBounded, new

-------------------------------------------------------------------------------
(* Normalizers *)

PlainBytes == [b : PlainClasses, src : Int]
NormalizedSet == [bytes : Seq(PlainBytes), align : Seq(Int)]

\* The bytes from offset base on of a text of m bytes, each with its offset.
Contiguous(x, m, base) ==
    /\ x \in NormalizedSet /\ Len(x.align) = Len(x.bytes)
    /\ base \in Nat /\ base + Len(x.bytes) <= m
    /\ \A k \in 1..Len(x.bytes) : x.bytes[k].src = base + k - 1 /\ x.align[k] = base + k - 1

LEMMA FreshContiguous ==
    ASSUME NEW text \in Seq(PlainClasses)
    PROVE  Contiguous(Fresh(text), Len(text), 0)
<1> DEFINE n == Len(text)
           x == [k \in DOMAIN text |-> [b |-> text[k], src |-> k - 1]]
           a == [k \in DOMAIN text |-> k - 1]
<1>1. n \in Nat /\ DOMAIN text = 1..n /\ \A k \in 1..n : text[k] \in PlainClasses
  BY LenProperties, ElementOfSeq
<1> HIDE DEF n
<1>2. x \in Seq(PlainBytes) /\ Len(x) = n /\ \A k \in 1..n : x[k].src = k - 1
  <2>1. \A k \in 1..n : [b |-> text[k], src |-> k - 1] \in PlainBytes
    BY <1>1 DEF PlainBytes
  <2>2. x = [k \in 1..n |-> [b |-> text[k], src |-> k - 1]]
    BY <1>1
  <2>3. x \in Seq(PlainBytes) /\ Len(x) = n
    BY <1>1, <2>1, <2>2
  <2> QED
    BY <2>2, <2>3
<1>3. a \in Seq(Int) /\ Len(a) = n /\ \A k \in 1..n : a[k] = k - 1
  BY <1>1
<1> HIDE DEF x, a
<1>4. Fresh(text) = [bytes |-> x, align |-> a]
  BY DEF Fresh, x, a
<1>5. Fresh(text) \in NormalizedSet
  BY <1>2, <1>3, <1>4 DEF NormalizedSet
<1>6. 0 + n <= n /\ \A k \in 1..n : 0 + k - 1 = k - 1
  BY <1>1
<1> QED
  BY <1>2, <1>3, <1>4, <1>5, <1>6 DEF Contiguous, n

LEMMA SubSeqAt ==
    ASSUME NEW S, NEW s \in Seq(S), NEW l \in Nat, NEW h \in Nat, l <= h, h <= Len(s)
    PROVE  /\ SubSeq(s, l + 1, h) \in Seq(S) /\ Len(SubSeq(s, l + 1, h)) = h - l
           /\ \A i \in 1..(h - l) : SubSeq(s, l + 1, h)[i] = s[l + i]
<1>1. Len(s) \in Nat
  BY LenProperties
<1>2. \A i \in (l + 1)..h : s[i] \in S
  BY <1>1, ElementOfSeq
<1>3. l + 1 \in Int /\ h \in Int
  OBVIOUS
<1>4. /\ SubSeq(s, l + 1, h) \in Seq(S)
      /\ Len(SubSeq(s, l + 1, h)) = IF l + 1 <= h THEN h - (l + 1) + 1 ELSE 0
      /\ \A i \in 1..(h - (l + 1) + 1) : SubSeq(s, l + 1, h)[i] = s[(l + 1) + i - 1]
  BY <1>2, <1>3, SubSeqProperties
<1>5. /\ h - (l + 1) + 1 = h - l /\ (IF l + 1 <= h THEN h - (l + 1) + 1 ELSE 0) = h - l
      /\ \A i \in 1..(h - l) : (l + 1) + i - 1 = l + i
  OBVIOUS
<1> QED
  BY <1>4, <1>5

LEMMA PartContiguous ==
    ASSUME NEW x, NEW m \in Nat, NEW base, Contiguous(x, m, base),
           NEW l \in Nat, NEW h \in Nat, l <= h, h <= Len(x.bytes)
    PROVE  /\ Contiguous([bytes |-> SubSeq(x.bytes, l + 1, h), align |-> SubSeq(x.align, l + 1, h)],
                         m, base + l)
           /\ Len(SubSeq(x.bytes, l + 1, h)) = h - l
<1> DEFINE b == SubSeq(x.bytes, l + 1, h)
           a == SubSeq(x.align, l + 1, h)
           n == Len(x.bytes)
<1>1. x.bytes \in Seq(PlainBytes) /\ x.align \in Seq(Int) /\ Len(x.align) = n /\ n \in Nat
      /\ base \in Nat /\ base + n <= m
      /\ \A k \in 1..n : x.bytes[k].src = base + k - 1 /\ x.align[k] = base + k - 1
  BY LenProperties DEF Contiguous, NormalizedSet
<1>2. b \in Seq(PlainBytes) /\ Len(b) = h - l /\ \A i \in 1..(h - l) : b[i] = x.bytes[l + i]
  BY <1>1, SubSeqAt
<1>3. a \in Seq(Int) /\ Len(a) = h - l /\ \A i \in 1..(h - l) : a[i] = x.align[l + i]
  BY <1>1, SubSeqAt
<1> HIDE DEF a, b, n
<1>4. \A i \in 1..(h - l) : l + i \in 1..n /\ base + (l + i) - 1 = (base + l) + i - 1
  BY <1>1 DEF n
<1>5. [bytes |-> b, align |-> a] \in NormalizedSet
  BY <1>2, <1>3 DEF NormalizedSet
<1>6. base + l \in Nat /\ (base + l) + (h - l) <= m
  BY <1>1 DEF n
<1>7. Contiguous([bytes |-> b, align |-> a], m, base + l)
  BY <1>1, <1>2, <1>3, <1>4, <1>5, <1>6 DEF Contiguous
<1> QED
  BY <1>2, <1>7 DEF a, b

\* What delete_range leaves of a normalized text.
LEMMA DeleteFacts ==
    ASSUME NEW x, NEW m \in Nat, NEW base, Contiguous(x, m, base),
           NEW l \in Nat, NEW h \in Nat, l <= h, h <= Len(x.bytes)
    PROVE  /\ Contiguous(DeleteRange(x, 0, h), m, base + h)
           /\ Len(DeleteRange(x, 0, h).bytes) = Len(x.bytes) - h
           /\ Contiguous(DeleteRange(x, l, Len(x.bytes)), m, base)
           /\ Len(DeleteRange(x, l, Len(x.bytes)).bytes) = l
<1> DEFINE n == Len(x.bytes)
<1>1. x.bytes \in Seq(PlainBytes) /\ x.align \in Seq(Int) /\ Len(x.align) = n /\ n \in Nat /\ base \in Nat
  BY LenProperties DEF Contiguous, NormalizedSet
<1>2. ASSUME NEW S, NEW s \in Seq(S), Len(s) = n
      PROVE  /\ SubSeq(s, 1, 0) \o SubSeq(s, h + 1, n) = SubSeq(s, h + 1, n)
             /\ SubSeq(s, 1, l) \o SubSeq(s, n + 1, n) = SubSeq(s, 0 + 1, l)
  <2>1. SubSeq(s, 1, 0) = <<>>
    BY SubSeqEmpty
  <2>2. SubSeq(s, n + 1, n) = <<>>
    BY <1>1, SubSeqEmpty
  <2>3. SubSeq(s, h + 1, n) \in Seq(S)
    BY <1>1, <1>2, SubSeqAt
  <2>4. SubSeq(s, 0 + 1, l) \in Seq(S) /\ 0 + 1 = 1
    <3>1. 0 \in Nat /\ 0 <= l /\ l <= Len(s)
      BY <1>1, <1>2
    <3> QED
      BY <3>1, SubSeqAt
  <2> QED
    BY <2>1, <2>2, <2>3, <2>4, ConcatEmptySeq
<1>3. DeleteRange(x, 0, h) = [bytes |-> SubSeq(x.bytes, h + 1, n), align |-> SubSeq(x.align, h + 1, n)]
  <2>1. ~(0 > h \/ h > n)
    BY <1>1
  <2>2. DeleteRange(x, 0, h) = [bytes |-> SubSeq(x.bytes, 1, 0) \o SubSeq(x.bytes, h + 1, n),
                                align |-> SubSeq(x.align, 1, 0) \o SubSeq(x.align, h + 1, n)]
    BY <1>1, <2>1 DEF DeleteRange
  <2> QED
    BY <1>1, <1>2, <2>2
<1>4. DeleteRange(x, l, n) = [bytes |-> SubSeq(x.bytes, 0 + 1, l), align |-> SubSeq(x.align, 0 + 1, l)]
  <2>1. ~(l > n \/ n > n)
    BY <1>1
  <2>2. DeleteRange(x, l, n) = [bytes |-> SubSeq(x.bytes, 1, l) \o SubSeq(x.bytes, n + 1, n),
                                align |-> SubSeq(x.align, 1, l) \o SubSeq(x.align, n + 1, n)]
    BY <1>1, <2>1 DEF DeleteRange
  <2> QED
    BY <1>1, <1>2, <2>2
<1>5. /\ Contiguous([bytes |-> SubSeq(x.bytes, h + 1, n), align |-> SubSeq(x.align, h + 1, n)], m, base + h)
      /\ Len(SubSeq(x.bytes, h + 1, n)) = n - h
  <2>1. n \in Nat /\ h <= n /\ n <= Len(x.bytes)
    BY <1>1
  <2> HIDE DEF n
  <2> QED
    BY <2>1, PartContiguous
<1>6. /\ Contiguous([bytes |-> SubSeq(x.bytes, 0 + 1, l), align |-> SubSeq(x.align, 0 + 1, l)], m, base + 0)
      /\ Len(SubSeq(x.bytes, 0 + 1, l)) = l - 0
  <2> DEFINE o == 0
  <2>1. o \in Nat /\ o <= l /\ l <= Len(x.bytes)
    BY <1>1
  <2> HIDE DEF o
  <2>2. /\ Contiguous([bytes |-> SubSeq(x.bytes, o + 1, l), align |-> SubSeq(x.align, o + 1, l)], m, base + o)
        /\ Len(SubSeq(x.bytes, o + 1, l)) = l - o
    BY <2>1, PartContiguous
  <2> QED
    BY <2>2 DEF o
<1>7. base + 0 = base /\ l - 0 = l
  BY <1>1
<1> HIDE DEF n
<1>8. Contiguous(DeleteRange(x, 0, h), m, base + h) /\ Len(DeleteRange(x, 0, h).bytes) = n - h
  <2> DEFINE p == SubSeq(x.bytes, h + 1, n)
             q == SubSeq(x.align, h + 1, n)
  <2> HIDE DEF p, q
  <2>1. DeleteRange(x, 0, h) = [bytes |-> p, align |-> q]
    BY <1>3 DEF p, q
  <2>2. Contiguous([bytes |-> p, align |-> q], m, base + h) /\ Len(p) = n - h
    BY <1>5 DEF p, q
  <2> QED
    BY <2>1, <2>2
<1>9. Contiguous(DeleteRange(x, l, n), m, base) /\ Len(DeleteRange(x, l, n).bytes) = l
  BY <1>4, <1>6, <1>7
<1> QED
  BY <1>8, <1>9 DEF n

LEMMA LeadingFacts ==
    ASSUME NEW text, Len(text) \in Nat
    PROVE  Leading(text) \in 0..Len(text)
<1> DEFINE n == Len(text)
           T == {m \in 0..n : \A k \in 1..m : text[k].b = "space"}
<1>1. Leading(text) = Max(T)
  BY DEF Leading
<1>2. T \in SUBSET Int /\ T # {} /\ n \in Int /\ \A x \in T : x <= n
  <2>1. 0 \in T
    OBVIOUS
  <2> QED
    BY <2>1
<1>3. Max(T) \in T
  <2> HIDE DEF T, n
  <2> QED
    BY <1>2, MaxFacts
<1> QED
  BY <1>1, <1>3

\* Strip leaves one stretch of the text.
LEMMA StripContiguous ==
    ASSUME NEW x, NEW m \in Nat, NEW base, Contiguous(x, m, base)
    PROVE  \E base1 : Contiguous(Strip(x), m, base1)
<1> DEFINE n == Len(x.bytes)
           r == Reverse(x.bytes)
           start == Leading(x.bytes)
           trailing == Leading(r)
           end == Max({start, n - trailing})
           cut == DeleteRange(x, 0, start)
<1>1. n \in Nat /\ x.bytes \in Seq(PlainBytes)
  BY LenProperties DEF Contiguous, NormalizedSet
<1>2. Len(r) = n
  <2> DEFINE s == x.bytes
  <2> HIDE DEF s
  <2>1. Reverse(s) = [k \in 1..Len(s) |-> s[(Len(s) - k) + 1]] /\ Len(s) \in Nat
    BY <1>1 DEF Reverse, s
  <2>2. Len(Reverse(s)) = Len(s)
    BY <2>1
  <2> QED
    BY <2>2 DEF s
<1>3. start \in 0..n
  BY <1>1, LeadingFacts
<1>4. trailing \in 0..n
  <2> HIDE DEF r, n
  <2> QED
    BY <1>1, <1>2, LeadingFacts
<1> HIDE DEF n, r, start, trailing
<1>5. start \in Int /\ n - trailing \in Int
  BY <1>1, <1>3, <1>4
<1>6. end \in start..n
  <2> DEFINE z == n - trailing
  <2>0. z \in Int /\ z <= n
    BY <1>1, <1>4
  <2> HIDE DEF z
  <2>1. Max({start, z}) \in {start, z} /\ start <= Max({start, z})
    BY <1>5, <2>0, MaxOfTwo
  <2>2. Max({start, z}) \in start..n
    BY <1>1, <1>3, <2>0, <2>1
  <2> QED
    BY <2>2 DEF z
<1> HIDE DEF end
<1>7. Contiguous(cut, m, base + start) /\ Len(cut.bytes) = n - start
  <2>1. 0 \in Nat /\ start \in Nat /\ 0 <= start /\ start <= Len(x.bytes)
    BY <1>3 DEF n
  <2> QED
    BY <2>1, DeleteFacts DEF n
<1> HIDE DEF cut
<1> DEFINE l == end - start
<1>8. l \in Nat /\ l <= Len(cut.bytes) /\ Len(cut.bytes) \in Nat
  BY <1>1, <1>3, <1>6, <1>7
<1> HIDE DEF l
<1>9. Contiguous(DeleteRange(cut, l, Len(cut.bytes)), m, base + start)
  <2> DEFINE h == Len(cut.bytes)
  <2>1. h \in Nat /\ l <= h
    BY <1>8
  <2> QED
    BY <1>7, <1>8, <2>1, DeleteFacts
<1>10. Strip(x) = DeleteRange(cut, l, Len(cut.bytes))
  BY DEF Strip, cut, l, end, start, n, trailing, r
<1> QED
  BY <1>9, <1>10

\* Lowercase and Uppercase leave each byte where it was.
LEMMA MapContiguous ==
    ASSUME NEW x, NEW m \in Nat, NEW base, Contiguous(x, m, base)
    PROVE  Contiguous(MapBytes(x, LowerByte), m, base) /\ Contiguous(MapBytes(x, UpperByte), m, base)
<1>1. /\ x.bytes \in Seq(PlainBytes) /\ x.align \in Seq(Int) /\ Len(x.align) = Len(x.bytes)
      /\ Len(x.bytes) \in Nat /\ DOMAIN x.bytes = 1..Len(x.bytes)
      /\ base \in Nat /\ base + Len(x.bytes) <= m
      /\ \A k \in 1..Len(x.bytes) : x.bytes[k].src = base + k - 1 /\ x.align[k] = base + k - 1
      /\ x = [bytes |-> x.bytes, align |-> x.align]
  BY LenProperties DEF Contiguous, NormalizedSet
<1>2. ASSUME NEW y, y = [x EXCEPT !.bytes = y.bytes], DOMAIN y.bytes = DOMAIN x.bytes,
             y.bytes = [k \in DOMAIN x.bytes |-> y.bytes[k]],
             \A k \in DOMAIN x.bytes : y.bytes[k] \in PlainBytes /\ y.bytes[k].src = x.bytes[k].src
      PROVE  Contiguous(y, m, base)
  <2> DEFINE z == y.bytes
  <2>1. y.align = x.align /\ y = [bytes |-> z, align |-> x.align]
    BY <1>1, <1>2
  <2>2. z \in Seq(PlainBytes) /\ Len(z) = Len(x.bytes)
    BY <1>1, <1>2
  <2> HIDE DEF z
  <2>3. y \in NormalizedSet
    BY <1>1, <2>1, <2>2 DEF NormalizedSet
  <2> QED
    BY <1>1, <1>2, <2>1, <2>2, <2>3 DEF Contiguous, z
<1>3. \A k \in DOMAIN x.bytes : x.bytes[k] \in PlainBytes
  BY <1>1, ElementOfSeq
<1>4. ASSUME NEW k \in DOMAIN x.bytes, NEW c \in PlainClasses
      PROVE  [b |-> c, src |-> x.bytes[k].src] \in PlainBytes
  BY <1>3 DEF PlainBytes
<1>5. ASSUME NEW map, \A b \in PlainClasses : map[b] \in PlainClasses
      PROVE  Contiguous(MapBytes(x, map), m, base)
  <2> DEFINE y == MapBytes(x, map)
             z == [k \in DOMAIN x.bytes |-> [b |-> map[x.bytes[k].b], src |-> x.bytes[k].src]]
  <2>1. y = [x EXCEPT !.bytes = z]
    BY DEF MapBytes
  <2>2. y.bytes = z
    BY <1>1, <2>1
  <2>3. \A k \in DOMAIN x.bytes : map[x.bytes[k].b] \in PlainClasses
    BY <1>3, <1>5 DEF PlainBytes
  <2>4. \A k \in DOMAIN x.bytes : z[k] \in PlainBytes /\ z[k].src = x.bytes[k].src
    BY <1>4, <2>3
  <2>5. DOMAIN z = DOMAIN x.bytes /\ z = [k \in DOMAIN x.bytes |-> z[k]]
    OBVIOUS
  <2> HIDE DEF y, z
  <2> QED
    BY <1>2, <2>1, <2>2, <2>4, <2>5 DEF y
<1>6. \A b \in PlainClasses : LowerByte[b] \in PlainClasses /\ UpperByte[b] \in PlainClasses
  BY DEF PlainClasses, LowerByte, UpperByte
<1> QED
  BY <1>5, <1>6

\* Where in the original text the normalized text begins.
Base(x) == IF x.bytes = <<>> THEN 0 ELSE x.bytes[1].src

LEMMA BaseContiguous ==
    ASSUME NEW x, NEW m \in Nat, NEW base, Contiguous(x, m, base)
    PROVE  Contiguous(x, m, Base(x))
<1>1. CASE x.bytes = <<>>
  <2>1. Len(x.bytes) = 0 /\ Base(x) = 0
    BY <1>1, EmptySeq DEF Base
  <2>2. 0 \in Nat /\ 0 + 0 <= m /\ \A k \in 1..0 : FALSE
    OBVIOUS
  <2> QED
    BY <2>1, <2>2 DEF Contiguous
<1>2. CASE x.bytes # <<>>
  <2>1. Len(x.bytes) \in Nat \ {0} /\ base \in Nat
    BY <1>2, EmptySeq DEF Contiguous, NormalizedSet
  <2>2. 1 \in 1..Len(x.bytes) /\ base + 1 - 1 = base
    BY <2>1
  <2>3. Base(x) = base
    BY <1>2, <2>2 DEF Contiguous, Base
  <2> QED
    BY <2>3
<1> QED
  BY <1>1, <1>2

-------------------------------------------------------------------------------
(* The mapping back to the original text. *)

\* What offsets first, last in a normalized text of n bytes, which begins at
\* base in the original one, are mapped to.
Aligned(s, e, n, base, first, last) ==
    /\ n = 0 => s = first /\ e = last
    /\ n # 0 => s \in base..(base + n - 1) /\ e \in s..(base + n)
    /\ n # 0 => s = IF first < n THEN base + first ELSE base + n - 1
    /\ n # 0 /\ last \in 1..n => e = base + last

\* align_to_original.
LEMMA AlignFacts ==
    ASSUME NEW x, NEW m \in Nat, NEW base, Contiguous(x, m, base), NEW n \in Nat, n = Len(x.bytes),
           NEW first \in 0..(n + 1), NEW last \in 0..(n + 1), first <= last
    PROVE  Aligned(AlignToOriginal(x.align, first, last)[1], AlignToOriginal(x.align, first, last)[2],
                   n, base, first, last)
<1> DEFINE a == x.align
           s == AlignToOriginal(a, first, last)[1]
           e == AlignToOriginal(a, first, last)[2]
<1>1. a \in Seq(Int) /\ Len(a) = n /\ base \in Nat /\ \A k \in 1..n : a[k] = base + k - 1
  BY DEF Contiguous, NormalizedSet
<1> SUFFICES Aligned(s, e, n, base, first, last)
  OBVIOUS
<1> HIDE DEF a
<1>2. CASE n = 0
  <2>1. a = <<>>
    BY <1>1, <1>2, EmptySeq
  <2> QED
    BY <1>2, <2>1 DEF AlignToOriginal, Aligned
<1>3. CASE n # 0
  <2> DEFINE s1 == IF first >= Len(a) THEN Last(a) ELSE a[first + 1]
             e1 == IF last = 0 \/ last > Len(a) THEN Last(a) + 1 ELSE a[last] + 1
  <2>1. a # <<>> /\ Last(a) = base + n - 1
    <3>1. a # <<>> /\ Last(a) = a[n] /\ n \in 1..n
      BY <1>1, <1>3, EmptySeq DEF Last
    <3> QED
      BY <1>1, <3>1
  <2>2. s1 = IF first < n THEN base + first ELSE base + n - 1
    BY <1>1, <1>3, <2>1
  <2>3. e1 = IF last = 0 \/ last > n THEN base + n ELSE base + last
    <3>1. last = 0 \/ last > n \/ last \in 1..n
      OBVIOUS
    <3>2. Last(a) + 1 = base + n
      BY <1>1, <2>1
    <3>3. last \in 1..n => a[last] + 1 = base + last
      BY <1>1
    <3> QED
      BY <1>1, <3>1, <3>2, <3>3
  <2>4. AlignToOriginal(a, first, last) = <<s1, Max({s1, e1})>>
    BY <2>1 DEF AlignToOriginal
  <2>5. s1 \in Int /\ e1 \in Int
    BY SMTT(30), <1>1, <2>2, <2>3
  <2> HIDE DEF s1, e1
  <2>6. s = s1 /\ e = Max({s1, e1})
    BY <2>4
  <2> HIDE DEF s, e
  <2>7. Max({s1, e1}) \in {s1, e1} /\ s1 <= Max({s1, e1}) /\ e1 <= Max({s1, e1})
    BY <2>5, MaxOfTwo
  <2>8. s1 \in base..(base + n - 1) /\ e1 <= base + n
    BY <1>1, <1>3, <2>2, <2>3
  <2>9. e \in s..(base + n)
    BY <1>1, <2>5, <2>6, <2>7, <2>8
  <2>10. last \in 1..n => s1 <= e1 /\ e1 = base + last
    BY SMTT(30), <1>1, <1>3, <2>2, <2>3
  <2>11. last \in 1..n => e = base + last
    BY <2>5, <2>6, <2>7, <2>10
  <2> QED
    BY <1>3, <2>2, <2>6, <2>8, <2>9, <2>11 DEF Aligned
<1> QED
  BY <1>2, <1>3

\* The offsets of a finished token of a text of m bytes.
Finished(token, m) ==
    /\ token \in TokenSet
    /\ token.first \in 0..(m + 1) /\ token.last \in 0..(m + 1) /\ token.first <= token.last
    /\ m # 0 => token.last <= m

LEMMA AlignFinished ==
    ASSUME NEW x, NEW m \in Nat, NEW base, Contiguous(x, m, base),
           NEW token, TokenBounded(token, Len(x.bytes)), NEW s, NEW e,
           s = AlignToOriginal(x.align, token.first, token.last)[1],
           e = AlignToOriginal(x.align, token.first, token.last)[2],
           NEW new, new = [token EXCEPT !.first = s, !.last = e]
    PROVE  Finished(new, m)
<1> DEFINE n == Len(x.bytes)
           first == token.first
           last == token.last
<1>1. n \in Nat /\ base \in Nat /\ base + n <= m
  BY LenProperties DEF Contiguous, NormalizedSet
<1>2. first \in 0..(n + 1) /\ last \in 0..(n + 1) /\ first <= last /\ token \in TokenSet
  BY DEF TokenBounded
<1>3. /\ AlignToOriginal(x.align, first, last)[1] = s
      /\ AlignToOriginal(x.align, first, last)[2] = e
      /\ n = Len(x.bytes)
  OBVIOUS
<1> HIDE DEF n, first, last
<1>4. Aligned(s, e, n, base, first, last)
  BY <1>1, <1>2, <1>3, AlignFacts
<1>5. s \in 0..(m + 1) /\ e \in 0..(m + 1) /\ s <= e /\ (m # 0 => e <= m)
  <2>1. CASE n = 0
    <3>1. s = first /\ e = last
      BY <1>4, <2>1 DEF Aligned
    <3> QED
      BY <1>1, <1>2, <2>1, <3>1
  <2>2. CASE n # 0
    <3>1. s \in base..(base + n - 1) /\ e \in s..(base + n)
      BY <1>4, <2>2 DEF Aligned
    <3> QED
      BY <1>1, <3>1
  <2> QED
    BY <2>1, <2>2
<1>6. s \in Int /\ e \in Int /\ token \in TokenSet
  BY <1>1, <1>2, <1>5
<1>7. new \in TokenSet /\ new.first = s /\ new.last = e
  BY <1>6 DEF TokenSet
<1> QED
  BY <1>5, <1>7 DEF Finished

-------------------------------------------------------------------------------
(* What every state of the pipeline satisfies. *)

Stages == {"normalize", "pretokenize", "process", "align", "truncate", "done"}
BoundedPreTokens(n) == {x \in PreTokenSet : Bounded(x, n)}
BoundedTokens(n) == {x \in TokenSet : TokenBounded(x, n)}
FinishedTokens(m) == {x \in TokenSet : Finished(x, m)}

Shape ==
    /\ original \in Texts /\ config \in Configs /\ ran \in Nat /\ stage \in Stages
    /\ Contiguous(ns, Len(original), Base(ns))
    /\ pretokens \in Seq(BoundedPreTokens(Len(ns.bytes)))
    /\ stage = "normalize" => pretokens = <<>>
    /\ stage \in {"normalize", "pretokenize"} => tokens = <<>>
    /\ stage = "pretokenize" => ran <= Len(config.pretokenizers)
    /\ stage \in {"process", "align"} => tokens \in Seq(BoundedTokens(Len(ns.bytes)))
    /\ stage \in {"truncate", "done"} => tokens \in Seq(FinishedTokens(Len(original)))

\* What the configurations say of each step of a pipeline.
LEMMA ConfigFacts ==
    ASSUME Shape
    PROVE  /\ original \in Seq(PlainClasses) /\ Len(original) \in Nat
           /\ Len(ns.bytes) \in Nat /\ Len(ns.bytes) <= Len(original)
           /\ config.normalizers \in Seq(Normalizers) /\ Len(config.normalizers) \in Nat
           /\ config.pretokenizers \in Seq(Splits \cup ByteLevels) /\ Len(config.pretokenizers) \in Nat
           /\ config.post \in [trim : BOOLEAN, prefix : BOOLEAN]
           /\ config.truncation \in [max : Int, fromEnd : BOOLEAN]
<1>1. original \in Seq(PlainClasses) /\ Len(original) \in Nat
  BY TextAssumption, LenProperties DEF Shape
<1>2. Len(ns.bytes) \in Nat /\ Len(ns.bytes) <= Len(original)
  <2> DEFINE n == Len(ns.bytes)
             m == Len(original)
             b == Base(ns)
  <2>1. n \in Nat /\ b \in Nat /\ b + n <= m /\ m \in Nat
    BY <1>1, LenProperties DEF Shape, Contiguous, NormalizedSet
  <2> HIDE DEF n, m, b
  <2>2. n <= m
    BY <2>1
  <2> QED
    BY <2>1, <2>2 DEF n, m
<1>3. config \in [normalizers : Seq(Normalizers), pretokenizers : Seq(Splits \cup ByteLevels),
                  post : [trim : BOOLEAN, prefix : BOOLEAN],
                  truncation : [max : Int, fromEnd : BOOLEAN]]
  BY ConfigAssumption DEF Shape
<1> QED
  BY <1>1, <1>2, <1>3, LenProperties

LEMMA ShapeInit == Init => Shape
<1> SUFFICES ASSUME Init PROVE Shape
  OBVIOUS
<1>1. original \in Seq(PlainClasses) /\ Len(original) \in Nat
  BY TextAssumption, LenProperties DEF Init
<1>2. Contiguous(ns, Len(original), 0)
  BY <1>1, FreshContiguous DEF Init
<1>3. Contiguous(ns, Len(original), Base(ns))
  BY <1>1, <1>2, BaseContiguous
<1>4. pretokens \in Seq(BoundedPreTokens(Len(ns.bytes)))
  BY DEF Init
<1> QED
  BY <1>3, <1>4 DEF Init, Shape, Stages

LEMMA ShapeNormalize == Shape /\ Normalize => Shape'
<1> SUFFICES ASSUME Shape, Normalize PROVE Shape'
  OBVIOUS
<1> DEFINE m == Len(original)
           x == Normalized(config.normalizers[ran + 1])
<1>1. m \in Nat /\ Contiguous(ns, m, Base(ns))
  BY ConfigFacts DEF Shape
<1>2. \E b : Contiguous(x, m, b)
  <2>1. Contiguous(MapBytes(ns, LowerByte), m, Base(ns)) /\ Contiguous(MapBytes(ns, UpperByte), m, Base(ns))
    BY <1>1, MapContiguous
  <2>2. \E b : Contiguous(Strip(ns), m, b)
    BY <1>1, StripContiguous
  <2>3. x \in {Strip(ns), MapBytes(ns, LowerByte), MapBytes(ns, UpperByte), ns}
    BY Zenon DEF Normalized
  <2> QED
    BY <1>1, <2>1, <2>2, <2>3
<1>3. Contiguous(x, m, Base(x))
  BY <1>1, <1>2, BaseContiguous
<1>4. ns' = x /\ original' = original /\ stage = "normalize" /\ stage' = stage /\ config' = config
      /\ pretokens' = pretokens /\ tokens' = tokens /\ ran' = ran + 1
  BY DEF Normalize
<1> HIDE DEF x
<1>5. Contiguous(ns, m, Base(ns))'
  BY <1>3, <1>4
<1>6. pretokens' = <<>> /\ tokens' = <<>> /\ ran' \in Nat
  BY <1>4 DEF Shape
<1> QED
  BY <1>4, <1>5, <1>6 DEF Shape

LEMMA ConcatenationsSeq ==
    ASSUME NEW S, NEW n \in Nat, NEW R, DOMAIN R = 1..n, \A k \in 1..n : R[k] \in SUBSET Seq(S)
    PROVE  Concatenations(R) \in SUBSET Seq(S)
<1> DEFINE G == [k \in 0..n |-> Seq(S)]
<1>1. <<>> \in G[0]
  OBVIOUS
<1>2. ASSUME NEW k \in 1..n, NEW a \in G[k - 1] \cap Seq(S), NEW c \in R[k]
      PROVE  a \o c \in G[k]
  <2>1. a \in Seq(S) /\ c \in Seq(S)
    BY <1>2
  <2>2. a \o c \in Seq(S)
    BY <2>1, ConcatProperties
  <2> QED
    BY <2>2
<1> HIDE DEF G
<1> QED
  BY <1>1, <1>2, ConcatenationsWithin

LEMMA ShapeNormalization == Shape /\ Normalization => Shape'
<1> SUFFICES ASSUME Shape, Normalization PROVE Shape'
  OBVIOUS
<1> DEFINE n == Len(ns.bytes)
           pt == [text |-> ns.bytes, first |-> 0, last |-> n, align |-> <<>>]
<1>1. n \in Nat /\ ns.bytes \in Seq(PlainBytes)
  BY ConfigFacts DEF Shape, Contiguous, NormalizedSet
<1>2. PlainBytes \subseteq Bytes
  BY DEF PlainBytes, Bytes
<1>3. ns.bytes \in Seq(Bytes)
  BY <1>1, <1>2
<1>4. pt \in PreTokenSet
  BY <1>1, <1>3 DEF PreTokenSet
<1>5. Bounded(pt, n)
  <2>1. \A i \in 0..n : SpanFirst(pt, i) = i
    BY <1>1 DEF SpanFirst, MapParent
  <2>2. pt.first = 0 /\ pt.last = n /\ pt.text = ns.bytes /\ pt.align = <<>>
    OBVIOUS
  <2>3. Len(pt.text) = n
    BY <2>2
  <2> HIDE DEF pt, n
  <2> QED
    BY <1>1, <1>4, <2>1, <2>2, <2>3 DEF Bounded
<1>6. /\ pretokens' = <<pt>> /\ ns' = ns /\ original' = original /\ config' = config /\ ran' = 0
      /\ tokens' = tokens /\ stage = "normalize" /\ stage' = "pretokenize"
  BY DEF Normalization
<1> HIDE DEF pt, n
<1>7. <<pt>> \in Seq(BoundedPreTokens(n))
  <2>1. pt \in BoundedPreTokens(n)
    BY <1>4, <1>5 DEF BoundedPreTokens
  <2> QED
    BY <2>1
<1>8. Len(config.pretokenizers) \in Nat
  BY ConfigFacts
<1>9. tokens' = <<>> /\ ran' \in Nat /\ 0 <= Len(config.pretokenizers) /\ stage' \in Stages
  BY <1>6, <1>8 DEF Shape, Stages
<1>10. Contiguous(ns, Len(original), Base(ns))'
  BY <1>6 DEF Shape
<1>11. (pretokens \in Seq(BoundedPreTokens(Len(ns.bytes))))'
  BY <1>6, <1>7 DEF n
<1> QED
  BY <1>6, <1>9, <1>10, <1>11 DEF Shape

LEMMA ShapePreTokenize == Shape /\ PreTokenize => Shape'
<1> SUFFICES ASSUME Shape, PreTokenize PROVE Shape'
  OBVIOUS
<1> DEFINE n == Len(ns.bytes)
           S == BoundedPreTokens(n)
           p == config.pretokenizers[ran + 1]
           R == [k \in DOMAIN pretokens |-> Cuts(pretokens[k], p)]
           m == Len(pretokens)
<1>1. /\ n \in Nat /\ pretokens \in Seq(S) /\ m \in Nat /\ DOMAIN pretokens = 1..m
      /\ \A k \in 1..m : pretokens[k] \in S
  BY ConfigFacts, LenProperties, ElementOfSeq DEF Shape
<1>2. p \in Splits \cup ByteLevels /\ ran + 1 \in Nat /\ ran + 1 <= Len(config.pretokenizers)
  <2>1. ran + 1 \in 1..Len(config.pretokenizers)
    BY ConfigFacts DEF Shape, PreTokenize
  <2> QED
    BY <2>1, ConfigFacts, ElementOfSeq
<1>3. ASSUME NEW k \in 1..m
      PROVE  R[k] \in SUBSET Seq(S)
  <2> DEFINE pt == pretokens[k]
  <2>1. Bounded(pt, n)
    BY <1>1 DEF BoundedPreTokens
  <2>2. R[k] = Cuts(pt, p)
    BY <1>1
  <2> HIDE DEF pt, p, R, n
  <2>3. \A c \in Cuts(pt, p) : c \in Seq(S)
    BY <1>1, <1>2, <2>1, CutBounded DEF BoundedPreTokens
  <2> QED
    BY <2>2, <2>3
<1>4. DOMAIN R = 1..m
  BY <1>1
<1>5. /\ pretokens' \in Concatenations(R) /\ stage = "pretokenize" /\ stage' = stage /\ ran' = ran + 1
      /\ UNCHANGED <<original, config, ns, tokens>>
  BY DEF PreTokenize
<1> HIDE DEF R, S, m, p
<1>6. pretokens' \in Seq(S)
  BY <1>1, <1>3, <1>4, <1>5, ConcatenationsSeq
<1>7. (pretokens \in Seq(BoundedPreTokens(Len(ns.bytes))))'
  BY <1>5, <1>6 DEF S, n
<1>8. Contiguous(ns, Len(original), Base(ns))'
  BY <1>5 DEF Shape
<1> QED
  BY <1>2, <1>5, <1>7, <1>8 DEF Shape

LEMMA ShapeTokenize == Shape /\ Tokenize => Shape'
<1> SUFFICES ASSUME Shape, Tokenize PROVE Shape'
  OBVIOUS
<1> DEFINE n == Len(ns.bytes)
           S == BoundedTokens(n)
           R == [k \in DOMAIN pretokens |-> Tokenizations(pretokens[k])]
           m == Len(pretokens)
<1>1. /\ n \in Nat /\ m \in Nat /\ DOMAIN pretokens = 1..m
      /\ \A k \in 1..m : pretokens[k] \in BoundedPreTokens(n)
  BY ConfigFacts, LenProperties, ElementOfSeq DEF Shape
<1>2. ASSUME NEW k \in 1..m
      PROVE  R[k] \in SUBSET Seq(S)
  <2> DEFINE pt == pretokens[k]
  <2>1. Bounded(pt, n)
    BY <1>1 DEF BoundedPreTokens
  <2>2. R[k] = Tokenizations(pt)
    BY <1>1
  <2> HIDE DEF pt, R, n
  <2>3. \A c \in Tokenizations(pt) : c \in Seq(S)
    BY <1>1, <2>1, TokenizationBounded DEF BoundedTokens
  <2> QED
    BY <2>2, <2>3
<1>3. DOMAIN R = 1..m
  BY <1>1
<1>4. /\ tokens' \in Concatenations(R) /\ stage' = "process" /\ ran' = 0
      /\ UNCHANGED <<original, config, ns, pretokens>>
  BY DEF Tokenize
<1> HIDE DEF R, S, m
<1>5. tokens' \in Seq(S)
  BY <1>1, <1>2, <1>3, <1>4, ConcatenationsSeq
<1>6. (tokens \in Seq(BoundedTokens(Len(ns.bytes))))'
  BY <1>4, <1>5 DEF S, n
<1>7. Contiguous(ns, Len(original), Base(ns))' /\ (pretokens \in Seq(BoundedPreTokens(Len(ns.bytes))))'
  BY <1>4 DEF Shape
<1> QED
  BY <1>4, <1>6, <1>7 DEF Shape, Stages

LEMMA ShapeProcess == Shape /\ Process => Shape'
<1> SUFFICES ASSUME Shape, Process PROVE Shape'
  OBVIOUS
<1> DEFINE n == Len(ns.bytes)
           S == BoundedTokens(n)
           m == Len(tokens)
           D(k) == Trim(tokens[k], k, config.post.prefix)
<1>1. /\ n \in Nat /\ tokens \in Seq(S) /\ m \in Nat /\ DOMAIN tokens = 1..m
      /\ \A k \in 1..m : tokens[k] \in S
  BY ConfigFacts, LenProperties, ElementOfSeq DEF Shape, Process
<1>2. ASSUME NEW k \in 1..m PROVE D(k) \in S
  <2> DEFINE token == tokens[k]
             prefix == config.post.prefix
  <2>1. TokenBounded(token, n)
    BY <1>1 DEF BoundedTokens
  <2> HIDE DEF token, prefix
  <2>2. TokenBounded(Trim(token, k, prefix), n)
    BY <1>1, <2>1, TrimBounded
  <2>3. Trim(token, k, prefix) \in BoundedTokens(n)
    BY <2>2 DEF BoundedTokens, TokenBounded
  <2> QED
    BY <2>3 DEF token, prefix
<1>3. tokens' \in {[k \in 1..m |-> D(k)], tokens}
  BY <1>1 DEF Process
<1> HIDE DEF D, S, n, m
<1>4. [k \in 1..m |-> D(k)] \in Seq(S)
  BY <1>1, <1>2
<1>5. tokens' \in Seq(S)
  BY <1>1, <1>3, <1>4
<1>6. /\ stage' = "align" /\ UNCHANGED <<original, config, ran, ns, pretokens>>
  BY DEF Process
<1>7. (tokens \in Seq(BoundedTokens(Len(ns.bytes))))'
  BY <1>5, <1>6 DEF S, n
<1>8. Contiguous(ns, Len(original), Base(ns))' /\ (pretokens \in Seq(BoundedPreTokens(Len(ns.bytes))))'
  BY <1>6 DEF Shape
<1> QED
  BY <1>6, <1>7, <1>8 DEF Shape, Stages

LEMMA ShapeAlign == Shape /\ Align => Shape'
<1> SUFFICES ASSUME Shape, Align PROVE Shape'
  OBVIOUS
<1> DEFINE n == Len(ns.bytes)
           S == BoundedTokens(n)
           m == Len(tokens)
           L == Len(original)
           o(k) == AlignToOriginal(ns.align, tokens[k].first, tokens[k].last)
           D(k) == [tokens[k] EXCEPT !.first = o(k)[1], !.last = o(k)[2]]
<1>1. /\ n \in Nat /\ tokens \in Seq(S) /\ m \in Nat /\ DOMAIN tokens = 1..m /\ L \in Nat
      /\ \A k \in 1..m : tokens[k] \in S
  BY ConfigFacts, LenProperties, ElementOfSeq DEF Shape, Align
<1>2. ASSUME NEW k \in 1..m PROVE D(k) \in FinishedTokens(L)
  <2> DEFINE token == tokens[k]
             x == ns
             b == Base(x)
             s == AlignToOriginal(x.align, token.first, token.last)[1]
             e == AlignToOriginal(x.align, token.first, token.last)[2]
             new == [token EXCEPT !.first = s, !.last = e]
  <2>1. TokenBounded(token, Len(x.bytes)) /\ Contiguous(x, L, b)
    BY <1>1 DEF BoundedTokens, Shape
  <2>2. D(k) = new
    OBVIOUS
  <2>3. new = [token EXCEPT !.first = s, !.last = e]
    OBVIOUS
  <2>4. s = AlignToOriginal(x.align, token.first, token.last)[1]
        /\ e = AlignToOriginal(x.align, token.first, token.last)[2]
    OBVIOUS
  <2> HIDE DEF token, x, b, s, e, new, L
  <2>5. Finished(new, L)
    BY <1>1, <2>1, <2>3, <2>4, AlignFinished
  <2>6. new \in FinishedTokens(L)
    BY <2>5 DEF FinishedTokens, Finished
  <2> QED
    BY <2>2, <2>6
<1>3. tokens' = [k \in 1..m |-> D(k)]
  BY <1>1 DEF Align
<1> HIDE DEF D, S, n, m, o
<1>4. [k \in 1..m |-> D(k)] \in Seq(FinishedTokens(L))
  BY <1>1, <1>2
<1>5. /\ stage' = "truncate" /\ UNCHANGED <<original, config, ran, ns, pretokens>>
  BY DEF Align
<1>6. (tokens \in Seq(FinishedTokens(Len(original))))'
  BY <1>3, <1>4, <1>5
<1>7. Contiguous(ns, Len(original), Base(ns))' /\ (pretokens \in Seq(BoundedPreTokens(Len(ns.bytes))))'
  BY <1>5 DEF Shape
<1> QED
  BY <1>5, <1>6, <1>7 DEF Shape, Stages

\* What truncation leaves of a sequence.
LEMMA TruncateFacts ==
    ASSUME Shape, Truncate
    PROVE  \E l, h \in Nat : l <= h /\ h <= Len(tokens) /\ tokens' = SubSeq(tokens, l + 1, h)
<1> DEFINE max == config.truncation.max
           n == Len(tokens)
           S == FinishedTokens(Len(original))
<1>1. max \in Int /\ tokens \in Seq(S) /\ n \in Nat
  BY ConfigFacts, LenProperties DEF Shape, Truncate
<1>2. CASE max < 0 \/ n <= max
  <2> DEFINE l == 0
  <2>1. tokens' = tokens
    BY <1>2 DEF Truncate
  <2>2. SubSeq(tokens, l + 1, n) = tokens /\ l \in Nat /\ l <= n
    BY <1>1, SubSeqFull
  <2>3. l \in Nat /\ n \in Nat
    BY <1>1, <2>2
  <2> HIDE DEF l, n
  <2> USE <2>3
  <2> WITNESS l \in Nat, n \in Nat
  <2> QED
    BY <2>1, <2>2 DEF n
<1>3. CASE ~(max < 0 \/ n <= max) /\ config.truncation.fromEnd
  <2> DEFINE l == n - max
  <2>1. tokens' = SubSeq(tokens, l + 1, n)
    BY <1>3 DEF Truncate
  <2>2. l \in Nat /\ l <= n
    BY <1>1, <1>3
  <2>3. l \in Nat /\ n \in Nat
    BY <1>1, <2>2
  <2> HIDE DEF l, n
  <2> USE <2>3
  <2> WITNESS l \in Nat, n \in Nat
  <2> QED
    BY <2>1, <2>2 DEF n
<1>4. CASE ~(max < 0 \/ n <= max) /\ ~config.truncation.fromEnd
  <2> DEFINE l == 0
  <2>1. tokens' = SubSeq(tokens, 1, max)
    BY <1>4 DEF Truncate
  <2>2. max \in Nat /\ max <= n /\ l <= max /\ l + 1 = 1 /\ l \in Nat
    BY <1>1, <1>4
  <2>3. tokens' = SubSeq(tokens, l + 1, max)
    BY <2>1, <2>2
  <2> HIDE DEF l, max
  <2> QED
    BY <1>1, <2>2, <2>3
<1> QED
  BY <1>2, <1>3, <1>4

LEMMA ShapeTruncate == Shape /\ Truncate => Shape'
<1> SUFFICES ASSUME Shape, Truncate PROVE Shape'
  OBVIOUS
<1> DEFINE S == FinishedTokens(Len(original))
<1>1. tokens \in Seq(S)
  BY DEF Shape, Truncate
<1>2. PICK l \in Nat, h \in Nat : l <= h /\ h <= Len(tokens) /\ tokens' = SubSeq(tokens, l + 1, h)
  BY TruncateFacts
<1>3. tokens' \in Seq(S)
  BY <1>1, <1>2, SubSeqAt
<1>4. /\ stage' = "done" /\ UNCHANGED <<original, config, ran, ns, pretokens>>
  BY DEF Truncate
<1>5. (tokens \in Seq(FinishedTokens(Len(original))))'
  BY <1>3, <1>4
<1>6. Contiguous(ns, Len(original), Base(ns))' /\ (pretokens \in Seq(BoundedPreTokens(Len(ns.bytes))))'
  BY <1>4 DEF Shape
<1> QED
  BY <1>4, <1>5, <1>6 DEF Shape, Stages

LEMMA ShapeNext == Shape /\ [Next]_vars => Shape'
<1> SUFFICES ASSUME Shape, [Next]_vars PROVE Shape'
  OBVIOUS
<1>1. ASSUME UNCHANGED vars PROVE Shape'
  BY <1>1 DEF vars, Shape, Contiguous
<1>2. CASE Terminating
  BY <1>1, <1>2 DEF Terminating
<1> QED
  BY <1>1, <1>2, ShapeNormalize, ShapeNormalization, ShapePreTokenize, ShapeTokenize, ShapeProcess,
     ShapeAlign, ShapeTruncate DEF Next

(***************************************************************************)
(* In every stage of encode_one the texts are typed, the alignment of each *)
(* pre-token has one entry per byte, and the offsets of pre-tokens and     *)
(* tokens lie within the normalized text (in the original one once they    *)
(* are mapped back).                                                       *)
(***************************************************************************)
THEOREM PipelineShape == Spec => []Shape
<1>1. Init => Shape
  BY ShapeInit
<1>2. Shape /\ [Next]_vars => Shape'
  BY ShapeNext
<1> QED
  BY <1>1, <1>2, PTL DEF Spec

LEMMA ShapeTypeOK == Shape => TypeOK
<1> SUFFICES ASSUME Shape PROVE TypeOK
  OBVIOUS
<1> DEFINE n == Len(ns.bytes)
           L == Len(original)
           b == Base(ns)
<1>1. n \in Nat /\ L \in Nat /\ n <= L
  BY ConfigFacts
<1>2. /\ ns.bytes \in Seq(PlainBytes) /\ Len(ns.align) = n /\ ns.align \in Seq(Int) /\ b \in Nat /\ b + n <= L
      /\ \A k \in 1..n : ns.bytes[k].src = b + k - 1 /\ ns.align[k] = b + k - 1
  BY DEF Shape, Contiguous, NormalizedSet
<1>3. Len(ns.align) = Len(ns.bytes)
  BY <1>2
<1> HIDE DEF n, L, b
<1>4. ASSUME NEW k \in 1..n PROVE ns.align[k] \in 0..(2 * L + 2) /\ ns.bytes[k] \in ByteSet
  <2>1. ns.bytes[k] \in PlainBytes
    BY <1>2, ElementOfSeq DEF n
  <2>2. b + k - 1 \in 0..(L - 1)
    BY <1>1, <1>2
  <2>3. ns.bytes[k].src \in 0..(L - 1) /\ ns.align[k] \in 0..(L - 1)
    BY <1>2, <2>2
  <2>4. ns.align[k] \in 0..(2 * L + 2)
    BY <1>1, <2>3
  <2> QED
    BY <2>1, <2>3, <2>4 DEF PlainBytes, ByteSet, L
<1>5. DOMAIN ns.align = 1..n
  BY <1>2, LenProperties
<1>6. \A k \in DOMAIN ns.align : ns.align[k] \in Offset /\ ns.bytes[k] \in ByteSet
  BY <1>4, <1>5 DEF Offset, L
<1>7. ASSUME NEW k \in DOMAIN pretokens
      PROVE  /\ pretokens[k].first \in Offset /\ pretokens[k].last \in Offset
             /\ pretokens[k].align = <<>> \/ Len(pretokens[k].align) = Len(pretokens[k].text)
  <2>1. pretokens[k] \in BoundedPreTokens(n)
    BY ElementOfSeq, LenProperties DEF Shape, n
  <2>2. Bounded(pretokens[k], n)
    BY <2>1 DEF BoundedPreTokens
  <2>3. pretokens[k].first \in 0..n /\ pretokens[k].last \in 0..(n + 1)
    BY <2>2 DEF Bounded
  <2>4. pretokens[k].first \in 0..(2 * L + 2) /\ pretokens[k].last \in 0..(2 * L + 2)
    BY <1>1, <2>3
  <2> QED
    BY <2>2, <2>4 DEF Bounded, Offset, L
<1>8. ASSUME NEW k \in DOMAIN tokens
      PROVE  tokens[k].first \in Offset /\ tokens[k].last \in Offset
  <2>1. CASE stage \in {"normalize", "pretokenize"}
    <3>1. tokens = <<>>
      BY <2>1 DEF Shape
    <3> QED
      BY <1>8, <3>1
  <2>2. CASE stage \in {"process", "align"}
    <3>1. tokens[k] \in BoundedTokens(n)
      BY <1>8, <2>2, ElementOfSeq, LenProperties DEF Shape, n
    <3>2. tokens[k].first \in 0..(n + 1) /\ tokens[k].last \in 0..(n + 1)
      BY <3>1 DEF BoundedTokens, TokenBounded
    <3>3. tokens[k].first \in 0..(2 * L + 2) /\ tokens[k].last \in 0..(2 * L + 2)
      BY <1>1, <3>2
    <3> QED
      BY <3>3 DEF Offset, L
  <2>3. CASE stage \in {"truncate", "done"}
    <3>1. tokens[k] \in FinishedTokens(L)
      BY <1>8, <2>3, ElementOfSeq, LenProperties DEF Shape, L
    <3>2. tokens[k].first \in 0..(L + 1) /\ tokens[k].last \in 0..(L + 1)
      BY <3>1 DEF FinishedTokens, Finished
    <3>3. tokens[k].first \in 0..(2 * L + 2) /\ tokens[k].last \in 0..(2 * L + 2)
      BY <1>1, <3>2
    <3> QED
      BY <3>3 DEF Offset, L
  <2> QED
    BY <2>1, <2>2, <2>3 DEF Shape, Stages
<1>9. stage \in {"normalize", "pretokenize", "process", "align", "truncate", "done"}
  BY DEF Shape, Stages
<1> QED
  BY <1>3, <1>6, <1>7, <1>8, <1>9 DEF TypeOK

(***************************************************************************)
(* Whatever the texts and the pipeline, every pre-token and token has the  *)
(* shape the code relies on: in particular align always has as many        *)
(* entries as text has bytes, through delete_range, the mapping of         *)
(* ByteLevel and every split.                                              *)
(***************************************************************************)
THEOREM EncodeTypeOK == Spec => []TypeOK
BY PipelineShape, ShapeTypeOK, PTL

LEMMA ShapeWithin == Shape => WithinText
<1> SUFFICES ASSUME Shape, stage = "done", original # <<>>, NEW k \in DOMAIN tokens
             PROVE  tokens[k].first <= tokens[k].last /\ tokens[k].last <= Len(original)
  BY DEF WithinText
<1>1. tokens[k] \in FinishedTokens(Len(original))
  BY ElementOfSeq, LenProperties DEF Shape
<1>2. Len(original) # 0
  BY ConfigFacts, EmptySeq
<1> QED
  BY <1>1, <1>2 DEF FinishedTokens, Finished

(***************************************************************************)
(* align_to_original and post-processing leave each token of a text that   *)
(* is not empty offsets first <= last within that text, an inserted space, *)
(* trimming and truncation included.                                       *)
(***************************************************************************)
THEOREM EncodeWithinText == Spec => []WithinText
BY PipelineShape, ShapeWithin, PTL

-------------------------------------------------------------------------------
(* Where the bytes of a piece come from. *)

\* A piece for bytes lo..hi-1 of T lies in the pre-token from start on, but for
\* the space inserted in front of its text.
Within(pt, T, lo, hi, start, end) ==
    /\ end = start + (hi - lo) /\ end <= Len(pt.text)
    /\ \A i \in 1..(hi - lo) : T[lo + i] = pt.text[start + i]

AfterSpace(pt, T, lo, hi, start, end) ==
    /\ lo = 0 /\ start = 0 /\ end = hi - 1 /\ end <= Len(pt.text)
    /\ T[1] = [b |-> "space", src |-> Inserted]
    /\ \A i \in 1..(hi - 1) : T[i + 1] = pt.text[i]

\* What the bytes of a piece look like: the same, or spelled by ByteLevel.
Rendered(new, p, T, lo, hi, g) ==
    \/ /\ p.type = "Split" /\ Len(new.text) = hi - lo
       /\ \A j \in 1..(hi - lo) : g[j] = j - 1 /\ new.text[j] = T[lo + j]
    \/ p.type = "ByteLevel" /\ MapUpto(new.text, g, SubSeq(T, lo + 1, hi), hi - lo)

Origin(new, pt, p, lo, hi, start, end, g) ==
    /\ Made(new, pt, CutText(pt, p), start, end, lo, hi, g)
    /\ Rendered(new, p, CutText(pt, p), lo, hi, g)
    /\ \/ Within(pt, CutText(pt, p), lo, hi, start, end)
       \/ Inserts(p) /\ AfterSpace(pt, CutText(pt, p), lo, hi, start, end)

\* Where the bytes of a piece lie and what they look like, for both kinds of cut.
LEMMA PieceOrigin ==
    ASSUME NEW pt \in PreTokenSet, NEW p \in Splits \cup ByteLevels, NEW c, NEW spans,
           CutAt(pt, p, c, spans), NEW k \in 1..Len(spans)
    PROVE  \E start \in Nat, end \in Nat : \E g :
              Origin(c[k], pt, p, spans[k][1], spans[k][2], start, end, g)
<1> DEFINE T == CutText(pt, p)
           lo == spans[k][1]
           hi == spans[k][2]
           new == CutPiece(pt, p, lo, hi)
<1>1. /\ T \in Seq(Bytes) /\ lo \in Nat /\ hi \in Nat /\ lo < hi /\ hi <= Len(T)
      /\ c[k] = new
  BY PieceMade
<1>2. Len(pt.text) \in Nat /\ Len(T) \in Nat
  BY <1>1, LenProperties DEF PreTokenSet
<1> SUFFICES \E start \in Nat, end \in Nat : \E g : Origin(new, pt, p, lo, hi, start, end, g)
  BY <1>1
<1> HIDE DEF lo, hi
<1>3. CASE p.type = "Split"
  <2> DEFINE g == [j \in 1..(hi - lo) |-> j - 1]
  <2>1. T = pt.text /\ new = SplitPiece(pt, lo, hi)
    BY <1>3 DEF CutText, CutPiece
  <2> HIDE DEF T, new
  <2>2. \A j \in 1..(hi - lo) : g[j] = j - 1
    OBVIOUS
  <2>3. g = [j \in 1..(hi - lo) |-> j - 1]
    OBVIOUS
  <2> HIDE DEF g
  <2>4. /\ Made(new, pt, T, lo, hi, lo, hi, g) /\ Len(new.text) = hi - lo
        /\ \A j \in 1..(hi - lo) : new.text[j] = T[lo + j]
    <3>1. hi <= Len(pt.text)
      BY <1>1, <2>1
    <3>2. /\ Made(SplitPiece(pt, lo, hi), pt, pt.text, lo, hi, lo, hi, g)
          /\ Len(SplitPiece(pt, lo, hi).text) = hi - lo
          /\ \A j \in 1..(hi - lo) : SplitPiece(pt, lo, hi).text[j] = pt.text[lo + j]
      BY <1>1, <2>3, <3>1, SplitMade
    <3> QED
      BY <2>1, <3>2
  <2>5. Rendered(new, p, T, lo, hi, g)
    BY <1>3, <2>2, <2>4 DEF Rendered
  <2>6. Within(pt, T, lo, hi, lo, hi)
    BY <1>1, <2>1 DEF Within
  <2>7. Origin(new, pt, p, lo, hi, lo, hi, g)
    BY <2>4, <2>5, <2>6 DEF Origin, T
  <2> QED
    BY <1>1, <2>7
<1>4. CASE p.type # "Split"
  <2> DEFINE q == Prefixed(pt, p)
             start == Shift(lo, q)
             end == Shift(hi, q)
             seg == SubSeq(T, lo + 1, hi)
             g == MapSegment(seg).align
  <2>1. T = PrefixedText(pt, p) /\ new = ByteLevelPiece(pt, p, lo, hi)
    BY <1>4 DEF CutText, CutPiece
  <2>2. p \in ByteLevels /\ p.type = "ByteLevel"
    BY <1>4 DEF Splits, ByteLevels
  <2> HIDE DEF T, new
  <2>3. /\ start \in Nat /\ end \in Nat /\ start <= Len(pt.text) /\ end <= Len(pt.text)
        /\ ~(q /\ lo = 0) => end = start + (hi - lo)
        /\ q /\ lo = 0 => start = 0 /\ end = hi - 1
    BY <1>1, <2>1, <2>2, ByteLevelPlace
  <2>4. /\ Made(new, pt, T, start, end, lo, hi, g)
        /\ MapUpto(new.text, g, seg, hi - lo)
    BY ZenonT(30), <1>1, <2>1, <2>3, ByteLevelMade
  <2>5. Rendered(new, p, T, lo, hi, g)
    BY <2>2, <2>4 DEF Rendered
  <2>6. /\ q => Inserts(p)
        /\ ~q => T = pt.text
        /\ q => /\ Len(T) = Len(pt.text) + 1 /\ T[1] = [b |-> "space", src |-> Inserted]
                /\ \A i \in 1..Len(pt.text) : T[i + 1] = pt.text[i]
    <3>1. q => Inserts(p)
      BY <2>2 DEF Prefixed, Inserts
    <3> QED
      BY <2>1, <3>1, PrefixedFacts
  <2>7. CASE q /\ lo = 0
    <3>1. hi - 1 <= Len(pt.text) /\ \A i \in 1..(hi - 1) : i \in 1..Len(pt.text)
      BY <1>1, <1>2, <2>6, <2>7
    <3>2. AfterSpace(pt, T, lo, hi, start, end)
      BY <2>3, <2>6, <2>7, <3>1 DEF AfterSpace
    <3> HIDE DEF start, end, g, seg
    <3>3. Origin(new, pt, p, lo, hi, start, end, g)
      BY <2>4, <2>5, <2>6, <2>7, <3>2 DEF Origin, T
    <3> QED
      BY <2>3, <3>3
  <2>8. CASE q /\ lo # 0
    <3>1. start = lo - 1
      BY <1>1, <2>8 DEF Shift
    <3> HIDE DEF start, end, g, seg
    <3>2. \A i \in 1..(hi - lo) : lo + i = (start + i) + 1 /\ start + i \in 1..Len(pt.text)
      <4> DEFINE m == Len(pt.text)
                 h == Len(T)
      <4>1. m \in Nat /\ h = m + 1 /\ hi <= h /\ lo # 0
        BY <1>1, <1>2, <2>6, <2>8
      <4> HIDE DEF m, h
      <4>2. \A i \in 1..(hi - lo) : lo + i = (start + i) + 1 /\ start + i \in 1..m
        BY <1>1, <3>1, <4>1
      <4> QED
        BY <4>2 DEF m
    <3>3. Within(pt, T, lo, hi, start, end)
      BY <2>3, <2>6, <2>8, <3>2 DEF Within
    <3>4. Origin(new, pt, p, lo, hi, start, end, g)
      BY <2>4, <2>5, <3>3 DEF Origin, T
    <3> QED
      BY <2>3, <3>4
  <2>9. CASE ~q
    <3>1. start = lo
      BY <2>9 DEF Shift
    <3> HIDE DEF start, end, g, seg
    <3>3. Within(pt, T, lo, hi, start, end)
      BY <2>3, <2>6, <2>9, <3>1 DEF Within
    <3>4. Origin(new, pt, p, lo, hi, start, end, g)
      BY <2>4, <2>5, <3>3 DEF Origin, T
    <3> QED
      BY <2>3, <3>4
  <2> QED
    BY <2>7, <2>8, <2>9
<1> QED
  BY <1>3, <1>4

-------------------------------------------------------------------------------
(* Texts whose bytes come from consecutive places. *)

Steps(text) ==
    \A i \in 1..(Len(text) - 1) :
       text[i + 1].src = text[i].src \/ text[i + 1].src = text[i].src + 1

\* Bytes with the same source are those of one byte-level character, or of
\* characters that spell bytes of one.
Clean(text) ==
    /\ text # <<>> => text[1].b \notin Tails
    /\ \A i \in 1..(Len(text) - 1) :
          /\ text[i + 1].b \in Tails => /\ text[i + 1].src = text[i].src
                                        /\ Spelled(text[i].b, text[i + 1].b)
          /\ text[i + 1].src = text[i].src =>
                \/ text[i].b = "g1" /\ text[i + 1].b = "g2"
                \/ text[i].b \in {"m1", "m2"} /\ text[i + 1].b \in {"m1", "m2"}

LEMMA StepsMonotone ==
    ASSUME NEW text \in Seq(Bytes), Steps(text),
           NEW i \in 1..Len(text), NEW j \in 1..Len(text), i <= j
    PROVE  text[i].src <= text[j].src
<1> DEFINE n == Len(text)
           T == {k \in 0..n : \A x \in 1..k : text[x].src <= text[k].src}
<1>1. n \in Nat /\ \A x \in 1..n : text[x].src \in Int
  <2>1. \A x \in 1..n : text[x] \in Bytes
    BY LenProperties, ElementOfSeq
  <2> QED
    BY <2>1, LenProperties DEF Bytes
<1>2. 0 \in T
  BY <1>1
<1>3. ASSUME NEW k \in 1..n, k - 1 \in T PROVE k \in T
  <2>1. ASSUME NEW x \in 1..k PROVE text[x].src <= text[k].src
    <3>1. CASE x = k
      BY <1>1, <3>1
    <3>2. CASE x # k
      <4>1. x \in 1..(k - 1) /\ k - 1 \in 1..(n - 1) /\ (k - 1) + 1 = k
        BY <1>1, <3>2
      <4>2. text[x].src <= text[k - 1].src
        BY <1>3, <4>1
      <4>3. text[k].src = text[k - 1].src \/ text[k].src = text[k - 1].src + 1
        BY <4>1 DEF Steps
      <4>4. text[x].src \in Int /\ text[k].src \in Int /\ text[k - 1].src \in Int
        BY <1>1, <4>1
      <4> DEFINE a == text[x].src
                 b == text[k].src
                 d == text[k - 1].src
      <4> HIDE DEF a, b, d
      <4>5. a <= b
        BY <4>2, <4>3, <4>4 DEF a, b, d
      <4> QED
        BY <4>5 DEF a, b
    <3> QED
      BY <3>1, <3>2
  <2> QED
    BY <1>1, <2>1
<1> HIDE DEF T
<1>4. \A k \in 0..n : k \in T
  BY <1>1, <1>2, <1>3, InductUpto
<1>5. j \in T
  BY <1>1, <1>4
<1> QED
  BY <1>5 DEF T

\* A white character does not share its source with another character.
LEMMA WhiteAlone ==
    ASSUME NEW text \in Seq(Bytes), Steps(text), Clean(text),
           NEW i \in 1..Len(text), NEW j \in 1..Len(text), i < j, text[j].b \notin Tails,
           text[i].b \in {"space", "g1"} \/ text[j].b \in {"space", "g1"}
    PROVE  text[i].src + 1 <= text[j].src
<1> DEFINE n == Len(text)
           s(k) == text[k].src
           b(k) == text[k].b
<1>1. n \in Nat /\ \A x \in 1..n : s(x) \in Int
  <2>1. \A x \in 1..n : text[x] \in Bytes
    BY LenProperties, ElementOfSeq
  <2> QED
    BY <2>1, LenProperties DEF Bytes
<1>2. \A x, y \in 1..n : x <= y => s(x) <= s(y)
  BY StepsMonotone
<1>3. \A x \in 1..(n - 1) : /\ s(x + 1) = s(x) \/ s(x + 1) = s(x) + 1
                            /\ b(x + 1) \in {"g2", "m2"} => (b(x) = "g1" /\ b(x + 1) = "g2") \/ (b(x) = "m1" /\ b(x + 1) = "m2")
                            /\ s(x + 1) = s(x) => \/ b(x) = "g1" /\ b(x + 1) = "g2"
                                                  \/ b(x) \in {"m1", "m2"} /\ b(x + 1) \in {"m1", "m2"}
  BY DEF Steps, Clean, Tails, Spelled
<1>4. b(j) \notin {"g2", "m2"} /\ (b(i) \in {"space", "g1"} \/ b(j) \in {"space", "g1"})
  BY DEF Tails
<1> HIDE DEF n, s, b
<1>5. i \in 1..n /\ j \in 1..n /\ j - 1 \in 1..(n - 1) /\ (j - 1) + 1 = j /\ i <= j - 1 /\ i \in 1..(n - 1)
      /\ i + 1 \in 1..n /\ i + 1 <= j /\ j - 1 \in 1..n
  BY <1>1 DEF n
<1>6. CASE b(j) \in {"space", "g1"}
  <2>1. s(j) # s(j - 1)
    BY <1>3, <1>5, <1>6
  <2>2. s(j) = s(j - 1) + 1
    BY <1>3, <1>5, <2>1
  <2>3. s(i) <= s(j - 1)
    BY <1>2, <1>5
  <2>4. s(i) \in Int /\ s(j) \in Int /\ s(j - 1) \in Int
    BY <1>1, <1>5
  <2>5. s(i) + 1 <= s(j)
    BY <2>2, <2>3, <2>4
  <2> QED
    BY <2>5 DEF s
<1>7. CASE b(i) \in {"space", "g1"}
  <2>1. CASE s(i + 1) # s(i)
    <3>1. s(i + 1) = s(i) + 1 /\ s(i + 1) <= s(j)
      BY <1>2, <1>3, <1>5, <2>1
    <3> QED
      BY <3>1 DEF s
  <2>2. CASE s(i + 1) = s(i)
    <3>1. b(i + 1) = "g2"
      BY <1>3, <1>5, <1>7, <2>2
    <3>2. i + 1 # j
      BY <1>4, <3>1
    <3>3. i + 1 \in 1..(n - 1) /\ (i + 1) + 1 \in 1..n /\ (i + 1) + 1 <= j
      BY <1>1, <1>5, <3>2
    <3> DEFINE m == i + 1
    <3>4. m \in 1..(n - 1) /\ m + 1 \in 1..n /\ m + 1 <= j /\ b(m) = "g2" /\ s(m) = s(i)
      BY <2>2, <3>1, <3>3
    <3> HIDE DEF m
    <3>5. s(m + 1) # s(m)
      BY <1>3, <3>4
    <3>6. s(m + 1) = s(m) + 1 /\ s(m + 1) <= s(j)
      BY <1>2, <1>3, <1>5, <3>4, <3>5
    <3>7. s(i) + 1 <= s(j)
      BY <3>4, <3>6
    <3> QED
      BY <3>7 DEF s
  <2> QED
    BY <2>1, <2>2
<1> QED
  BY <1>4, <1>6, <1>7

LEMMA CleanSub ==
    ASSUME NEW text \in Seq(Bytes), Clean(text), NEW lo \in Nat, NEW hi \in Nat, lo < hi, hi <= Len(text),
           lo \in Ends(text, TokenEnds(text))
    PROVE  Clean(SubSeq(text, lo + 1, hi))
<1> DEFINE t == SubSeq(text, lo + 1, hi)
           m == hi - lo
<1>1. t \in Seq(Bytes) /\ Len(t) = m /\ \A i \in 1..m : t[i] = text[lo + i] /\ lo + i \in 1..Len(text)
  BY SubText
<1>2. Len(text) \in Nat /\ m \in Nat
  BY LenProperties
<1>3. text[lo + 1].b \notin Tails
  <2>1. CASE lo = 0
    <3>1. text # <<>> /\ lo + 1 = 1
      BY <1>2, <2>1, EmptySeq
    <3> QED
      BY <3>1 DEF Clean
  <2>2. CASE lo # 0
    <3>1. lo \in TokenEnds(text) /\ lo < Len(text)
      BY <1>2, <2>2 DEF Ends
    <3> QED
      BY <3>1 DEF TokenEnds, Tails
  <2> QED
    BY <2>1, <2>2
<1>4. t[1].b \notin Tails
  <2>1. 1 \in 1..m
    BY <1>2
  <2> QED
    BY <1>1, <1>3, <2>1
<1>5. ASSUME NEW i \in 1..(m - 1)
      PROVE  /\ t[i] = text[lo + i] /\ t[i + 1] = text[(lo + i) + 1] /\ lo + i \in 1..(Len(text) - 1)
  <2>1. i \in 1..m /\ i + 1 \in 1..m /\ lo + (i + 1) = (lo + i) + 1 /\ lo + i \in 1..(Len(text) - 1)
    BY <1>2
  <2> QED
    BY <1>1, <2>1
<1> HIDE DEF t, m
<1>6. ASSUME NEW i \in 1..(m - 1)
      PROVE  /\ t[i + 1].b \in Tails => t[i + 1].src = t[i].src /\ Spelled(t[i].b, t[i + 1].b)
             /\ t[i + 1].src = t[i].src =>
                   \/ t[i].b = "g1" /\ t[i + 1].b = "g2"
                   \/ t[i].b \in {"m1", "m2"} /\ t[i + 1].b \in {"m1", "m2"}
  <2> DEFINE k == lo + i
  <2>1. t[i] = text[k] /\ t[i + 1] = text[k + 1] /\ k \in 1..(Len(text) - 1)
    BY <1>5
  <2> HIDE DEF k
  <2> QED
    BY <2>1 DEF Clean
<1>7. Clean(t)
  BY <1>1, <1>4, <1>6 DEF Clean
<1> QED
  BY <1>7 DEF t

LEMMA PrefixedClean ==
    ASSUME NEW pt \in PreTokenSet, NEW p, Clean(pt.text),
           \A i \in 1..Len(pt.text) : pt.text[i].src # Inserted
    PROVE  Clean(PrefixedText(pt, p))
<1> DEFINE x == pt.text
           t == PrefixedText(pt, p)
           n == Len(x)
<1>1. n \in Nat /\ t \in Seq(Bytes)
  BY PrefixedFacts, LenProperties DEF PreTokenSet
<1>2. CASE ~Prefixed(pt, p)
  BY <1>2, PrefixedFacts
<1>3. CASE Prefixed(pt, p)
  <2>1. /\ Len(t) = n + 1 /\ t[1] = [b |-> "space", src |-> Inserted]
        /\ \A i \in 1..n : t[i + 1] = x[i]
    BY <1>3, PrefixedFacts
  <2> HIDE DEF t
  <2>2. t[1].b \notin Tails
    BY <2>1 DEF Tails
  <2>3. ASSUME NEW i \in 1..(Len(t) - 1)
        PROVE  /\ t[i + 1].b \in Tails => t[i + 1].src = t[i].src /\ Spelled(t[i].b, t[i + 1].b)
               /\ t[i + 1].src = t[i].src =>
                     \/ t[i].b = "g1" /\ t[i + 1].b = "g2"
                     \/ t[i].b \in {"m1", "m2"} /\ t[i + 1].b \in {"m1", "m2"}
    <3>1. i \in 1..n /\ t[i + 1] = x[i]
      BY <1>1, <2>1
    <3>2. CASE i = 1
      <4>1. x # <<>> /\ t[i + 1] = x[1] /\ t[i].src = Inserted
        BY <1>1, <2>1, <3>1, <3>2, EmptySeq
      <4>2. x[1].b \notin Tails /\ x[1].src # Inserted
        BY <3>1, <3>2, <4>1 DEF Clean
      <4> QED
        BY <4>1, <4>2
    <3>3. CASE i # 1
      <4> DEFINE j == i - 1
      <4>1. j \in 1..(n - 1) /\ j + 1 = i /\ j \in 1..n
        BY <1>1, <3>1, <3>3
      <4>2. t[i] = x[j] /\ t[i + 1] = x[j + 1]
        BY <2>1, <3>1, <4>1
      <4> HIDE DEF j, x
      <4>3. Clean(x)
        BY DEF x
      <4> QED
        BY <4>1, <4>2, <4>3 DEF Clean, n
    <3> QED
      BY <3>2, <3>3
  <2>4. Clean(t)
    BY <2>2, <2>3 DEF Clean
  <2> QED
    BY <2>4 DEF t
<1> QED
  BY <1>2, <1>3

LEMMA MapClean ==
    ASSUME NEW seg \in Seq(Bytes), Clean(seg), NEW t, NEW a, MapUpto(t, a, seg, Len(seg))
    PROVE  Clean(t)
<1> DEFINE n == Len(seg)
<1>1. n \in Nat /\ t \in Seq(Bytes) /\ Len(t) \in Nat
  BY LenProperties DEF MapUpto
<1>2. t # <<>> => t[1].b \notin Tails
  <2>1. n = 0 => t = <<>>
    BY DEF MapUpto
  <2>2. n # 0 => t[1].b \in Heads
    BY DEF MapUpto
  <2> QED
    BY <2>1, <2>2 DEF Heads, Tails
<1>3. ASSUME NEW i \in 1..(Len(t) - 1)
      PROVE  /\ t[i + 1].b \in Tails => t[i + 1].src = t[i].src /\ Spelled(t[i].b, t[i + 1].b)
             /\ t[i + 1].src = t[i].src =>
                   \/ t[i].b = "g1" /\ t[i + 1].b = "g2"
                   \/ t[i].b \in {"m1", "m2"} /\ t[i + 1].b \in {"m1", "m2"}
  <2>1. i \in 1..Len(t) /\ i + 1 \in 1..Len(t)
    BY <1>1
  <2>2. /\ a[i] \in 0..(n - 1) /\ t[i].src = seg[a[i] + 1].src /\ Image(seg[a[i] + 1].b, t[i].b)
        /\ a[i + 1] \in 0..(n - 1) /\ t[i + 1].src = seg[a[i + 1] + 1].src
        /\ Image(seg[a[i + 1] + 1].b, t[i + 1].b)
    BY <2>1 DEF MapUpto
  <2>3. \/ a[i + 1] = a[i] /\ Spelled(t[i].b, t[i + 1].b)
        \/ a[i + 1] = a[i] + 1 /\ t[i + 1].b \in Heads
    BY DEF MapUpto
  <2>4. CASE a[i + 1] = a[i] /\ Spelled(t[i].b, t[i + 1].b)
    BY <2>2, <2>4 DEF Spelled
  <2>5. CASE a[i + 1] = a[i] + 1 /\ t[i + 1].b \in Heads
    <3> DEFINE j == a[i] + 1
    <3>1. j \in 1..(n - 1) /\ a[i + 1] + 1 = j + 1
      BY <1>1, <2>2, <2>5
    <3>2. /\ t[i].src = seg[j].src /\ t[i + 1].src = seg[j + 1].src
          /\ Image(seg[j].b, t[i].b) /\ Image(seg[j + 1].b, t[i + 1].b)
      BY <2>2, <3>1
    <3> HIDE DEF j
    <3>3. seg[j + 1].src = seg[j].src =>
             \/ seg[j].b = "g1" /\ seg[j + 1].b = "g2"
             \/ seg[j].b \in {"m1", "m2"} /\ seg[j + 1].b \in {"m1", "m2"}
      BY <3>1 DEF Clean
    <3>4. t[i + 1].src = t[i].src => t[i].b \in {"m1", "m2"} /\ t[i + 1].b \in {"m1", "m2"}
      BY <3>2, <3>3 DEF Image, Kept
    <3>5. t[i + 1].b \notin Tails
      BY <2>5 DEF Heads, Tails
    <3> QED
      BY <3>4, <3>5
  <2> QED
    BY <2>3, <2>4, <2>5
<1> QED
  BY <1>2, <1>3 DEF Clean

LEMMA OriginClean ==
    ASSUME NEW pt \in PreTokenSet, NEW p \in Splits \cup ByteLevels, Clean(pt.text),
           \A i \in 1..Len(pt.text) : pt.text[i].src # Inserted,
           NEW lo \in Nat, NEW hi \in Nat, lo < hi, hi <= Len(CutText(pt, p)),
           lo \in Ends(CutText(pt, p), TokenEnds(CutText(pt, p))),
           NEW start, NEW end, NEW g, NEW new, Origin(new, pt, p, lo, hi, start, end, g)
    PROVE  Clean(new.text)
<1> DEFINE T == CutText(pt, p)
           seg == SubSeq(T, lo + 1, hi)
<1>1. T \in Seq(Bytes) /\ Clean(T)
  BY PrefixedClean, PrefixedFacts DEF CutText, PreTokenSet
<1> HIDE DEF T
<1>2. Clean(seg) /\ seg \in Seq(Bytes) /\ Len(seg) = hi - lo /\ \A i \in 1..(hi - lo) : seg[i] = T[lo + i]
  BY <1>1, CleanSub, SubText DEF T
<1> HIDE DEF seg
<1>3. CASE p.type = "Split"
  <2>1. /\ Len(new.text) = hi - lo /\ \A j \in 1..(hi - lo) : new.text[j] = T[lo + j]
        /\ new.text \in Seq(Bytes)
    BY <1>3 DEF Origin, Rendered, Made, PreTokenSet, T
  <2>2. new.text = seg
    <3>1. \A j \in 1..Len(seg) : new.text[j] = seg[j]
      BY <1>2, <2>1
    <3> DEFINE x == new.text
    <3> HIDE DEF x
    <3>2. x = [j \in 1..Len(x) |-> x[j]] /\ seg = [j \in 1..Len(seg) |-> seg[j]] /\ Len(x) = Len(seg)
      BY <1>2, <2>1, LenProperties DEF x
    <3>3. x = seg
      BY <3>1, <3>2 DEF x
    <3> QED
      BY <3>3 DEF x
  <2> QED
    BY <1>2, <2>2
<1>4. CASE p.type # "Split"
  <2>1. MapUpto(new.text, g, seg, Len(seg))
    BY <1>2, <1>4 DEF Origin, Rendered, T, seg
  <2> QED
    BY <1>2, <2>1, MapClean
<1> QED
  BY <1>3, <1>4

-------------------------------------------------------------------------------
(* Pre-tokens whose offsets are exact. *)

\* The bytes of a pre-token of a text of n bytes from base on, without an
\* inserted space.
Placed(pt, base, n) ==
    /\ pt \in PreTokenSet /\ pt.text # <<>> /\ Clean(pt.text) /\ Steps(pt.text)
    /\ \A i \in 1..Len(pt.text) : /\ pt.text[i].src \in base..(base + n - 1)
                                  /\ SpanFirst(pt, i - 1) = pt.text[i].src - base
    /\ pt.first = pt.text[1].src - base /\ pt.last = pt.text[Len(pt.text)].src - base + 1

\* The same of a piece in front of which a space was inserted.
Opened(pt, base, n) ==
    /\ pt \in PreTokenSet
    /\ \E i \in 1..Len(pt.text) : pt.text[i].src = Inserted
    /\ \A i \in 1..Len(pt.text) :
          \/ pt.text[i].src = Inserted
          \/ pt.text[i].src \in base..(base + n - 1)
             /\ pt.first <= pt.text[i].src - base /\ pt.text[i].src - base < pt.last
    /\ (\E i \in 1..Len(pt.text) : pt.text[i].src # Inserted) =>
          /\ \E i \in 1..Len(pt.text) : pt.text[i].src # Inserted /\ pt.text[i].src - base = pt.first
          /\ \E i \in 1..Len(pt.text) : pt.text[i].src # Inserted /\ pt.text[i].src - base + 1 = pt.last

\* A piece of a placed pre-token is placed.
LEMMA OriginPlaced ==
    ASSUME NEW base \in Nat, NEW n \in Nat, NEW pt, Placed(pt, base, n), NEW p \in Splits \cup ByteLevels,
           NEW lo \in Nat, NEW hi \in Nat, lo < hi, hi <= Len(CutText(pt, p)),
           lo \in Ends(CutText(pt, p), TokenEnds(CutText(pt, p))),
           NEW start \in Nat, NEW end \in Nat, NEW g, NEW new, Origin(new, pt, p, lo, hi, start, end, g),
           Within(pt, CutText(pt, p), lo, hi, start, end)
    PROVE  Placed(new, base, n)
<1> DEFINE T == CutText(pt, p)
           x == pt.text
           y == new.text
           L == Len(x)
           m == Len(y)
           s(i) == x[i].src
           F(i) == SpanFirst(pt, i)
<1>1. /\ pt \in PreTokenSet /\ x \in Seq(Bytes) /\ L \in Nat /\ x # <<>> /\ Clean(x) /\ Steps(x)
      /\ \A i \in 1..L : s(i) \in base..(base + n - 1) /\ F(i - 1) = s(i) - base
  BY LenProperties DEF Placed, PreTokenSet
<1>2. /\ new \in PreTokenSet /\ m \in Nat /\ y \in Seq(Bytes)
      /\ new.first = F(start) /\ new.last = SpanLast(pt, start, end)
      /\ g \in Seq(Int) /\ Len(g) = m /\ m # 0
      /\ \A j \in 1..m : g[j] \in 0..(hi - lo - 1) /\ y[j].src = T[lo + g[j] + 1].src
      /\ g[1] = 0 /\ g[m] = hi - lo - 1
      /\ \A j \in 1..(m - 1) : g[j + 1] = g[j] \/ g[j + 1] = g[j] + 1
      /\ \/ /\ new.align = <<>> /\ pt.align = <<>> /\ start = lo /\ T = x
            /\ \A j \in 1..m : g[j] = j - 1
         \/ /\ Len(new.align) = m
            /\ \A j \in 1..m : new.align[j] = MapParent(start + g[j], pt.align) - MapParent(start, pt.align)
  BY LenProperties DEF Origin, Made, PreTokenSet
<1>3. end = start + (hi - lo) /\ end <= L /\ \A i \in 1..(hi - lo) : T[lo + i] = x[start + i]
  BY DEF Within
<1>4. Clean(y)
  <2>1. \A i \in 1..L : x[i].src # Inserted
    BY SMTT(30), <1>1 DEF Inserted
  <2> QED
    BY <1>1, <2>1, OriginClean
<1>5. \A i \in Nat, j \in Nat : F(i) = pt.first + MapParent(i, pt.align) /\ MapParent(i, pt.align) \in Int
                                /\ pt.first \in Int
  BY <1>1, SpanFacts, MapParentFacts DEF PreTokenSet
<1>6. ASSUME NEW j \in 1..m
      PROVE  /\ start + g[j] + 1 \in 1..L /\ y[j].src = s(start + g[j] + 1)
             /\ F(start + g[j]) = y[j].src - base /\ y[j].src \in base..(base + n - 1)
  <2> DEFINE k == g[j]
  <2>1. k \in 0..(hi - lo - 1) /\ y[j].src = T[lo + k + 1].src
    BY <1>2
  <2> HIDE DEF k
  <2>2. k + 1 \in 1..(hi - lo) /\ lo + (k + 1) = lo + k + 1 /\ start + (k + 1) = start + k + 1
        /\ start + k + 1 \in 1..L /\ (start + k + 1) - 1 = start + k
    BY SMTT(30), <1>1, <1>3, <2>1
  <2>3. y[j].src = x[start + k + 1].src
    BY <1>3, <2>1, <2>2
  <2>4. F(start + k) = s(start + k + 1) - base /\ s(start + k + 1) \in base..(base + n - 1)
    BY <1>1, <2>2
  <2> QED
    BY <2>2, <2>3, <2>4 DEF k
<1>7. ASSUME NEW j \in 1..m
      PROVE  SpanFirst(new, j - 1) = F(start + g[j])
  <2> DEFINE a == new.align
             M(i) == MapParent(i, pt.align)
             k == g[j]
  <2>1. j - 1 \in Nat /\ k \in Nat /\ start + k \in Nat /\ (j - 1) + 1 = j
    <3>1. k \in 0..(hi - lo - 1)
      BY <1>2
    <3>2. m \in Nat /\ j \in 1..m
      BY <1>2
    <3> HIDE DEF k, m
    <3> QED
      BY <3>1, <3>2
  <2>2. SpanFirst(new, j - 1) = new.first + MapParent(j - 1, a)
    BY DEF SpanFirst
  <2>3. F(start + k) = pt.first + M(start + k) /\ new.first = pt.first + M(start)
        /\ M(start + k) \in Int /\ M(start) \in Int /\ pt.first \in Int
    BY <1>2, <1>5, <2>1
  <2>4. CASE /\ a = <<>> /\ pt.align = <<>> /\ k = j - 1
    <3>1. M(start) = start /\ M(start + k) = start + k /\ MapParent(j - 1, a) = j - 1
      BY <2>4 DEF MapParent
    <3> HIDE DEF M, k
    <3>2. new.first + (j - 1) = pt.first + M(start + k)
      BY <2>1, <2>3, <2>4, <3>1
    <3> QED
      BY <2>2, <2>3, <3>1, <3>2 DEF k
  <2>5. CASE Len(a) = m /\ a[j] = M(start + k) - M(start)
    <3>1. MapParent(j - 1, a) = a[j]
      <4>1. a \in Seq(Int) /\ (j - 1) + 1 \in 1..Len(a)
        BY <1>2, <2>1, <2>5 DEF PreTokenSet
      <4> QED
        BY ZenonT(30), <2>1, <4>1, MapParentFacts
    <3> HIDE DEF M, k
    <3> QED
      BY <2>1, <2>2, <2>3, <2>5, <3>1 DEF k
  <2> QED
    BY <1>2, <2>4, <2>5
<1>8. Steps(y)
  <2>1. ASSUME NEW j \in 1..(m - 1)
        PROVE  y[j + 1].src = y[j].src \/ y[j + 1].src = y[j].src + 1
    <3>1. j \in 1..m /\ j + 1 \in 1..m
      BY <1>2
    <3>2. g[j] \in Nat /\ y[j].src = s(start + g[j] + 1) /\ y[j + 1].src = s(start + g[j + 1] + 1)
          /\ start + g[j + 1] + 1 \in 1..L /\ start + g[j] + 1 \in 1..L
      BY <1>2, <1>6, <3>1
    <3>3. CASE g[j + 1] = g[j]
      BY <3>2, <3>3
    <3>4. CASE g[j + 1] = g[j] + 1
      <4> DEFINE k == start + g[j] + 1
      <4>1. k \in 1..(L - 1) /\ start + g[j + 1] + 1 = k + 1
        <5> DEFINE u == g[j]
                   v == g[j + 1]
        <5>1. u \in Nat /\ v = u + 1 /\ start + v + 1 \in 1..L
          BY <3>2, <3>4
        <5> HIDE DEF u, v, L
        <5>2. start + u + 1 \in 1..(L - 1) /\ start + v + 1 = (start + u + 1) + 1
          BY <1>1, <5>1
        <5> QED
          BY <5>2 DEF u, v
      <4>2. y[j].src = s(k) /\ y[j + 1].src = s(k + 1)
        BY <3>2, <4>1
      <4> HIDE DEF k
      <4>3. s(k + 1) = s(k) \/ s(k + 1) = s(k) + 1
        BY <1>1, <4>1 DEF Steps
      <4> QED
        BY <4>2, <4>3
    <3> QED
      BY <1>2, <3>3, <3>4
  <2> QED
    BY <2>1 DEF Steps
<1>9. new.first = y[1].src - base
  <2>1. 1 \in 1..m /\ start + 0 = start
    BY <1>2
  <2> QED
    BY <1>2, <1>6, <2>1
<1>10. new.last = y[m].src - base + 1
  <2>1. m \in 1..m /\ start + g[m] = end - 1 /\ end - 1 \in Nat /\ start <= end - 1 /\ end > start
    BY SMTT(30), <1>2, <1>3
  <2>2. F(end - 1) = y[m].src - base
    BY <1>6, <2>1
  <2>3. /\ SpanLast(pt, start, end) \in Int /\ F(start) \in Int /\ F(end - 1) \in Int
        /\ SpanLast(pt, start, end) \in {F(start), F(end - 1) + 1}
        /\ F(end - 1) + 1 <= SpanLast(pt, start, end)
    <3>1. end \in Nat /\ start \in Nat
      OBVIOUS
    <3> QED
      BY <1>1, <2>1, <3>1, SpanFacts
  <2>4. F(start) <= F(end - 1)
    <3>1. start + 1 \in 1..L /\ end \in 1..L /\ start + 1 <= end /\ (start + 1) - 1 = start
      BY <1>1, <1>3, <2>1
    <3>2. s(start + 1) <= s(end)
      BY <1>1, <3>1, StepsMonotone DEF L
    <3> HIDE DEF F, s, L
    <3>3. F(start) = s(start + 1) - base /\ F(end - 1) = s(end) - base
          /\ s(start + 1) \in Int /\ s(end) \in Int
      BY <1>1, <3>1
    <3> QED
      BY <3>2, <3>3
  <2>5. new.last = SpanLast(pt, start, end)
    BY <1>2
  <2> HIDE DEF F
  <2>6. new.last = F(end - 1) + 1
    BY <2>3, <2>4, <2>5
  <2> QED
    BY <2>2, <2>6
<1>11. y # <<>> /\ \A i \in 1..m : y[i].src \in base..(base + n - 1) /\ SpanFirst(new, i - 1) = y[i].src - base
  <2>1. y # <<>>
    BY <1>2, EmptySeq
  <2> QED
    BY <1>6, <1>7, <2>1
<1> QED
  BY <1>2, <1>4, <1>8, <1>9, <1>10, <1>11 DEF Placed

\* The piece with the inserted space is placed but for that space.
LEMMA OriginOpened ==
    ASSUME NEW base \in Nat, NEW n \in Nat, NEW pt \in PreTokenSet, pt.text = <<>> \/ Placed(pt, base, n),
           NEW p \in Splits \cup ByteLevels, Inserts(p),
           NEW lo \in Nat, NEW hi \in Nat, lo < hi, hi <= Len(CutText(pt, p)),
           NEW start \in Nat, NEW end \in Nat, NEW g, NEW new, Origin(new, pt, p, lo, hi, start, end, g),
           AfterSpace(pt, CutText(pt, p), lo, hi, start, end)
    PROVE  Opened(new, base, n)
<1> DEFINE T == CutText(pt, p)
           x == pt.text
           y == new.text
           L == Len(x)
           m == Len(y)
           seg == SubSeq(T, lo + 1, hi)
           s(i) == x[i].src
           F(i) == SpanFirst(pt, i)
<1>1. x \in Seq(Bytes) /\ L \in Nat /\ T \in Seq(Bytes)
  BY LenProperties, PrefixedFacts DEF PreTokenSet, CutText
<1>2. /\ lo = 0 /\ start = 0 /\ end = hi - 1 /\ end <= L /\ T[1].src = Inserted
      /\ \A i \in 1..(hi - 1) : T[i + 1] = x[i]
  BY DEF AfterSpace
<1>3. /\ new \in PreTokenSet /\ m \in Nat /\ new.first = F(0) /\ new.last = SpanLast(pt, 0, hi - 1)
  BY <1>2, LenProperties DEF Origin, Made, PreTokenSet
<1>4. seg \in Seq(Bytes) /\ Len(seg) = hi /\ \A i \in 1..hi : seg[i] = T[i]
  <2>1. /\ seg \in Seq(Bytes) /\ Len(seg) = hi - lo
        /\ \A i \in 1..(hi - lo) : seg[i] = T[lo + i]
    BY <1>1, SubText
  <2> HIDE DEF seg, T
  <2>2. hi - lo = hi /\ \A i \in 1..hi : lo + i = i
    BY <1>2
  <2> QED
    BY <2>1, <2>2
<1>5. MapUpto(y, g, seg, hi)
  <2>1. p.type # "Split" /\ hi - lo = hi
    BY <1>2 DEF Inserts
  <2> QED
    BY <2>1 DEF Origin, Rendered
<1> HIDE DEF T, seg
<1>6. /\ \A j \in 1..m : g[j] \in 0..(hi - 1) /\ y[j].src = seg[g[j] + 1].src
      /\ \A i \in 1..hi : \E j \in 1..m : g[j] = i - 1
  BY <1>5 DEF MapUpto
<1>7. ASSUME NEW j \in 1..m, g[j] = 0 PROVE y[j].src = Inserted
  <2>1. 0 + 1 = 1 /\ 1 \in 1..hi
    BY <1>2
  <2>2. y[j].src = seg[1].src
    BY <1>6, <1>7, <2>1
  <2> QED
    BY <1>2, <1>4, <2>1, <2>2
<1>8. ASSUME NEW j \in 1..m, g[j] # 0 PROVE g[j] \in 1..(hi - 1) /\ y[j].src = s(g[j])
  <2> DEFINE i == g[j]
  <2>1. i \in 0..(hi - 1) /\ i # 0 /\ y[j].src = seg[i + 1].src
    BY <1>6, <1>8
  <2> HIDE DEF i
  <2>2. i \in 1..(hi - 1) /\ i + 1 \in 1..hi
    BY <2>1
  <2>3. y[j].src = s(i)
    BY <1>2, <1>4, <2>1, <2>2
  <2> QED
    BY <2>2, <2>3 DEF i
<1>9. \A i \in 0..(hi - 1) : \E j \in 1..m : g[j] = i
  <2>1. ASSUME NEW i \in 0..(hi - 1) PROVE \E j \in 1..m : g[j] = i
    <3>1. i + 1 \in 1..hi /\ (i + 1) - 1 = i
      OBVIOUS
    <3> QED
      BY <1>6, <3>1
  <2> QED
    BY <2>1
<1>10. \E j \in 1..m : y[j].src = Inserted
  <2>1. 0 \in 0..(hi - 1)
    OBVIOUS
  <2> QED
    BY <1>7, <1>9, <2>1
<1>11. CASE hi = 1
  <2>1. \A j \in 1..m : y[j].src = Inserted
    <3>1. \A j \in 1..m : g[j] = 0
      BY <1>6, <1>11
    <3> QED
      BY <1>7, <3>1
  <2> QED
    BY <1>3, <1>10, <2>1 DEF Opened
<1>12. CASE hi # 1
  <2>1. hi - 1 \in 1..L /\ 1 \in 1..(hi - 1) /\ L # 0 /\ hi - 1 > 0 /\ hi - 2 \in Nat /\ (hi - 1) - 1 = hi - 2
        /\ hi - 1 \in Nat
    BY <1>1, <1>2, <1>12
  <2>2. Placed(pt, base, n)
    BY <2>1, EmptySeq
  <2>3. /\ \A i \in 1..L : s(i) \in base..(base + n - 1) /\ F(i - 1) = s(i) - base
        /\ Steps(x)
    BY <2>2 DEF Placed
  <2>4. \A i, j \in 1..L : i <= j => s(i) <= s(j)
    BY <1>1, <2>3, StepsMonotone
  <2>5. F(0) = s(1) - base /\ F(hi - 2) = s(hi - 1) - base
    <3>1. 1 \in 1..L /\ 1 - 1 = 0 /\ (hi - 1) - 1 = hi - 2
      BY <1>1, <2>1
    <3> HIDE DEF F, s, L
    <3> QED
      BY <2>1, <2>3, <3>1
  <2>6. /\ SpanLast(pt, 0, hi - 1) \in {F(0), F(hi - 2) + 1}
        /\ F(hi - 2) + 1 <= SpanLast(pt, 0, hi - 1)
    <3> DEFINE o == 0
               h == hi - 1
    <3>1. o \in Nat /\ h \in Nat /\ h > o /\ h - 1 = hi - 2
      BY <2>1
    <3> HIDE DEF o, h
    <3>2. /\ SpanLast(pt, o, h) \in {SpanFirst(pt, o), SpanFirst(pt, h - 1) + 1}
          /\ SpanFirst(pt, h - 1) + 1 <= SpanLast(pt, o, h)
      BY <3>1, SpanFacts
    <3> QED
      BY <3>1, <3>2 DEF o, h
  <2> HIDE DEF s, F, y, m
  <2>7. s(1) \in Int /\ s(hi - 1) \in Int /\ s(1) <= s(hi - 1)
    <3>1. 1 \in 1..L /\ 1 <= hi - 1
      BY <1>1, <2>1 DEF L
    <3>2. s(1) \in base..(base + n - 1) /\ s(hi - 1) \in base..(base + n - 1)
      BY <2>1, <2>3, <3>1
    <3>3. s(1) <= s(hi - 1)
      BY <2>1, <2>4, <3>1
    <3> QED
      BY <3>2, <3>3
  <2>8. new.first = s(1) - base /\ new.last = s(hi - 1) - base + 1
    BY <1>3, <2>5, <2>6, <2>7
  <2>9. ASSUME NEW j \in 1..m, y[j].src # Inserted
        PROVE  /\ y[j].src \in base..(base + n - 1)
               /\ new.first <= y[j].src - base /\ y[j].src - base < new.last
    <3> DEFINE i == g[j]
    <3>1. i \in 1..(hi - 1) /\ y[j].src = s(i)
      BY <1>6, <1>7, <1>8, <2>9
    <3> HIDE DEF i
    <3>2. i \in 1..L /\ 1 \in 1..L /\ 1 <= i /\ i <= hi - 1
      BY SMTT(30), <1>1, <2>1, <3>1
    <3>3. s(1) <= s(i) /\ s(i) <= s(hi - 1) /\ s(i) \in base..(base + n - 1)
      BY <2>1, <2>3, <2>4, <3>2
    <3> DEFINE u == s(i)
    <3>4. u \in Int
      BY <3>3
    <3> HIDE DEF u
    <3>5. s(1) - base <= u - base /\ u - base < s(hi - 1) - base + 1
      BY <2>7, <3>3, <3>4 DEF u
    <3> QED
      BY <2>8, <3>1, <3>3, <3>5 DEF u
  <2>10. \E j \in 1..m : y[j].src # Inserted /\ y[j].src - base = new.first
    <3>1. PICK j \in 1..m : g[j] = 1
      BY <1>9, <2>1
    <3>2. y[j].src = s(1) /\ s(1) # Inserted
      <4>1. 1 \in 1..L
        BY <1>1, <2>1
      <4>2. s(1) \in base..(base + n - 1)
        BY <2>3, <4>1
      <4> QED
        BY <1>8, <3>1, <4>2 DEF Inserted
    <3> QED
      BY <2>8, <3>2
  <2>11. \E j \in 1..m : y[j].src # Inserted /\ y[j].src - base + 1 = new.last
    <3>1. PICK j \in 1..m : g[j] = hi - 1
      BY SMTT(30), <1>9, <2>1
    <3>2. y[j].src = s(hi - 1) /\ s(hi - 1) # Inserted
      <4>1. s(hi - 1) \in base..(base + n - 1)
        BY <2>1, <2>3
      <4> QED
        BY <1>8, <2>1, <3>1, <4>1 DEF Inserted
    <3> QED
      BY <2>8, <3>2
  <2> QED
    BY <1>3, <1>10, <2>9, <2>10, <2>11 DEF Opened, y, m
<1> QED
  BY <1>11, <1>12

Settled(pt, base, n) == pt \in PreTokenSet /\ (pt.text = <<>> \/ Placed(pt, base, n))

\* What a pre-tokenizer makes of a pre-token whose offsets are exact.
CutResults(p, base, n) ==
    {x \in PreTokenSet : Settled(x, base, n) \/ (Inserts(p) /\ Opened(x, base, n))}

\* The pieces of a pre-token with exact offsets have exact offsets.
LEMMA CutPlaced ==
    ASSUME NEW base \in Nat, NEW n \in Nat, NEW pt, Settled(pt, base, n),
           NEW p \in Splits \cup ByteLevels, NEW c \in Cuts(pt, p)
    PROVE  c \in Seq(CutResults(p, base, n))
<1> DEFINE B == CutResults(p, base, n)
<1>1. pt \in PreTokenSet /\ Len(pt.text) \in Nat
  BY LenProperties DEF Settled, PreTokenSet
<1>2. ASSUME c = <<pt>> PROVE c \in Seq(B)
  <2>1. pt \in B
    BY <1>1 DEF CutResults
  <2> HIDE DEF B
  <2> QED
    BY <1>2, <2>1
<1>3. ASSUME NEW spans, CutAt(pt, p, c, spans) PROVE c \in Seq(B)
  <2>1. Len(spans) \in Nat /\ c = [k \in 1..Len(spans) |-> CutPiece(pt, p, spans[k][1], spans[k][2])]
    BY <1>3, LenProperties DEF CutAt
  <2>2. ASSUME NEW k \in 1..Len(spans) PROVE c[k] \in B
    <3> DEFINE T == CutText(pt, p)
               lo == spans[k][1]
               hi == spans[k][2]
               new == c[k]
    <3>1. T \in Seq(Bytes) /\ lo \in Nat /\ hi \in Nat /\ lo < hi /\ hi <= Len(T)
          /\ lo \in Ends(T, TokenEnds(T))
      BY <1>1, <1>3, PieceMade
    <3>2a. PICK start \in Nat, end \in Nat : \E g : Origin(new, pt, p, lo, hi, start, end, g)
      BY <1>1, <1>3, PieceOrigin
    <3>2. PICK g : Origin(new, pt, p, lo, hi, start, end, g)
      BY <3>2a
    <3> HIDE DEF lo, hi, new, T
    <3>3. new \in PreTokenSet
      BY <3>2 DEF Origin, Made
    <3>4. ASSUME Within(pt, T, lo, hi, start, end) PROVE new \in B
      <4>1. Len(pt.text) # 0
        <5> DEFINE L == Len(pt.text)
        <5>1. end = start + (hi - lo) /\ end <= L
          BY <3>4 DEF Within
        <5> HIDE DEF L
        <5>2. L # 0
          BY <1>1, <3>1, <5>1
        <5> QED
          BY <5>2 DEF L
      <4>2. Placed(pt, base, n)
        BY <4>1, EmptySeq DEF Settled
      <4>3. Placed(new, base, n)
        BY <3>1, <3>2, <3>4, <4>2, OriginPlaced DEF T
      <4> QED
        BY <3>3, <4>3 DEF CutResults, Settled
    <3>5. ASSUME Inserts(p), AfterSpace(pt, T, lo, hi, start, end) PROVE new \in B
      <4>1. Opened(new, base, n)
        BY <1>1, <3>1, <3>2, <3>5, OriginOpened DEF T, Settled
      <4> QED
        BY <3>3, <3>5, <4>1 DEF CutResults
    <3>6. new \in B
      BY <3>2, <3>4, <3>5 DEF Origin, T
    <3> QED
      BY <3>6 DEF new
  <2>3. DOMAIN c = 1..Len(spans) /\ c = [k \in 1..Len(spans) |-> c[k]]
    BY <2>1
  <2> HIDE DEF B
  <2> QED
    BY <2>1, <2>2, <2>3
<1> QED
  BY <1>1, <1>2, <1>3, CutFacts

\* Until a space is inserted, offsets.first plus the alignment is exact.
Placement ==
    PrefixLast =>
       \A k \in 1..Len(pretokens) :
          \/ Settled(pretokens[k], Base(ns), Len(ns.bytes))
          \/ /\ Opened(pretokens[k], Base(ns), Len(ns.bytes)) /\ ~NoPrefix
             /\ stage = "pretokenize" => ran = Len(config.pretokenizers)

LEMMA BaseFacts ==
    ASSUME Shape
    PROVE  /\ Base(ns) \in Nat /\ Len(ns.bytes) \in Nat /\ ns.bytes \in Seq(Bytes)
           /\ Base(ns) + Len(ns.bytes) <= Len(original) /\ Len(original) \in Nat
           /\ ns.bytes \in Seq(PlainBytes)
           /\ \A k \in 1..Len(ns.bytes) : ns.bytes[k].src = Base(ns) + k - 1
<1>1. PlainBytes \subseteq Bytes
  BY DEF PlainBytes, Bytes
<1> QED
  BY <1>1, ConfigFacts, LenProperties DEF Shape, Contiguous, NormalizedSet

\* The pre-token of the whole normalized text has exact offsets.
LEMMA WholePlaced ==
    ASSUME Shape, ns.bytes # <<>>, NEW pt,
           pt = [text |-> ns.bytes, first |-> 0, last |-> Len(ns.bytes), align |-> <<>>]
    PROVE  Placed(pt, Base(ns), Len(ns.bytes))
<1> DEFINE n == Len(ns.bytes)
           base == Base(ns)
           x == ns.bytes
<1>1. /\ base \in Nat /\ n \in Nat /\ x \in Seq(Bytes) /\ x \in Seq(PlainBytes)
      /\ \A k \in 1..n : x[k].src = base + k - 1
  BY BaseFacts
<1>2. n # 0
  BY <1>1, EmptySeq
<1>3. pt \in PreTokenSet
  BY <1>1 DEF PreTokenSet
<1>4. \A k \in 1..n : x[k].b \in PlainClasses
  <2>1. \A k \in 1..n : x[k] \in PlainBytes
    BY <1>1, ElementOfSeq
  <2> QED
    BY <2>1 DEF PlainBytes
<1>5. pt.text = x /\ pt.first = 0 /\ pt.last = n /\ pt.align = <<>>
  OBVIOUS
<1> HIDE DEF n, x, base
<1>6. \A i \in 1..(n - 1) : x[i + 1].src = x[i].src + 1 /\ x[i + 1].src # x[i].src
                            /\ x[i + 1].b \in PlainClasses
  <2>1. ASSUME NEW i \in 1..(n - 1)
        PROVE  x[i + 1].src = x[i].src + 1 /\ x[i + 1].src # x[i].src /\ x[i + 1].b \in PlainClasses
    <3>1. i \in 1..n /\ i + 1 \in 1..n
      BY <1>1
    <3>2. x[i].src = base + i - 1 /\ x[i + 1].src = base + (i + 1) - 1
      BY <1>1, <3>1
    <3> QED
      BY <1>1, <1>4, <3>1, <3>2
  <2> QED
    BY <2>1
<1>7. Steps(x)
  BY <1>6 DEF Steps, n, x
<1>8. Clean(x)
  <2>1. \A c \in PlainClasses : c \notin Tails
    BY DEF PlainClasses, Tails
  <2>2. x[1].b \notin Tails
    <3>1. 1 \in 1..n
      BY <1>1, <1>2
    <3> QED
      BY <1>4, <2>1, <3>1
  <2> QED
    BY <1>6, <2>1, <2>2 DEF Clean, n, x
<1>9. \A i \in 1..n : /\ x[i].src \in base..(base + n - 1)
                      /\ SpanFirst(pt, i - 1) = x[i].src - base
  <2>1. ASSUME NEW i \in 1..n PROVE x[i].src \in base..(base + n - 1) /\ SpanFirst(pt, i - 1) = x[i].src - base
    <3>1. SpanFirst(pt, i - 1) = 0 + (i - 1)
      BY <1>5 DEF SpanFirst, MapParent
    <3>2. x[i].src = base + i - 1
      BY <1>1
    <3> QED
      BY <1>1, <3>1, <3>2
  <2> QED
    BY <2>1
<1>10. 0 = x[1].src - base /\ n = x[n].src - base + 1
  <2>1. 1 \in 1..n /\ n \in 1..n
    BY <1>1, <1>2
  <2>2. x[1].src = base + 1 - 1 /\ x[n].src = base + n - 1
    BY <1>1, <2>1
  <2> QED
    BY <1>1, <2>2
<1>11. x # <<>> /\ Len(x) = n
  BY DEF x, n
<1>12. Placed(pt, base, n)
  BY <1>3, <1>5, <1>7, <1>8, <1>9, <1>10, <1>11 DEF Placed
<1> QED
  BY <1>12 DEF base, n

LEMMA PlacementNext == Shape /\ Placement /\ [Next]_vars => Placement'
<1> SUFFICES ASSUME Shape, Placement, [Next]_vars, PrefixLast'
             PROVE  \A k \in 1..Len(pretokens') :
                       \/ Settled(pretokens'[k], Base(ns'), Len(ns'.bytes))
                       \/ /\ Opened(pretokens'[k], Base(ns'), Len(ns'.bytes)) /\ ~NoPrefix'
                          /\ stage' = "pretokenize" => ran' = Len(config'.pretokenizers)
  BY DEF Placement
<1> DEFINE n == Len(ns.bytes)
           b == Base(ns)
<1>1. config' = config /\ PrefixLast /\ (NoPrefix' <=> NoPrefix)
  BY DEF Next, vars, Normalize, Normalization, PreTokenize, Tokenize, Process, Align, Truncate,
         Terminating, PrefixLast, NoPrefix
<1>2. n \in Nat /\ b \in Nat
  BY BaseFacts
<1>3. CASE Normalize
  <2>1. pretokens' = <<>>
    BY <1>3 DEF Normalize, Shape
  <2> QED
    BY <2>1
<1>4. CASE Normalization
  <2> DEFINE pt == [text |-> ns.bytes, first |-> 0, last |-> n, align |-> <<>>]
  <2>1. pretokens' = <<pt>> /\ ns' = ns
    BY <1>4 DEF Normalization
  <2>2. Settled(pt, b, n)
    <3>1. pt \in PreTokenSet
      BY <1>2, BaseFacts DEF PreTokenSet
    <3>2. ns.bytes # <<>> => Placed(pt, b, n)
      BY WholePlaced
    <3>3. pt.text = ns.bytes
      OBVIOUS
    <3> HIDE DEF pt
    <3> QED
      BY <3>1, <3>2, <3>3 DEF Settled
  <2> HIDE DEF pt
  <2>3. Len(pretokens') = 1 /\ pretokens'[1] = pt
    BY <2>1
  <2> QED
    BY <2>1, <2>2, <2>3
<1>5. CASE PreTokenize
  <2> DEFINE p == config.pretokenizers[ran + 1]
             R == [k \in DOMAIN pretokens |-> Cuts(pretokens[k], p)]
             m == Len(pretokens)
             S == CutResults(p, b, n)
  <2>1. /\ m \in Nat /\ DOMAIN pretokens = 1..m /\ stage = "pretokenize"
        /\ ran < Len(config.pretokenizers) /\ ran \in Nat /\ ran' = ran + 1 /\ ns' = ns
        /\ Len(config.pretokenizers) \in Nat
    BY <1>5, ConfigFacts, LenProperties DEF Shape, PreTokenize
  <2>2. ran + 1 \in 1..Len(config.pretokenizers) /\ p \in Splits \cup ByteLevels
    <3>1. ran + 1 \in 1..Len(config.pretokenizers)
      BY <2>1
    <3> QED
      BY <3>1, ConfigFacts, ElementOfSeq
  <2>3. Inserts(p) => ran + 1 = Len(config.pretokenizers) /\ ~NoPrefix
    <3>1. ran + 1 \in DOMAIN config.pretokenizers
      BY <2>2, ConfigFacts, LenProperties
    <3> QED
      BY <1>1, <3>1 DEF PrefixLast, NoPrefix
  <2>4. \A k \in 1..m : Settled(pretokens[k], b, n)
    BY <1>1, <2>1 DEF Placement
  <2>5. ASSUME NEW k \in 1..m PROVE R[k] \in SUBSET Seq(S)
    <3> DEFINE pt == pretokens[k]
    <3>1. R[k] = Cuts(pt, p) /\ Settled(pt, b, n)
      BY <2>1, <2>4
    <3> HIDE DEF pt, p, R, n, b
    <3>2. \A c \in Cuts(pt, p) : c \in Seq(S)
      BY <1>2, <2>2, <3>1, CutPlaced
    <3> QED
      BY <3>1, <3>2
  <2>6. DOMAIN R = 1..m /\ pretokens' \in Concatenations(R)
    BY <1>5, <2>1 DEF PreTokenize
  <2> HIDE DEF R, S, m, p
  <2>7. pretokens' \in Seq(S)
    BY <2>1, <2>5, <2>6, ConcatenationsSeq
  <2>8. ASSUME NEW k \in 1..Len(pretokens')
        PROVE  Settled(pretokens'[k], b, n) \/ (Inserts(p) /\ Opened(pretokens'[k], b, n))
    <3>1. pretokens'[k] \in S
      BY <2>7, LenProperties, ElementOfSeq
    <3> QED
      BY <3>1 DEF S, CutResults
  <2> QED
    BY <1>1, <2>1, <2>3, <2>8
<1>6. CASE Tokenize \/ Process \/ Align \/ Truncate \/ Terminating \/ UNCHANGED vars
  <2>1. pretokens' = pretokens /\ ns' = ns /\ (stage' = "pretokenize" => stage = "pretokenize" /\ ran' = ran)
    BY <1>6 DEF Tokenize, Process, Align, Truncate, Terminating, vars
  <2> QED
    BY <1>1, <2>1 DEF Placement
<1> QED
  BY <1>3, <1>4, <1>5, <1>6 DEF Next

LEMMA PlacementInit == Init => Placement
BY DEF Init, Placement

(***************************************************************************)
(* As long as no pre-tokenizer has cut a text in front of which a space    *)
(* was inserted, the bytes of a pre-token come from consecutive places,    *)
(* the one its offsets and alignment say.                                  *)
(***************************************************************************)
THEOREM PipelinePlacement == Spec => [](Shape /\ Placement)
<1>1. Init => Shape /\ Placement
  BY ShapeInit, PlacementInit
<1>2. (Shape /\ Placement) /\ [Next]_vars => (Shape /\ Placement)'
  BY ShapeNext, PlacementNext
<1> QED
  BY <1>1, <1>2, PTL DEF Spec

\* Where the normalized text has a byte.
LEMMA NormalOffsetFacts ==
    ASSUME Shape, NEW byte, byte.src \in Base(ns)..(Base(ns) + Len(ns.bytes) - 1)
    PROVE  NormalOffset(byte) = byte.src - Base(ns)
<1> DEFINE n == Len(ns.bytes)
           b == Base(ns)
           s == byte.src
           D == DOMAIN ns.bytes
           P(k) == ns.bytes[k].src = s
<1>1. b \in Nat /\ n \in Nat /\ D = 1..n /\ \A k \in 1..n : ns.bytes[k].src = b + k - 1
  BY BaseFacts, LenProperties
<1>2. NormalOffset(byte) = (CHOOSE k \in D : P(k)) - 1
  BY DEF NormalOffset
<1> HIDE DEF n, b, D
<1>3. s \in b..(b + n - 1)
  BY DEF n, b
<1> DEFINE j == s - b + 1
<1>4. j \in D /\ P(j) /\ \A k \in D : P(k) => k = j
  BY <1>1, <1>3
<1> HIDE DEF P, j, s
<1>5. (CHOOSE k \in D : P(k)) = j
  BY <1>4
<1>6. j - 1 = s - b
  BY <1>1, <1>3 DEF j
<1> QED
  BY <1>2, <1>5, <1>6 DEF s, b

LEMMA PlacementAlignment == Shape /\ Placement => AlignmentExact
<1> SUFFICES ASSUME Shape, Placement, PrefixLast, NEW k \in DOMAIN pretokens, ~HasInserted(pretokens[k]),
                    NEW i \in DOMAIN pretokens[k].text
             PROVE  SpanFirst(pretokens[k], i - 1) = NormalOffset(pretokens[k].text[i])
  BY DEF AlignmentExact, WellAligned
<1> DEFINE pt == pretokens[k]
           b == Base(ns)
           n == Len(ns.bytes)
<1>1. k \in 1..Len(pretokens) /\ pt \in PreTokenSet
  <2>1. k \in 1..Len(pretokens)
    BY LenProperties DEF Shape
  <2>2. pt \in BoundedPreTokens(n)
    BY <2>1, ElementOfSeq DEF Shape
  <2> QED
    BY <2>1, <2>2 DEF BoundedPreTokens
<1>2. DOMAIN pt.text = 1..Len(pt.text) /\ Len(pt.text) \in Nat
  BY <1>1, LenProperties DEF PreTokenSet
<1> SUFFICES SpanFirst(pt, i - 1) = NormalOffset(pt.text[i])
  OBVIOUS
<1>3. Settled(pt, b, n) \/ Opened(pt, b, n)
  BY <1>1 DEF Placement
<1> HIDE DEF pt
<1>4. i \in 1..Len(pt.text) /\ ~HasInserted(pt)
  BY <1>2 DEF pt
<1>5. Placed(pt, b, n)
  <2>1. ~Opened(pt, b, n)
    BY <1>2, <1>4 DEF Opened, HasInserted
  <2>2. pt.text # <<>>
    BY <1>2, <1>4, EmptySeq
  <2> QED
    BY <1>3, <2>1, <2>2 DEF Settled
<1>6. pt.text[i].src \in b..(b + n - 1) /\ SpanFirst(pt, i - 1) = pt.text[i].src - b
  BY <1>4, <1>5 DEF Placed
<1> QED
  BY <1>6, NormalOffsetFacts

(***************************************************************************)
(* Split and ByteLevel compose the alignments of the pre-tokens they cut:  *)
(* offsets.first plus the alignment of a byte is where the byte comes      *)
(* from, through any sequence of pre-tokenizers.                           *)
(***************************************************************************)
THEOREM EncodeAlignment == Spec => []AlignmentExact
BY PipelinePlacement, PlacementAlignment, PTL

LEMMA MinIs ==
    ASSUME NEW S \in SUBSET Int, NEW x \in S, \A y \in S : x <= y
    PROVE  Min(S) = x
<1>1. Min(S) \in S /\ \A y \in S : Min(S) <= y
  BY DEF Min
<1> DEFINE z == Min(S)
<1>2. z \in S /\ z \in Int /\ x \in Int /\ x <= z /\ z <= x
  BY <1>1
<1> HIDE DEF z
<1>3. z = x
  BY <1>2
<1> QED
  BY <1>3 DEF z

LEMMA MaxIs ==
    ASSUME NEW S \in SUBSET Int, NEW x \in S, \A y \in S : y <= x
    PROVE  Max(S) = x
<1>1. Max(S) \in S /\ \A y \in S : y <= Max(S)
  BY DEF Max
<1> DEFINE z == Max(S)
<1>2. z \in S /\ z \in Int /\ x \in Int /\ x <= z /\ z <= x
  BY <1>1
<1> HIDE DEF z
<1>3. z = x
  BY <1>2
<1> QED
  BY <1>3 DEF z

LEMMA PlacementSpans == Shape /\ Placement => SpansExact
<1> DEFINE At(pt) == {NormalOffset(x) : x \in {y \in Range(pt.text) : y.src # Inserted}}
<1> SUFFICES ASSUME Shape, Placement, PrefixLast, NEW k \in DOMAIN pretokens, At(pretokens[k]) # {}
             PROVE  pretokens[k].first = Min(At(pretokens[k])) /\ pretokens[k].last = Max(At(pretokens[k])) + 1
  BY DEF SpansExact
<1> DEFINE pt == pretokens[k]
           b == Base(ns)
           n == Len(ns.bytes)
           m == Len(pt.text)
           at == At(pt)
           Real == {i \in 1..m : pt.text[i].src # Inserted}
           o(i) == pt.text[i].src - b
<1>1. k \in 1..Len(pretokens) /\ pt \in PreTokenSet
  <2>1. k \in 1..Len(pretokens)
    BY LenProperties DEF Shape
  <2>2. pt \in BoundedPreTokens(n)
    BY <2>1, ElementOfSeq DEF Shape
  <2> QED
    BY <2>1, <2>2 DEF BoundedPreTokens
<1>2. Settled(pt, b, n) \/ Opened(pt, b, n)
  BY <1>1 DEF Placement
<1>3. DOMAIN pt.text = 1..m /\ m \in Nat /\ pt.first \in Int /\ pt.last \in Int /\ b \in Nat /\ n \in Nat
  BY <1>1, BaseFacts, LenProperties DEF PreTokenSet
<1> HIDE DEF pt
<1>4. Range(pt.text) = {pt.text[i] : i \in 1..m}
  BY <1>3 DEF Range
<1>5. at = {NormalOffset(pt.text[i]) : i \in Real}
  BY <1>4
<1>6. \A i \in Real : pt.text[i].src \in b..(b + n - 1)
  <2>1. ASSUME NEW i \in Real PROVE pt.text[i].src \in b..(b + n - 1)
    <3>1. i \in 1..m /\ pt.text # <<>>
      BY <1>3, EmptySeq
    <3>2. CASE Placed(pt, b, n)
      BY <3>1, <3>2 DEF Placed
    <3>3. CASE Opened(pt, b, n)
      BY <3>1, <3>3 DEF Opened
    <3> QED
      BY <1>2, <3>1, <3>2, <3>3 DEF Settled
  <2> QED
    BY <2>1
<1>7. \A i \in Real : NormalOffset(pt.text[i]) = o(i)
  BY <1>6, NormalOffsetFacts
<1>8. at = {o(i) : i \in Real}
  BY <1>5, <1>7
<1>9. \A i \in Real : o(i) \in Int
  BY <1>3, <1>6
<1>10. at # {} /\ Real # {}
  <2>1. at # {}
    BY DEF pt
  <2> QED
    BY <1>8, <2>1
<1>11. /\ \A i \in Real : pt.first <= o(i) /\ o(i) + 1 <= pt.last
       /\ \E i \in Real : pt.first = o(i)
       /\ \E i \in Real : pt.last = o(i) + 1
  <2>1. pt.text # <<>> /\ 1 \in 1..m /\ m \in 1..m
    BY <1>3, <1>10, EmptySeq
  <2>2. CASE Placed(pt, b, n)
    <3>1. pt.text \in Seq(Bytes) /\ Steps(pt.text) /\ pt.first = o(1) /\ pt.last = o(m) + 1
          /\ \A i \in 1..m : pt.text[i].src \in b..(b + n - 1)
      BY <2>2 DEF Placed, PreTokenSet
    <3>2. \A i \in 1..m : pt.text[i].src # Inserted /\ pt.text[i].src \in Int /\ i \in Real
      BY <1>3, <3>1 DEF Inserted
    <3>3. \A i \in 1..m : pt.text[1].src <= pt.text[i].src /\ pt.text[i].src <= pt.text[m].src
      <4> DEFINE text == pt.text
      <4>1. text \in Seq(Bytes) /\ Steps(text) /\ m = Len(text) /\ m \in Nat
        BY <1>3, <3>1
      <4> HIDE DEF text, m
      <4>2. \A i \in 1..m : 1 <= i /\ i <= m
        BY <4>1
      <4>3. \A i \in 1..m : text[1].src <= text[i].src /\ text[i].src <= text[m].src
        BY <2>1, <4>1, <4>2, StepsMonotone
      <4> QED
        BY <4>3 DEF text
    <3>4. ASSUME NEW i \in 1..m PROVE o(1) <= o(i) /\ o(i) + 1 <= o(m) + 1
      <4> DEFINE u == pt.text[1].src
                 v == pt.text[i].src
                 w == pt.text[m].src
      <4>1. u \in Int /\ v \in Int /\ w \in Int /\ u <= v /\ v <= w
        BY <2>1, <3>2, <3>3
      <4> HIDE DEF u, v, w
      <4>2. u - b <= v - b /\ v - b + 1 <= w - b + 1
        BY <1>3, <4>1
      <4> QED
        BY <4>2 DEF u, v, w
    <3>5. 1 \in Real /\ m \in Real /\ \A i \in Real : i \in 1..m
      BY <2>1, <3>2
    <3> HIDE DEF o, Real
    <3> QED
      BY <3>1, <3>4, <3>5
  <2>3. CASE Opened(pt, b, n)
    <3>1. \A i \in Real : pt.first <= o(i) /\ o(i) < pt.last
      BY <2>3 DEF Opened
    <3>2. (\E i \in 1..m : pt.text[i].src # Inserted /\ o(i) = pt.first)
          /\ (\E i \in 1..m : pt.text[i].src # Inserted /\ o(i) + 1 = pt.last)
      BY <1>10, <2>3 DEF Opened
    <3>3. \A i \in Real : o(i) + 1 <= pt.last
      <4> HIDE DEF Real, o
      <4> QED
        BY <1>3, <1>9, <3>1
    <3> QED
      BY <3>1, <3>2, <3>3
  <2> QED
    BY <1>2, <2>1, <2>2, <2>3 DEF Settled
<1> HIDE DEF at, Real, o
<1>12. at \in SUBSET Int
  BY <1>8, <1>9
<1>13. pt.first = Min(at)
  <2>1. pt.first \in at /\ \A y \in at : pt.first <= y
    BY <1>8, <1>11
  <2> QED
    BY <1>12, <2>1, MinIs
<1>14. pt.last = Max(at) + 1
  <2> DEFINE z == pt.last - 1
  <2>1. z \in at /\ \A y \in at : y <= z
    <3>1. \A i \in Real : o(i) <= z
      BY <1>3, <1>9, <1>11
    <3>2. \E i \in Real : z = o(i)
      BY <1>3, <1>9, <1>11
    <3> QED
      BY <1>8, <3>1, <3>2
  <2> HIDE DEF z
  <2>2. Max(at) = z
    BY <1>12, <2>1, MaxIs
  <2>3. z + 1 = pt.last
    BY <1>3 DEF z
  <2> QED
    BY <2>2, <2>3
<1> QED
  BY <1>13, <1>14 DEF at, pt

(***************************************************************************)
(* map_parent_span gives each piece the offsets of exactly the bytes it    *)
(* holds.                                                                  *)
(***************************************************************************)
THEOREM EncodeSpans == Spec => []SpansExact
BY PipelinePlacement, PlacementSpans, PTL

-------------------------------------------------------------------------------
(* Tokens without an inserted space. *)

\* A token of bytes from consecutive places of a text of n bytes from base on.
TokenPlaced(token, base, n) ==
    /\ token \in TokenSet /\ token.text # <<>> /\ Clean(token.text) /\ Steps(token.text)
    /\ \A i \in 1..Len(token.text) : token.text[i].src \in base..(base + n - 1)

Lo(token) == token.text[1].src
Hi(token) == token.text[Len(token.text)].src
NonSpaceAt(text) == {i \in 1..Len(text) : text[i].b \notin {"space", "g1", "g2"}}

\* Offsets, counted from base, that lie within the bytes of a token and hold
\* those that are not spaces; without trimming they hold all of them.
Inside(token, base, trim) ==
    /\ Lo(token) - base <= token.first /\ token.last <= Hi(token) - base + 1
    /\ \A i \in NonSpaceAt(token.text) :
          token.first <= token.text[i].src - base /\ token.text[i].src - base < token.last
    /\ ~trim => token.first = Lo(token) - base /\ token.last = Hi(token) - base + 1

LEMMA SpanPlaced ==
    ASSUME NEW base \in Nat, NEW n \in Nat, NEW pt, Placed(pt, base, n),
           NEW lo \in Nat, NEW hi \in Nat, lo < hi, hi <= Len(pt.text)
    PROVE  /\ SpanFirst(pt, lo) = pt.text[lo + 1].src - base
           /\ SpanLast(pt, lo, hi) = pt.text[hi].src - base + 1
<1> DEFINE x == pt.text
           L == Len(x)
           s(i) == x[i].src
           F(i) == SpanFirst(pt, i)
<1>1. /\ pt \in PreTokenSet /\ x \in Seq(Bytes) /\ L \in Nat /\ Steps(x)
      /\ \A i \in 1..L : s(i) \in base..(base + n - 1) /\ F(i - 1) = s(i) - base
  BY LenProperties DEF Placed, PreTokenSet
<1>2. lo + 1 \in 1..L /\ hi \in 1..L /\ lo + 1 <= hi /\ (lo + 1) - 1 = lo /\ hi - 1 \in Nat /\ hi > lo
  BY <1>1
<1>3. s(lo + 1) <= s(hi)
  BY <1>1, <1>2, StepsMonotone
<1> HIDE DEF F, s, L
<1>4. F(lo) = s(lo + 1) - base /\ F(hi - 1) = s(hi) - base /\ s(lo + 1) \in Int /\ s(hi) \in Int
  BY <1>1, <1>2
<1>5. /\ SpanLast(pt, lo, hi) \in {F(lo), F(hi - 1) + 1}
      /\ F(hi - 1) + 1 <= SpanLast(pt, lo, hi)
  BY <1>1, <1>2, SpanFacts DEF F
<1>6. SpanLast(pt, lo, hi) = F(hi - 1) + 1
  BY <1>3, <1>4, <1>5
<1>7. F(lo) = s(lo + 1) - base /\ SpanLast(pt, lo, hi) = s(hi) - base + 1
  BY <1>4, <1>6
<1> QED
  BY <1>7 DEF F, s

\* The tokens of a pre-token with exact offsets have exact offsets.
LEMMA TokenCutPlaced ==
    ASSUME NEW base \in Nat, NEW n \in Nat, NEW pt, Placed(pt, base, n),
           NEW c, NEW t, TokenCut(pt, c, t), NEW k \in 1..Len(t)
    PROVE  TokenPlaced(c[k], base, n) /\ Inside(c[k], base, FALSE)
<1> DEFINE lo == t[k][1]
           hi == t[k][2]
           x == pt.text
           token == TokenOf(pt, lo, hi)
           y == token.text
           m == hi - lo
<1>1. /\ pt \in PreTokenSet /\ x \in Seq(Bytes) /\ Clean(x) /\ Steps(x)
      /\ \A i \in 1..Len(x) : x[i].src \in base..(base + n - 1)
  BY DEF Placed, PreTokenSet
<1>2. /\ lo \in Nat /\ hi \in Nat /\ lo < hi /\ hi <= Len(x) /\ Len(x) \in Nat
      /\ lo \in Ends(x, TokenEnds(x)) /\ c[k] = token
  BY <1>1, TokenEndFacts
<1> HIDE DEF lo, hi
<1>3. /\ token \in TokenSet /\ token.first = SpanFirst(pt, lo) /\ token.last = SpanLast(pt, lo, hi)
      /\ Len(y) = m /\ \A i \in 1..m : y[i] = x[lo + i]
  BY <1>1, <1>2, TokenOfFacts
<1>4. m \in Nat /\ m # 0 /\ 1 \in 1..m /\ m \in 1..m /\ lo + m = hi /\ \A i \in 1..m : lo + i \in 1..Len(x)
  BY <1>2
<1>5. Clean(y)
  <2>1. y = SubSeq(x, lo + 1, hi)
    BY DEF TokenOf
  <2> QED
    BY <1>1, <1>2, <2>1, CleanSub
<1> HIDE DEF token
<1>6. Steps(y)
  <2>1. ASSUME NEW i \in 1..(m - 1) PROVE y[i + 1].src = y[i].src \/ y[i + 1].src = y[i].src + 1
    <3> DEFINE j == lo + i
    <3>1. i \in 1..m /\ i + 1 \in 1..m /\ lo + (i + 1) = j + 1 /\ j \in 1..(Len(x) - 1)
      BY <1>2, <1>4
    <3>2. y[i] = x[j] /\ y[i + 1] = x[j + 1]
      BY <1>3, <3>1
    <3> HIDE DEF j
    <3> QED
      BY <1>1, <3>1, <3>2 DEF Steps
  <2> QED
    BY <1>3, <2>1 DEF Steps
<1>7. y # <<>> /\ \A i \in 1..m : y[i].src \in base..(base + n - 1)
  <2>1. y # <<>>
    BY <1>3, <1>4, EmptySeq
  <2> QED
    BY <1>1, <1>3, <1>4, <2>1
<1>8. TokenPlaced(token, base, n)
  BY <1>3, <1>5, <1>6, <1>7 DEF TokenPlaced
<1>9. token.first = Lo(token) - base /\ token.last = Hi(token) - base + 1
  <2>1. Lo(token) = x[lo + 1].src /\ Hi(token) = x[hi].src
    BY <1>3, <1>4 DEF Lo, Hi
  <2> QED
    BY <1>2, <1>3, <2>1, SpanPlaced
<1>10. \A i \in 1..m : token.first <= y[i].src - base /\ y[i].src - base < token.last
  <2>1. ASSUME NEW i \in 1..m PROVE token.first <= y[i].src - base /\ y[i].src - base < token.last
    <3> DEFINE u == Lo(token)
               v == y[i].src
               w == Hi(token)
    <3>1. y \in Seq(Bytes) /\ 1 <= i /\ i <= m
      BY <1>3, <1>4 DEF TokenSet
    <3>2. u <= v /\ v <= w
      BY <1>3, <1>4, <1>6, <3>1, StepsMonotone DEF Lo, Hi
    <3>3. u \in Int /\ v \in Int /\ w \in Int
      <4>1. \A k1 \in 1..m : y[k1].src \in Int
        BY <1>7
      <4> QED
        BY <1>3, <1>4, <4>1 DEF Lo, Hi
    <3> HIDE DEF u, v, w
    <3>4. u - base <= v - base /\ v - base < w - base + 1
      BY <3>2, <3>3
    <3> QED
      BY <1>9, <3>4 DEF u, v, w
  <2> QED
    BY <2>1
<1>11. Inside(token, base, FALSE)
  <2> DEFINE a == Lo(token) - base
             z == Hi(token) - base + 1
  <2>1. a \in Int /\ z \in Int
    <3>1. \A k1 \in 1..m : y[k1].src \in Int
      BY <1>7
    <3> QED
      BY <1>3, <1>4, <3>1 DEF Lo, Hi
  <2>2. token.first = a /\ token.last = z
    BY <1>9
  <2> HIDE DEF a, z
  <2>3. a <= token.first /\ token.last <= z
    BY <2>1, <2>2
  <2> QED
    BY <1>3, <1>9, <1>10, <2>3 DEF Inside, NonSpaceAt, a, z
<1> QED
  BY <1>2, <1>8, <1>11

-------------------------------------------------------------------------------
(* The characters of a token. *)

CharPlace(token, k) == NthLeast({i \in DOMAIN token.text : token.text[i].b \notin {"g2", "m2"}}, k)

LEMMA CharFacts ==
    ASSUME NEW token \in TokenSet, NEW m, m = Len(White(token))
    PROVE  /\ \A k \in 1..m : /\ CharPlace(token, k) \in 1..Len(token.text)
                              /\ token.text[CharPlace(token, k)].b \notin Tails
                              /\ White(token)[k] <=> token.text[CharPlace(token, k)].b \in {"space", "g1"}
           /\ \A j, k \in 1..m : j < k => CharPlace(token, j) < CharPlace(token, k)
           /\ \A i \in 1..Len(token.text) :
                 token.text[i].b \notin Tails => \E k \in 1..m : i = CharPlace(token, k)
<1> DEFINE x == token.text
           K == {i \in DOMAIN x : x[i].b \notin {"g2", "m2"}}
<1>1. x \in Seq(Bytes) /\ DOMAIN x = 1..Len(x)
  BY LenProperties DEF TokenSet
<1>2. K \in SUBSET DOMAIN x /\ Chars(token) = Pick(x, K) /\ \A k : CharPlace(token, k) = NthLeast(K, k)
  BY DEF Chars, CharPlace
<1>3. /\ \A i \in 1..Len(x) : i \in K <=> x[i].b \notin Tails
      /\ \A i \in K : i \in 1..Len(x)
  BY <1>1 DEF Tails
<1> HIDE DEF K, x
<1>4. /\ AscendingOf(K) /\ Len(Pick(x, K)) = Cardinality(K)
      /\ \A k \in 1..Cardinality(K) : Pick(x, K)[k] = x[NthLeast(K, k)]
  BY <1>1, <1>2, PickFacts
<1>5. m = Cardinality(K)
  BY <1>2, <1>4, WhiteFacts
<1>6. /\ \A k \in 1..m : NthLeast(K, k) \in K
      /\ \A j, k \in 1..m : j < k => NthLeast(K, j) < NthLeast(K, k)
      /\ \A i \in K : \E k \in 1..m : i = NthLeast(K, k)
  BY <1>4, <1>5 DEF AscendingOf
<1>7. \A k \in 1..m : White(token)[k] <=> x[NthLeast(K, k)].b \in {"space", "g1"}
  <2>1. \A k \in 1..m : White(token)[k] <=> Chars(token)[k].b \in {"space", "g1"}
    BY WhiteFacts
  <2>2. \A k \in 1..m : Chars(token)[k] = x[NthLeast(K, k)]
    BY <1>2, <1>4, <1>5
  <2> QED
    BY <2>1, <2>2
<1> QED
  BY <1>2, <1>3, <1>6, <1>7 DEF x

\* The characters of a token, their sources, and where they are.
LEMMA CharSources ==
    ASSUME NEW base \in Nat, NEW n \in Nat, NEW token, TokenPlaced(token, base, n),
           NEW m, m = Len(White(token))
    PROVE  LET S(k) == token.text[CharPlace(token, k)].src
           IN /\ \A k \in 1..m : S(k) \in Int /\ Lo(token) <= S(k) /\ S(k) <= Hi(token)
              /\ \A j, k \in 1..m : j <= k => S(j) <= S(k)
              /\ \A j, k \in 1..m : j < k /\ (White(token)[j] \/ White(token)[k]) => S(j) + 1 <= S(k)
              /\ \A i \in NonSpaceAt(token.text) :
                    \E k \in 1..m : token.text[i].src = S(k) /\ ~White(token)[k]
              /\ \A k \in 1..m : ~White(token)[k] => NonSpaceAt(token.text) # {}
<1> DEFINE x == token.text
           L == Len(x)
           X(k) == CharPlace(token, k)
           S(k) == x[X(k)].src
           w == White(token)
<1>1. /\ token \in TokenSet /\ x \in Seq(Bytes) /\ x # <<>> /\ Clean(x) /\ Steps(x) /\ L \in Nat
      /\ \A i \in 1..L : x[i].src \in Int
  BY LenProperties DEF TokenPlaced, TokenSet
<1>2. 1 \in 1..L /\ L \in 1..L /\ \A i \in 1..L : 1 <= i /\ i <= L
  BY <1>1, EmptySeq
<1>3. /\ \A k \in 1..m : /\ X(k) \in 1..L /\ x[X(k)].b \notin Tails
                         /\ w[k] <=> x[X(k)].b \in {"space", "g1"}
      /\ \A j, k \in 1..m : j < k => X(j) < X(k)
      /\ \A i \in 1..L : x[i].b \notin Tails => \E k \in 1..m : i = X(k)
  BY <1>1, CharFacts
<1>4. m \in Nat
  BY <1>1, WhiteFacts
<1>5. \A i, j \in 1..L : i <= j => x[i].src <= x[j].src
  BY <1>1, StepsMonotone
<1>6. Lo(token) = x[1].src /\ Hi(token) = x[L].src
  BY DEF Lo, Hi
<1>7. NonSpaceAt(x) = {i \in 1..L : x[i].b \notin {"space", "g1", "g2"}}
  BY DEF NonSpaceAt
<1> SUFFICES /\ \A k \in 1..m : S(k) \in Int /\ Lo(token) <= S(k) /\ S(k) <= Hi(token)
             /\ \A j, k \in 1..m : j <= k => S(j) <= S(k)
             /\ \A j, k \in 1..m : j < k /\ (w[j] \/ w[k]) => S(j) + 1 <= S(k)
             /\ \A i \in NonSpaceAt(x) : \E k \in 1..m : x[i].src = S(k) /\ ~w[k]
             /\ \A k \in 1..m : ~w[k] => NonSpaceAt(x) # {}
  OBVIOUS
<1> HIDE DEF x, L, X, w
<1>8. \A k \in 1..m : S(k) \in Int /\ Lo(token) <= S(k) /\ S(k) <= Hi(token)
  BY <1>1, <1>2, <1>3, <1>5, <1>6
<1>9. ASSUME NEW j \in 1..m, NEW k \in 1..m, j <= k PROVE S(j) <= S(k)
  <2>1. X(j) <= X(k) /\ X(j) \in 1..L /\ X(k) \in 1..L
    <3>1. j = k \/ j < k
      BY <1>4, <1>9
    <3>2. X(j) \in 1..L /\ X(k) \in 1..L
      BY <1>3
    <3>3. j < k => X(j) < X(k)
      BY <1>3
    <3> QED
      BY <1>1, <3>1, <3>2, <3>3
  <2> QED
    BY <1>5, <2>1
<1>10. ASSUME NEW j \in 1..m, NEW k \in 1..m, j < k, w[j] \/ w[k] PROVE S(j) + 1 <= S(k)
  <2>1. /\ X(j) \in 1..L /\ X(k) \in 1..L /\ X(j) < X(k) /\ x[X(k)].b \notin Tails
        /\ x[X(j)].b \in {"space", "g1"} \/ x[X(k)].b \in {"space", "g1"}
    BY <1>3, <1>10
  <2> QED
    BY <1>1, <2>1, WhiteAlone DEF L
<1>11. ASSUME NEW i \in NonSpaceAt(x) PROVE \E k \in 1..m : x[i].src = S(k) /\ ~w[k]
  <2>1. i \in 1..L /\ x[i].b \notin {"space", "g1", "g2"}
    BY <1>7
  <2>2. CASE x[i].b \notin Tails
    <3>1. PICK k \in 1..m : i = X(k)
      BY <1>3, <2>1, <2>2
    <3> QED
      BY <1>3, <2>1, <3>1
  <2>3. CASE x[i].b \in Tails
    <3> DEFINE h == i - 1
    <3>1. i # 1
      BY <1>1, <2>3 DEF Clean
    <3>2. h \in 1..(L - 1) /\ h + 1 = i /\ h \in 1..L
      BY <1>1, <2>1, <3>1
    <3> HIDE DEF h
    <3>3. x[i].src = x[h].src /\ Spelled(x[h].b, x[i].b)
      BY <1>1, <2>3, <3>2 DEF Clean, L
    <3>4. x[h].b = "m1"
      BY <2>1, <2>3, <3>3 DEF Tails, Spelled
    <3>5. x[h].b \notin Tails /\ x[h].b \notin {"space", "g1"}
      BY <3>4 DEF Tails
    <3>6. PICK k \in 1..m : h = X(k)
      BY <1>3, <3>2, <3>5
    <3> QED
      BY <1>3, <3>3, <3>5, <3>6
  <2> QED
    BY <2>2, <2>3
<1>12. ASSUME NEW k \in 1..m, ~w[k] PROVE NonSpaceAt(x) # {}
  <2>1. X(k) \in 1..L /\ x[X(k)].b \notin {"space", "g1", "g2"}
    BY <1>3, <1>12 DEF Tails
  <2> QED
    BY <1>7, <2>1
<1> HIDE DEF S
<1> QED
  BY <1>8, <1>9, <1>10, <1>11, <1>12

\* Every white character at either end is a byte of its own.
LEMMA TrimRange ==
    ASSUME NEW base \in Nat, NEW n \in Nat, NEW token, TokenPlaced(token, base, n)
    PROVE  /\ LeadWhite(token) \in Nat /\ TailWhite(token) \in Nat
           /\ \A i \in NonSpaceAt(token.text) :
                 /\ Lo(token) + LeadWhite(token) <= token.text[i].src
                 /\ token.text[i].src <= Hi(token) - TailWhite(token)
           /\ NonSpaceAt(token.text) = {} => TailWhite(token) = 0
<1> DEFINE m == Len(White(token))
           w(k) == White(token)[k]
           S(k) == token.text[CharPlace(token, k)].src
           N == NonSpaceAt(token.text)
           f == LeadWhite(token)
           t == TailWhite(token)
           lo == Lo(token)
           hi == Hi(token)
           s(i) == token.text[i].src
<1>1. token \in TokenSet
  BY DEF TokenPlaced
<1>2. m \in Nat
  BY <1>1, WhiteFacts
<1>3. /\ \A k \in 1..m : S(k) \in Int /\ lo <= S(k) /\ S(k) <= hi
      /\ \A j, k \in 1..m : j <= k => S(j) <= S(k)
      /\ \A j, k \in 1..m : j < k /\ (w(j) \/ w(k)) => S(j) + 1 <= S(k)
      /\ \A i \in N : \E k \in 1..m : s(i) = S(k) /\ ~w(k)
      /\ \A k \in 1..m : ~w(k) => N # {}
  BY CharSources
<1>4. lo \in Int /\ hi \in Int
  <2>1. token.text \in Seq(Bytes) /\ token.text # <<>>
    BY DEF TokenPlaced, TokenSet
  <2>2. 1 \in 1..Len(token.text) /\ Len(token.text) \in 1..Len(token.text)
    BY <2>1, EmptySeq, LenProperties
  <2> QED
    BY <2>2 DEF TokenPlaced, Lo, Hi
<1>5. /\ f \in 0..m /\ t \in 0..(m - f)
      /\ \A k \in 1..f : w(k)
      /\ f < m => ~w(f + 1)
      /\ \A k \in 1..t : w(m - k + 1)
  <2> DEFINE v == Reverse(White(token))
             r == RunLength(v)
  <2>1. f \in 0..m /\ t \in 0..(m - f) /\ t <= r
    BY <1>1, TrimFacts
  <2>2. (\A k \in 1..f : w(k)) /\ (f < m => ~w(f + 1))
    BY <1>2, RunLengthFacts DEF LeadWhite
  <2>3. Len(v) = m /\ \A k \in 1..m : v[k] = w(m - k + 1)
    BY <1>1, WhiteFacts
  <2> HIDE DEF v, m, w, f, t
  <2>4. r \in 0..m /\ \A k \in 1..r : v[k]
    BY <1>2, <2>3, RunLengthFacts
  <2>5. \A k \in 1..t : k \in 1..r /\ k \in 1..m
    BY <1>2, <2>1, <2>4
  <2>6. \A k \in 1..t : w(m - k + 1)
    BY <2>3, <2>4, <2>5
  <2> QED
    BY <2>1, <2>2, <2>6
<1> HIDE DEF m, w, S, N, f, t, lo, hi, s
<1>6. \A k \in 0..f : k + 1 <= m => lo + k <= S(k + 1)
  <2> DEFINE T == {k \in 0..f : k + 1 <= m => lo + k <= S(k + 1)}
  <2>1. 0 \in T
    <3>1. 0 + 1 <= m => 1 \in 1..m
      BY <1>2
    <3>2. 0 + 1 <= m => lo <= S(1)
      BY <1>3, <3>1
    <3>3. lo + 0 = lo /\ 0 + 1 = 1 /\ 0 \in 0..f
      BY <1>2, <1>4, <1>5
    <3> QED
      BY <3>2, <3>3
  <2>2. ASSUME NEW k \in 1..f, k - 1 \in T PROVE k \in T
    <3>1. ASSUME k + 1 <= m PROVE lo + k <= S(k + 1)
      <4>1. k \in 1..m /\ k + 1 \in 1..m /\ (k - 1) + 1 = k /\ (k - 1) + 1 <= m /\ k < k + 1
        BY <1>2, <1>5, <3>1
      <4>2. lo + (k - 1) <= S(k)
        BY <2>2, <4>1
      <4>3. S(k) + 1 <= S(k + 1) /\ S(k) \in Int /\ S(k + 1) \in Int
        BY <1>3, <1>5, <4>1
      <4> QED
        BY <1>4, <4>2, <4>3
    <3>2. k \in 0..f
      BY <1>2, <1>5
    <3> QED
      BY <3>1, <3>2
  <2>3. f \in Nat
    BY <1>2, <1>5
  <2> HIDE DEF T
  <2>4. \A k \in 0..f : k \in T
    BY <2>1, <2>2, <2>3, InductUpto
  <2> QED
    BY <2>4 DEF T
<1>7. \A k \in 0..t : m - k >= 1 => S(m - k) <= hi - k
  <2> DEFINE T == {k \in 0..t : m - k >= 1 => S(m - k) <= hi - k}
  <2>1. 0 \in T
    <3>1. m - 0 >= 1 => m \in 1..m
      BY <1>2
    <3>2. m - 0 >= 1 => S(m) <= hi
      BY <1>3, <3>1
    <3>3. hi - 0 = hi /\ m - 0 = m /\ 0 \in 0..t
      BY <1>2, <1>4, <1>5
    <3> QED
      BY <3>2, <3>3
  <2>2. ASSUME NEW k \in 1..t, k - 1 \in T PROVE k \in T
    <3>1. ASSUME m - k >= 1 PROVE S(m - k) <= hi - k
      <4> DEFINE j == m - k
      <4>1. j \in 1..m /\ j + 1 \in 1..m /\ m - (k - 1) = j + 1 /\ m - (k - 1) >= 1 /\ j < j + 1 /\ m - k + 1 = j + 1
        BY <1>2, <1>5, <3>1
      <4>2. S(j + 1) <= hi - (k - 1) /\ w(j + 1)
        BY <1>5, <2>2, <4>1
      <4> HIDE DEF j
      <4>3. S(j) + 1 <= S(j + 1) /\ S(j) \in Int /\ S(j + 1) \in Int
        BY <1>3, <4>1, <4>2
      <4>4. S(j) <= hi - k
        BY <1>4, <4>2, <4>3
      <4> QED
        BY <4>4 DEF j
    <3>2. k \in 0..t
      BY <1>2, <1>5
    <3> QED
      BY <3>1, <3>2
  <2>3. t \in Nat
    BY <1>2, <1>5
  <2> HIDE DEF T
  <2>4. \A k \in 0..t : k \in T
    BY <2>1, <2>2, <2>3, InductUpto
  <2> QED
    BY <2>4 DEF T
<1>8. ASSUME NEW i \in N PROVE lo + f <= s(i) /\ s(i) <= hi - t
  <2>1. PICK j \in 1..m : s(i) = S(j) /\ ~w(j)
    BY <1>3
  <2>2. f + 1 <= j
    <3>1. ~(j \in 1..f)
      BY <1>5, <2>1
    <3> QED
      BY <1>2, <1>5, <3>1
  <2>3. j <= m - t
    <3>1. ASSUME j > m - t PROVE FALSE
      <4> DEFINE k == m - j + 1
      <4>1. k \in 1..t /\ m - k + 1 = j
        BY <1>2, <1>5, <3>1
      <4> HIDE DEF k
      <4> QED
        BY <1>5, <2>1, <4>1
    <3> QED
      BY <1>2, <1>5, <3>1
  <2>4. f \in 0..f /\ f + 1 <= m /\ f + 1 \in 1..m /\ t \in 0..t /\ m - t >= 1 /\ m - t \in 1..m
    BY <1>2, <1>5, <2>2, <2>3
  <2>5. lo + f <= S(f + 1) /\ S(f + 1) <= S(j)
    BY <1>3, <1>6, <2>2, <2>4
  <2>6. S(m - t) <= hi - t /\ S(j) <= S(m - t)
    BY <1>3, <1>7, <2>3, <2>4
  <2>7. S(j) \in Int /\ S(f + 1) \in Int /\ S(m - t) \in Int /\ f \in Int /\ t \in Int
    BY <1>3, <1>5, <2>4
  <2> DEFINE a == S(f + 1)
             b == S(m - t)
             c == S(j)
  <2> HIDE DEF a, b, c
  <2>8. lo + f <= c /\ c <= hi - t
    BY <1>4, <2>5, <2>6, <2>7 DEF a, b, c
  <2> QED
    BY <2>1, <2>8 DEF c
<1>9. ASSUME N = {} PROVE t = 0
  <2>1. ~(f < m)
    <3>1. f < m => f + 1 \in 1..m
      BY <1>2, <1>5
    <3> QED
      BY <1>3, <1>5, <1>9, <3>1
  <2> QED
    BY <1>2, <1>5, <2>1
<1>10. f \in Nat /\ t \in Nat
  BY <1>2, <1>5
<1> QED
  BY <1>8, <1>9, <1>10 DEF N, f, t, lo, hi, s

LEMMA PlacedRange ==
    ASSUME NEW base \in Nat, NEW n \in Nat, NEW token, TokenPlaced(token, base, n)
    PROVE  /\ Lo(token) \in base..(base + n - 1) /\ Hi(token) \in base..(base + n - 1)
           /\ \A i \in NonSpaceAt(token.text) : token.text[i].src \in base..(base + n - 1)
           /\ \A i \in 1..Len(token.text) : Lo(token) <= token.text[i].src /\ token.text[i].src <= Hi(token)
           /\ token.first \in Int /\ token.last \in Int /\ n # 0 /\ Lo(token) <= Hi(token)
<1> DEFINE x == token.text
           L == Len(x)
<1>1. /\ x \in Seq(Bytes) /\ x # <<>> /\ Steps(x) /\ L \in Nat
      /\ \A i \in 1..L : x[i].src \in base..(base + n - 1)
      /\ token.first \in Int /\ token.last \in Int
  BY LenProperties DEF TokenPlaced, TokenSet
<1>2. 1 \in 1..L /\ L \in 1..L /\ \A i \in 1..L : 1 <= i /\ i <= L
  BY <1>1, EmptySeq
<1>3. Lo(token) = x[1].src /\ Hi(token) = x[L].src /\ \A i \in NonSpaceAt(x) : i \in 1..L
  BY DEF Lo, Hi, NonSpaceAt
<1>4. \A i, j \in 1..L : i <= j => x[i].src <= x[j].src
  BY <1>1, StepsMonotone
<1>5. n # 0
  BY <1>1, <1>2
<1> HIDE DEF L
<1> QED
  BY <1>1, <1>2, <1>3, <1>4, <1>5 DEF L

\* Trimming keeps offsets within the bytes of a token.
LEMMA TrimInside ==
    ASSUME NEW base \in Nat, NEW n \in Nat, NEW token, TokenPlaced(token, base, n),
           Inside(token, base, FALSE), NEW index, NEW prefix, NEW new, new = Trim(token, index, prefix)
    PROVE  TokenPlaced(new, base, n) /\ Inside(new, base, TRUE) /\ 1 <= new.last
<1> DEFINE f == LeadWhite(token)
           t == TailWhite(token)
           lo == Lo(token)
           hi == Hi(token)
           N == NonSpaceAt(token.text)
           s(i) == token.text[i].src
           a == token.first
           z == token.last
<1>1. token \in TokenSet
  BY DEF TokenPlaced
<1>2. PICK l \in {0, f} : TrimmedBy(new, token, l, t)
  BY <1>1, TrimFacts
<1>3. /\ f \in Nat /\ t \in Nat
      /\ \A i \in N : lo + f <= s(i) /\ s(i) <= hi - t
      /\ N = {} => t = 0
  BY TrimRange
<1>4. lo \in base..(base + n - 1) /\ hi \in base..(base + n - 1) /\ lo <= hi
      /\ \A i \in N : s(i) \in base..(base + n - 1)
  BY PlacedRange
<1>5. a = lo - base /\ z = hi - base + 1
  BY DEF Inside
<1>6. new \in TokenSet /\ new.text = token.text
      /\ new.first = Min({a + l, z})
      /\ new.last = IF z >= new.first + t THEN z - t ELSE new.first
  BY <1>2 DEF TrimmedBy
<1>7. TokenPlaced(new, base, n)
  BY <1>6 DEF TokenPlaced
<1>8. lo = Lo(new) /\ hi = Hi(new) /\ N = NonSpaceAt(new.text) /\ \A i \in N : s(i) = new.text[i].src
  BY <1>6 DEF Lo, Hi
<1>9. l \in Nat /\ l <= f
  BY <1>3
<1> DEFINE nf == new.first
           nl == new.last
           u == a + l
<1>10. nf = Min({u, z}) /\ nl = IF z >= nf + t THEN z - t ELSE nf
  BY <1>6
<1> HIDE DEF f, t, lo, hi, N, s, nf, nl, a, z
<1>11. a \in Int /\ z \in Int /\ u \in Int /\ a >= 0 /\ z >= 1
  BY <1>4, <1>5, <1>9
<1> HIDE DEF u
<1>12. Min({u, z}) \in {u, z} /\ Min({u, z}) <= u /\ Min({u, z}) <= z
  BY <1>11, MinOfTwo
<1>13. nf \in {u, z} /\ nf <= u /\ nf <= z /\ nf \in Int
  BY <1>10, <1>11, <1>12
<1>14. CASE N # {}
  <2>1. PICK i \in N : TRUE
    BY <1>14
  <2>2. lo + f <= s(i) /\ s(i) <= hi - t /\ s(i) \in Int
    BY <1>3, <1>4
  <2>3. u <= z - 1 - t
    BY <1>3, <1>4, <1>5, <1>9, <2>2 DEF u
  <2>4. nf = u
    BY <1>3, <1>11, <1>13, <2>3
  <2>5. nl = z - t
    BY <1>3, <1>10, <1>11, <2>3, <2>4
  <2>6. lo - base <= nf /\ nl <= hi - base + 1 /\ 1 <= nl
    BY <1>3, <1>4, <1>5, <1>9, <2>3, <2>4, <2>5 DEF u
  <2>7. ASSUME NEW k \in N PROVE nf <= s(k) - base /\ s(k) - base < nl
    <3>1. lo + f <= s(k) /\ s(k) <= hi - t /\ s(k) \in Int
      BY <1>3, <1>4
    <3> QED
      BY <1>3, <1>4, <1>5, <1>9, <2>4, <2>5, <3>1 DEF u
  <2>8. Inside(new, base, TRUE)
    BY <1>8, <2>6, <2>7 DEF Inside, nf, nl
  <2> QED
    BY <1>7, <2>6, <2>8 DEF nl
<1>15. CASE N = {}
  <2>1. t = 0
    BY <1>3, <1>15
  <2>2. nl = z
    BY <1>10, <1>11, <1>13, <2>1
  <2>3. lo - base <= nf
    BY <1>4, <1>5, <1>9, <1>13 DEF u
  <2>4. nl <= hi - base + 1 /\ 1 <= nl
    BY <1>4, <1>5, <2>2
  <2>5. Inside(new, base, TRUE)
    BY <1>8, <1>15, <2>3, <2>4 DEF Inside, nf, nl
  <2> QED
    BY <1>7, <2>4, <2>5 DEF nl
<1> QED
  BY <1>14, <1>15

\* The mapping back keeps offsets within the bytes of a token.
LEMMA AlignInside ==
    ASSUME NEW x, NEW m \in Nat, NEW base, Contiguous(x, m, base), NEW n \in Nat, n = Len(x.bytes),
           NEW token, TokenPlaced(token, base, n), TokenBounded(token, n), 1 <= token.last,
           NEW trim, Inside(token, base, trim), NEW s, NEW e,
           s = AlignToOriginal(x.align, token.first, token.last)[1],
           e = AlignToOriginal(x.align, token.first, token.last)[2],
           NEW new, new = [token EXCEPT !.first = s, !.last = e]
    PROVE  TokenPlaced(new, base, n) /\ Inside(new, 0, trim)
<1> DEFINE first == token.first
           last == token.last
           lo == Lo(token)
           hi == Hi(token)
           N == NonSpaceAt(token.text)
           src(i) == token.text[i].src
<1>1. base \in Nat
  BY DEF Contiguous
<1>2. first \in 0..(n + 1) /\ last \in 0..(n + 1) /\ first <= last /\ token \in TokenSet
  BY DEF TokenBounded
<1>3. /\ AlignToOriginal(x.align, first, last)[1] = s
      /\ AlignToOriginal(x.align, first, last)[2] = e
  OBVIOUS
<1>4. /\ lo \in base..(base + n - 1) /\ hi \in base..(base + n - 1) /\ n # 0
      /\ \A i \in N : src(i) \in base..(base + n - 1)
  BY <1>1, PlacedRange
<1>5. /\ lo - base <= first /\ last <= hi - base + 1
      /\ \A i \in N : first <= src(i) - base /\ src(i) - base < last
      /\ ~trim => first = lo - base /\ last = hi - base + 1
  BY DEF Inside
<1>6. 1 <= last
  OBVIOUS
<1> HIDE DEF first, last
<1>7. Aligned(s, e, n, base, first, last)
  BY <1>1, <1>2, <1>3, AlignFacts
<1> HIDE DEF lo, hi, N, src
<1>8. last \in 1..n
  BY <1>1, <1>2, <1>4, <1>5, <1>6
<1>9. e = base + last /\ s = IF first < n THEN base + first ELSE base + n - 1
  BY <1>4, <1>7, <1>8 DEF Aligned
<1>10. s \in Int /\ e \in Int
  BY <1>1, <1>2, <1>9
<1>11. new \in TokenSet /\ new.first = s /\ new.last = e /\ new.text = token.text
  BY <1>2, <1>10 DEF TokenSet
<1>12. TokenPlaced(new, base, n)
  BY <1>11 DEF TokenPlaced
<1>13. lo <= s /\ e <= hi + 1
  BY <1>1, <1>2, <1>4, <1>5, <1>9
<1>14. ASSUME NEW i \in N PROVE s <= src(i) /\ src(i) < e
  <2>1. src(i) \in base..(base + n - 1) /\ first <= src(i) - base /\ src(i) - base < last
    BY <1>4, <1>5
  <2> QED
    BY <1>1, <1>2, <1>9, <2>1
<1>15. ASSUME ~trim PROVE s = lo /\ e = hi + 1
  <2>1. first = lo - base /\ last = hi - base + 1
    BY <1>5, <1>15
  <2>2. lo \in Int /\ lo <= base + n - 1 /\ hi \in Int
    BY <1>1, <1>4
  <2>3. first < n
    BY <1>1, <2>1, <2>2
  <2>4. s = base + first
    BY <1>9, <2>3
  <2> QED
    BY <1>1, <1>9, <2>1, <2>2, <2>4
<1>16. lo = Lo(new) /\ hi = Hi(new) /\ N = NonSpaceAt(new.text) /\ \A i \in N : src(i) = new.text[i].src
  BY <1>11 DEF Lo, Hi, lo, hi, N, src
<1>17. \A i \in N : src(i) - 0 = src(i)
  BY <1>4
<1>18. Inside(new, 0, trim)
  <2>1. lo - 0 = lo /\ hi - 0 + 1 = hi + 1
    BY <1>4
  <2> QED
    BY <1>11, <1>13, <1>14, <1>15, <1>16, <1>17, <2>1 DEF Inside
<1> QED
  BY <1>12, <1>18

\* Every token is traced back to the bytes it was made of.
Tracing ==
    NoPrefix =>
       LET b == Base(ns)
           n == Len(ns.bytes)
       IN \A k \in 1..Len(tokens) :
             /\ TokenPlaced(tokens[k], b, n)
             /\ stage = "process" => Inside(tokens[k], b, FALSE)
             /\ stage = "align" => Inside(tokens[k], b, config.post.trim) /\ 1 <= tokens[k].last
             /\ stage \in {"truncate", "done"} => Inside(tokens[k], 0, config.post.trim)

Traced(base, n) == {x \in TokenSet : TokenPlaced(x, base, n) /\ Inside(x, base, FALSE)}

LEMMA TokenizationTraced ==
    ASSUME NEW base \in Nat, NEW n \in Nat, NEW pt, Settled(pt, base, n), NEW c \in Tokenizations(pt)
    PROVE  c \in Seq(Traced(base, n))
<1> DEFINE S == Traced(base, n)
<1>1. pt \in PreTokenSet
  BY DEF Settled
<1>2. ASSUME c = <<>> PROVE c \in Seq(S)
  BY <1>2, EmptySeq
<1>3. ASSUME NEW t, TokenCut(pt, c, t) PROVE c \in Seq(S)
  <2>1. Len(t) \in Nat /\ c = [k \in 1..Len(t) |-> TokenOf(pt, t[k][1], t[k][2])]
    BY <1>3, LenProperties DEF TokenCut
  <2>2. Placed(pt, base, n)
    BY <1>3 DEF TokenCut, Settled
  <2>3. \A k \in 1..Len(t) : c[k] \in S
    <3>1. \A k \in 1..Len(t) : TokenPlaced(c[k], base, n) /\ Inside(c[k], base, FALSE)
      BY <1>3, <2>2, TokenCutPlaced
    <3> QED
      BY <3>1 DEF Traced, TokenPlaced
  <2>4. DOMAIN c = 1..Len(t) /\ c = [k \in 1..Len(t) |-> c[k]]
    BY <2>1
  <2> HIDE DEF S
  <2> QED
    BY <2>1, <2>3, <2>4
<1> QED
  BY <1>1, <1>2, <1>3, TokenizationFacts

LEMMA TracingTokenize == Shape /\ Placement /\ Tokenize => Tracing'
<1> SUFFICES ASSUME Shape, Placement, Tokenize, NoPrefix' PROVE Tracing'
  BY DEF Tracing
<1> DEFINE n == Len(ns.bytes)
           b == Base(ns)
           S == Traced(b, n)
           R == [k \in DOMAIN pretokens |-> Tokenizations(pretokens[k])]
           m == Len(pretokens)
<1>1. /\ n \in Nat /\ b \in Nat /\ m \in Nat /\ DOMAIN pretokens = 1..m
  BY BaseFacts, LenProperties DEF Shape
<1>2. /\ tokens' \in Concatenations(R) /\ stage' = "process"
      /\ UNCHANGED <<original, config, ns, pretokens>>
  BY DEF Tokenize
<1>3. NoPrefix /\ PrefixLast
  BY <1>2 DEF NoPrefix, PrefixLast
<1>4. ASSUME NEW k \in 1..m PROVE R[k] \in SUBSET Seq(S)
  <2> DEFINE pt == pretokens[k]
  <2>1. Settled(pt, b, n)
    BY <1>3 DEF Placement
  <2>2. R[k] = Tokenizations(pt)
    BY <1>1
  <2> HIDE DEF pt, R, n, b
  <2>3. \A c \in Tokenizations(pt) : c \in Seq(Traced(b, n))
    BY <1>1, <2>1, TokenizationTraced
  <2> QED
    BY <2>2, <2>3
<1>5. DOMAIN R = 1..m
  BY <1>1
<1> HIDE DEF R, S, m
<1>6. tokens' \in Seq(S)
  BY <1>1, <1>2, <1>4, <1>5, ConcatenationsSeq
<1>7. ASSUME NEW k \in 1..Len(tokens') PROVE TokenPlaced(tokens'[k], b, n) /\ Inside(tokens'[k], b, FALSE)
  <2>1. tokens'[k] \in S
    BY <1>6, LenProperties, ElementOfSeq
  <2> QED
    BY <2>1 DEF S, Traced
<1> QED
  BY <1>2, <1>7 DEF Tracing

LEMMA TracingProcess == Shape /\ Tracing /\ Process => Tracing'
<1> SUFFICES ASSUME Shape, Tracing, Process, NoPrefix' PROVE Tracing'
  BY DEF Tracing
<1> DEFINE n == Len(ns.bytes)
           b == Base(ns)
           m == Len(tokens)
           trim == config.post.trim
           prefix == config.post.prefix
           D(k) == Trim(tokens[k], k, prefix)
<1>1. /\ n \in Nat /\ b \in Nat /\ m \in Nat /\ DOMAIN tokens = 1..m /\ trim \in BOOLEAN
  BY BaseFacts, ConfigFacts, LenProperties DEF Shape, Process
<1>2. /\ stage = "process" /\ stage' = "align" /\ UNCHANGED <<original, config, ran, ns, pretokens>>
      /\ tokens' = IF trim THEN [k \in 1..m |-> D(k)] ELSE tokens
  BY <1>1 DEF Process
<1>3. NoPrefix
  BY <1>2 DEF NoPrefix
<1>4. ASSUME NEW k \in 1..m
      PROVE  TokenPlaced(tokens[k], b, n) /\ Inside(tokens[k], b, FALSE)
  BY <1>2, <1>3 DEF Tracing
<1>5. ASSUME NEW k \in 1..Len(tokens')
      PROVE  TokenPlaced(tokens'[k], b, n) /\ Inside(tokens'[k], b, trim) /\ 1 <= tokens'[k].last
  <2>1. CASE trim
    <3> DEFINE token == tokens[k]
               new == Trim(token, k, prefix)
    <3>1. tokens' = [j \in 1..m |-> D(j)]
      BY <1>2, <2>1
    <3>2. k \in 1..m
      <4> HIDE DEF D, m
      <4> QED
        BY <1>1, <3>1
    <3>3. tokens'[k] = new
      BY <3>1, <3>2
    <3>4. TokenPlaced(token, b, n) /\ Inside(token, b, FALSE)
      BY <1>4, <3>2
    <3>5. new = Trim(token, k, prefix)
      OBVIOUS
    <3> HIDE DEF token, new, n, b, prefix, D, m
    <3>6. TokenPlaced(new, b, n) /\ Inside(new, b, TRUE) /\ 1 <= new.last
      BY <1>1, <3>4, <3>5, TrimInside
    <3>7. Inside(new, b, trim)
      BY <2>1, <3>6 DEF Inside
    <3> QED
      BY <3>3, <3>6, <3>7
  <2>2. CASE ~trim
    <3> DEFINE token == tokens[k]
               hi == Hi(token)
    <3>1. k \in 1..m /\ tokens'[k] = token
      BY <1>2, <2>2
    <3>2. TokenPlaced(token, b, n) /\ Inside(token, b, FALSE)
      BY <1>4, <3>1
    <3> HIDE DEF token, n, b
    <3>3. hi \in b..(b + n - 1) /\ token.last = hi - b + 1
      BY <1>1, <3>2, PlacedRange DEF Inside
    <3> HIDE DEF hi
    <3>4. 1 <= token.last
      BY <1>1, <3>3
    <3>5. Inside(token, b, trim)
      BY <2>2, <3>2 DEF Inside
    <3> QED
      BY <3>1, <3>2, <3>4, <3>5
  <2> QED
    BY <2>1, <2>2
<1> QED
  BY <1>2, <1>5 DEF Tracing

LEMMA TracingAlign == Shape /\ Tracing /\ Align => Tracing'
<1> SUFFICES ASSUME Shape, Tracing, Align, NoPrefix' PROVE Tracing'
  BY DEF Tracing
<1> DEFINE n == Len(ns.bytes)
           b == Base(ns)
           m == Len(tokens)
           trim == config.post.trim
           L == Len(original)
           o(k) == AlignToOriginal(ns.align, tokens[k].first, tokens[k].last)
           D(k) == [tokens[k] EXCEPT !.first = o(k)[1], !.last = o(k)[2]]
<1>1. /\ n \in Nat /\ b \in Nat /\ L \in Nat /\ m \in Nat /\ DOMAIN tokens = 1..m
      /\ Contiguous(ns, L, b)
      /\ \A k \in 1..m : TokenBounded(tokens[k], n)
  <2>1. tokens \in Seq(BoundedTokens(n))
    BY DEF Shape, Align
  <2>2. \A k \in 1..m : tokens[k] \in BoundedTokens(n)
    BY <2>1, LenProperties, ElementOfSeq
  <2> QED
    BY <2>1, <2>2, BaseFacts, LenProperties DEF Shape, BoundedTokens
<1>2. /\ stage = "align" /\ stage' = "truncate" /\ UNCHANGED <<original, config, ran, ns, pretokens>>
      /\ tokens' = [k \in 1..m |-> D(k)]
  BY <1>1 DEF Align
<1>3. NoPrefix
  BY <1>2 DEF NoPrefix
<1>4. ASSUME NEW k \in 1..Len(tokens')
      PROVE  TokenPlaced(tokens'[k], b, n) /\ Inside(tokens'[k], 0, trim)
  <2> DEFINE token == tokens[k]
             x == ns
             s == AlignToOriginal(x.align, token.first, token.last)[1]
             e == AlignToOriginal(x.align, token.first, token.last)[2]
             new == [token EXCEPT !.first = s, !.last = e]
  <2>1. k \in 1..m
    <3> HIDE DEF D, m
    <3> QED
      BY <1>1, <1>2
  <2>2. tokens'[k] = new
    BY <1>2, <2>1
  <2>3. TokenPlaced(token, b, n) /\ Inside(token, b, trim) /\ 1 <= token.last
    BY <1>2, <1>3, <2>1 DEF Tracing
  <2>4. TokenBounded(token, n) /\ Contiguous(x, L, b) /\ n = Len(x.bytes)
    BY <1>1, <2>1
  <2>5. new = [token EXCEPT !.first = s, !.last = e]
    OBVIOUS
  <2>6. s = AlignToOriginal(x.align, token.first, token.last)[1]
        /\ e = AlignToOriginal(x.align, token.first, token.last)[2]
    OBVIOUS
  <2> HIDE DEF token, x, b, n, s, e, new, L, trim
  <2>7. TokenPlaced(new, b, n) /\ Inside(new, 0, trim)
    BY <1>1, <2>3, <2>4, <2>5, <2>6, AlignInside
  <2> QED
    BY <2>2, <2>7
<1> QED
  BY <1>2, <1>4 DEF Tracing

LEMMA TracingTruncate == Shape /\ Tracing /\ Truncate => Tracing'
<1> SUFFICES ASSUME Shape, Tracing, Truncate, NoPrefix' PROVE Tracing'
  BY DEF Tracing
<1>1. /\ stage = "truncate" /\ stage' = "done" /\ UNCHANGED <<original, config, ran, ns, pretokens>>
  BY DEF Truncate
<1>2. NoPrefix /\ tokens \in Seq(FinishedTokens(Len(original)))
  BY <1>1 DEF NoPrefix, Shape
<1>3. PICK l \in Nat, h \in Nat : l <= h /\ h <= Len(tokens) /\ tokens' = SubSeq(tokens, l + 1, h)
  BY TruncateFacts
<1>4. Len(tokens') = h - l /\ \A k \in 1..(h - l) : tokens'[k] = tokens[l + k]
  BY <1>2, <1>3, SubSeqAt
<1>5. \A k \in 1..(h - l) : l + k \in 1..Len(tokens)
  <2>1. Len(tokens) \in Nat
    BY <1>2, LenProperties
  <2> QED
    BY <1>3, <2>1
<1> QED
  BY <1>1, <1>2, <1>4, <1>5 DEF Tracing

LEMMA TracingNext == Shape /\ Placement /\ Tracing /\ [Next]_vars => Tracing'
<1> SUFFICES ASSUME Shape, Placement, Tracing, [Next]_vars PROVE Tracing'
  OBVIOUS
<1>1. CASE Normalize \/ Normalization \/ PreTokenize
  <2>1. tokens' = <<>>
    BY <1>1 DEF Normalize, Normalization, PreTokenize, Shape
  <2>2. Len(tokens') = 0
    BY <2>1, EmptySeq
  <2> QED
    BY <2>2 DEF Tracing
<1>2. CASE Terminating \/ UNCHANGED vars
  <2>1. UNCHANGED <<original, config, ran, ns, pretokens, tokens, stage>>
    BY <1>2 DEF Terminating, vars
  <2> QED
    BY <2>1 DEF Tracing, NoPrefix
<1> QED
  BY <1>1, <1>2, TracingTokenize, TracingProcess, TracingAlign, TracingTruncate DEF Next

LEMMA TracingInit == Init => Tracing
<1> SUFFICES ASSUME Init PROVE Tracing
  OBVIOUS
<1>1. Len(tokens) = 0
  BY EmptySeq DEF Init
<1> QED
  BY <1>1 DEF Tracing

(***************************************************************************)
(* Without an inserted space, the bytes of each token are those its        *)
(* offsets name; trimming takes only spaces off, and the mapping back      *)
(* moves both by the same distance.                                        *)
(***************************************************************************)
THEOREM PipelineTracing == Spec => [](Shape /\ Placement /\ Tracing)
<1>1. Init => Shape /\ Placement /\ Tracing
  BY ShapeInit, PlacementInit, TracingInit
<1>2. (Shape /\ Placement /\ Tracing) /\ [Next]_vars => (Shape /\ Placement /\ Tracing)'
  BY ShapeNext, PlacementNext, TracingNext
<1> QED
  BY <1>1, <1>2, PTL DEF Spec

LEMMA TracingTraceable == Shape /\ Tracing => Traceable
<1> DEFINE Goal(token, trim) ==
              LET all  == Sources(token.text)
                  kept == NonSpace(token.text)
                  span == token.first..(token.last - 1)
              IN all # {} =>
                   /\ span \subseteq Min(all)..Max(all)
                   /\ kept \subseteq span
                   /\ ~trim => span = Min(all)..Max(all)
<1> SUFFICES ASSUME Shape, Tracing, stage \in {"truncate", "done"}, NoPrefix, NEW k \in DOMAIN tokens
             PROVE  Goal(tokens[k], config.post.trim)
  BY DEF Traceable
<1> DEFINE token == tokens[k]
           trim == config.post.trim
           x == token.text
           L == Len(x)
           b == Base(ns)
           n == Len(ns.bytes)
           lo == Lo(token)
           hi == Hi(token)
           all == Sources(x)
           s(i) == x[i].src
<1>1. k \in 1..Len(tokens) /\ TokenPlaced(token, b, n) /\ Inside(token, 0, trim) /\ b \in Nat /\ n \in Nat
  <2>1. k \in 1..Len(tokens)
    BY LenProperties DEF Shape
  <2> QED
    BY <2>1, BaseFacts DEF Tracing
<1> HIDE DEF token, trim
<1>2. /\ lo \in Int /\ hi \in Int /\ token.first \in Int /\ token.last \in Int
      /\ \A i \in 1..L : lo <= s(i) /\ s(i) <= hi /\ s(i) \in Int /\ s(i) # Inserted
      /\ DOMAIN x = 1..L /\ 1 \in 1..L /\ L \in 1..L
  <2>1. x \in Seq(Bytes) /\ x # <<>> /\ \A i \in 1..L : s(i) \in b..(b + n - 1)
    BY <1>1 DEF TokenPlaced, TokenSet
  <2>2. lo \in b..(b + n - 1) /\ hi \in b..(b + n - 1) /\ token.first \in Int /\ token.last \in Int
        /\ \A i \in 1..L : lo <= s(i) /\ s(i) <= hi
    BY <1>1, PlacedRange
  <2>3. DOMAIN x = 1..L /\ 1 \in 1..L /\ L \in 1..L
    BY <2>1, EmptySeq, LenProperties
  <2> HIDE DEF lo, hi, s, L, x
  <2> QED
    BY <1>1, <2>1, <2>2, <2>3 DEF Inserted
<1>3. lo = s(1) /\ hi = s(L)
  BY DEF Lo, Hi
<1>4. all = {s(i) : i \in 1..L}
  <2>1. all = {s(i) : i \in DOMAIN x} \ {Inserted}
    BY DEF Sources
  <2> HIDE DEF s, all, L
  <2> QED
    BY <1>2, <2>1
<1>5. NonSpace(x) = {s(i) : i \in NonSpaceAt(x)}
  <2>1. NonSpace(x) = {s(i) : i \in NonSpaceAt(x)} \ {Inserted}
    BY <1>2 DEF NonSpace, NonSpaceAt
  <2>2. \A i \in NonSpaceAt(x) : i \in 1..L
    BY DEF NonSpaceAt
  <2> DEFINE N == NonSpaceAt(x)
             M == NonSpace(x)
  <2> HIDE DEF s, L, N, M
  <2> QED
    BY <1>2, <2>1, <2>2 DEF N, M
<1>6. /\ lo - 0 <= token.first /\ token.last <= hi - 0 + 1
      /\ \A i \in NonSpaceAt(x) : token.first <= s(i) - 0 /\ s(i) - 0 < token.last
      /\ ~trim => token.first = lo - 0 /\ token.last = hi - 0 + 1
  BY <1>1 DEF Inside
<1>7. \A i \in NonSpaceAt(x) : s(i) \in Int
  BY <1>2 DEF NonSpaceAt
<1> HIDE DEF s, L, lo, hi, all
<1>8. Min(all) = lo /\ Max(all) = hi
  <2>1. all \in SUBSET Int /\ lo \in all /\ hi \in all /\ \A y \in all : lo <= y /\ y <= hi
    BY <1>2, <1>3, <1>4
  <2> QED
    BY <2>1, MinIs, MaxIs
<1> DEFINE span == token.first..(token.last - 1)
<1>9. span \subseteq lo..hi
  BY <1>2, <1>6
<1>10. NonSpace(x) \subseteq span
  BY <1>2, <1>5, <1>6, <1>7
<1>11. ~trim => span = lo..hi
  <2>1. ASSUME ~trim PROVE token.first = lo /\ token.last - 1 = hi
    <3>1. token.first = lo - 0 /\ token.last = hi - 0 + 1
      BY <1>6, <2>1
    <3> QED
      BY <1>2, <3>1
  <2> QED
    BY <2>1
<1> QED
  BY <1>8, <1>9, <1>10, <1>11 DEF all, token, trim

(***************************************************************************)
(* The offsets of a finished token name the bytes of the original text it  *)
(* was made of; with trimming, between them and those that are not spaces. *)
(***************************************************************************)
THEOREM EncodeTraceable == Spec => []Traceable
BY PipelineTracing, TracingTraceable, PTL

-------------------------------------------------------------------------------
(* The order of the text. *)

WholeAt(text) == {i \in 1..Len(text) : Whole(text[i])}
WholeSources(text) == {text[i].src : i \in WholeAt(text)}
AllSources(c) == UNION {WholeSources(c[k].text) : k \in 1..Len(c)}

\* The whole bytes of a text come in the order of the original text.
Ascends(text) == \A i, j \in WholeAt(text) : i < j => text[i].src < text[j].src

\* So do those of a sequence of pre-tokens or tokens.
Rising(c) ==
    /\ \A k \in 1..Len(c) : Ascends(c[k].text)
    /\ \A j, k \in 1..Len(c) : j < k =>
          \A x \in WholeSources(c[j].text), y \in WholeSources(c[k].text) : x < y

\* Putting together sequences that rise, each after the one before.
LEMMA RisingConcat ==
    ASSUME NEW S, NEW a \in Seq(S), NEW c \in Seq(S), Rising(a), Rising(c),
           \A x \in AllSources(a), y \in AllSources(c) : x < y
    PROVE  Rising(a \o c) /\ AllSources(a \o c) = AllSources(a) \cup AllSources(c)
<1> DEFINE d == a \o c
           m == Len(a)
           n == Len(c)
           W(x) == WholeSources(x.text)
<1>1. m \in Nat /\ n \in Nat
  BY LenProperties
<1>2. Len(d) = m + n /\ \A k \in 1..(m + n) : d[k] = IF k <= m THEN a[k] ELSE c[k - m]
  BY ConcatProperties
<1>3. /\ \A k \in 1..m : Ascends(a[k].text)
      /\ \A j, k \in 1..m : j < k => \A x \in W(a[j]), y \in W(a[k]) : x < y
      /\ \A k \in 1..n : Ascends(c[k].text)
      /\ \A j, k \in 1..n : j < k => \A x \in W(c[j]), y \in W(c[k]) : x < y
  BY DEF Rising
<1>4. /\ AllSources(a) = UNION {W(a[k]) : k \in 1..m}
      /\ AllSources(c) = UNION {W(c[k]) : k \in 1..n}
      /\ AllSources(d) = UNION {W(d[k]) : k \in 1..(m + n)}
  <2> HIDE DEF d
  <2> QED
    BY <1>2 DEF AllSources
<1>5. \A j \in 1..m, k \in 1..n : \A x \in W(a[j]), y \in W(c[k]) : x < y
  <2> HIDE DEF W
  <2> QED
    BY <1>4
<1> HIDE DEF d, m, n, W
<1>6. /\ \A k \in 1..m : k \in 1..(m + n) /\ d[k] = a[k]
      /\ \A k \in 1..n : m + k \in 1..(m + n) /\ d[m + k] = c[k]
      /\ \A k \in 1..(m + n) : k \in 1..m \/ (k - m \in 1..n /\ d[k] = c[k - m])
  <2>1. \A k \in 1..n : m + k \in 1..(m + n) /\ ~(m + k <= m) /\ (m + k) - m = k
    BY <1>1
  <2>2. \A k \in 1..m : k \in 1..(m + n) /\ k <= m
    BY <1>1
  <2>3. \A k \in 1..(m + n) : k \in 1..m \/ (k - m \in 1..n /\ ~(k <= m))
    BY <1>1
  <2> QED
    BY <1>2, <2>1, <2>2, <2>3
<1>7. \A k \in 1..(m + n) : Ascends(d[k].text)
  BY <1>3, <1>6
<1>8. ASSUME NEW j \in 1..(m + n), NEW k \in 1..(m + n), j < k
      PROVE  \A x \in W(d[j]), y \in W(d[k]) : x < y
  <2>1. CASE j \in 1..m /\ k \in 1..m
    BY <1>3, <1>6, <1>8, <2>1
  <2>2. CASE j \in 1..m /\ k \notin 1..m
    BY <1>5, <1>6, <2>2
  <2>3. CASE j \notin 1..m
    <3>1. k \notin 1..m /\ j - m < k - m
      BY <1>1, <1>8, <2>3
    <3>2. j - m \in 1..n /\ d[j] = c[j - m] /\ k - m \in 1..n /\ d[k] = c[k - m]
      BY <1>6, <2>3, <3>1
    <3> QED
      BY <1>3, <3>1, <3>2
  <2> QED
    BY <2>1, <2>2, <2>3
<1>9. Rising(d)
  BY <1>2, <1>7, <1>8 DEF Rising, W
<1>10. AllSources(d) = AllSources(a) \cup AllSources(c)
  <2>1. ASSUME NEW x \in AllSources(d) PROVE x \in AllSources(a) \cup AllSources(c)
    <3>1. PICK k \in 1..(m + n) : x \in W(d[k])
      BY <1>4
    <3> QED
      BY <1>4, <1>6, <3>1
  <2>2. ASSUME NEW x \in AllSources(a) PROVE x \in AllSources(d)
    <3>1. PICK k \in 1..m : x \in W(a[k])
      BY <1>4
    <3> QED
      BY <1>4, <1>6, <3>1
  <2>3. ASSUME NEW x \in AllSources(c) PROVE x \in AllSources(d)
    <3>1. PICK k \in 1..n : x \in W(c[k])
      BY <1>4
    <3> QED
      BY <1>4, <1>6, <3>1
  <2> QED
    BY <2>1, <2>2, <2>3
<1> QED
  BY <1>9, <1>10 DEF d

\* Pieces of each element of s in turn, in its order; all of it if full.
Divides(c, x, full) ==
    /\ Rising(c) /\ AllSources(c) \subseteq WholeSources(x.text)
    /\ full => WholeSources(x.text) \subseteq AllSources(c)

\* The pieces of all pre-tokens, in the order of the pre-tokens.
LEMMA ConcatenationsRising ==
    ASSUME NEW V, NEW s \in Seq(V), Rising(s), NEW n, n = Len(s), NEW S, NEW R, DOMAIN R = 1..n,
           NEW full, \A k \in 1..n : R[k] \in SUBSET Seq(S),
           \A k \in 1..n : \A c \in R[k] : Divides(c, s[k], full),
           NEW y \in Concatenations(R)
    PROVE  /\ Rising(y) /\ AllSources(y) \subseteq AllSources(s)
           /\ full => AllSources(s) \subseteq AllSources(y)
<1> DEFINE W(k) == WholeSources(s[k].text)
           U(k) == UNION {W(j) : j \in 1..k}
           D(k) == {a \in Seq(S) : /\ Rising(a) /\ AllSources(a) \subseteq U(k)
                                   /\ full => U(k) \subseteq AllSources(a)}
           G == [k \in 0..n |-> D(k)]
<1>1. n \in Nat
  BY LenProperties
<1>2. <<>> \in G[0]
  <2>1. <<>> \in Seq(S) /\ Len(<<>>) = 0 /\ 0 \in 0..n
    BY <1>1
  <2>2. Rising(<<>>) /\ AllSources(<<>>) = {}
    BY <2>1 DEF Rising, AllSources
  <2>3. U(0) = {}
    OBVIOUS
  <2>4. <<>> \in D(0)
    BY <2>1, <2>2, <2>3
  <2> HIDE DEF D
  <2> QED
    BY <2>1, <2>4
<1>3. ASSUME NEW k \in 1..n, NEW a \in G[k - 1] \cap Seq(S), NEW c \in R[k]
      PROVE  a \o c \in G[k]
  <2>1. k \in 0..n /\ k - 1 \in 0..n /\ \A j \in 1..k : j = k \/ j \in 1..(k - 1)
    BY <1>1
  <2>2. a \in D(k - 1)
    <3> HIDE DEF D
    <3> QED
      BY <2>1
  <2>3. Rising(a) /\ AllSources(a) \subseteq U(k - 1) /\ (full => U(k - 1) \subseteq AllSources(a))
    BY <2>2
  <2>4. c \in Seq(S) /\ Divides(c, s[k], full)
    OBVIOUS
  <2>5. Rising(c) /\ AllSources(c) \subseteq W(k) /\ (full => W(k) \subseteq AllSources(c))
    BY <2>4 DEF Divides
  <2>6. U(k) = U(k - 1) \cup W(k)
    <3>1. k \in 1..k /\ \A j \in 1..(k - 1) : j \in 1..k
      BY <1>1
    <3> HIDE DEF W
    <3> QED
      BY <2>1, <3>1
  <2>7. \A x \in U(k - 1), z \in W(k) : x < z
    <3> SUFFICES ASSUME NEW x \in U(k - 1), NEW z \in W(k) PROVE x < z
      OBVIOUS
    <3>1. PICK j \in 1..(k - 1) : x \in W(j)
      OBVIOUS
    <3>2. j \in 1..Len(s) /\ k \in 1..Len(s) /\ j < k
      BY <1>1
    <3>3. \A x1 \in W(j), z1 \in W(k) : x1 < z1
      BY <3>2 DEF Rising
    <3> HIDE DEF W
    <3> QED
      BY <3>1, <3>3
  <2> HIDE DEF U, W
  <2>8. \A x \in AllSources(a), z \in AllSources(c) : x < z
    BY <2>3, <2>5, <2>7
  <2>9. Rising(a \o c) /\ AllSources(a \o c) = AllSources(a) \cup AllSources(c)
    BY <2>3, <2>4, <2>5, <2>8, RisingConcat
  <2>10. a \o c \in Seq(S)
    BY <2>4, ConcatProperties
  <2>11. a \o c \in D(k)
    BY <2>3, <2>5, <2>6, <2>9, <2>10
  <2> HIDE DEF D
  <2> QED
    BY <2>1, <2>11
<1> HIDE DEF G
<1>4. Concatenations(R) \in SUBSET G[n]
  BY <1>1, <1>2, <1>3, ConcatenationsWithin
<1>5. y \in D(n)
  <2>1. n \in 0..n
    BY <1>1
  <2> HIDE DEF D
  <2>2. G[n] = D(n)
    BY <2>1 DEF G
  <2> QED
    BY <1>4, <2>2
<1>6. U(n) = AllSources(s)
  BY DEF AllSources
<1> HIDE DEF U
<1> QED
  BY <1>5, <1>6

\* A text no ByteLevel has spelled, without an inserted space.
Plain(text) == \A i \in 1..Len(text) : text[i].b \in PlainClasses /\ text[i].src # Inserted

\* The text a pre-tokenizer cuts: as before, but for an inserted space.
LEMMA CutTextRising ==
    ASSUME NEW pt \in PreTokenSet, NEW p \in Splits \cup ByteLevels, Ascends(pt.text)
    PROVE  LET T == CutText(pt, p)
           IN /\ T \in Seq(Bytes) /\ Ascends(T) /\ WholeSources(T) = WholeSources(pt.text)
              /\ p.type = "Split" /\ Plain(pt.text) => Plain(T)
              /\ Plain(pt.text) => \A q \in 1..Len(T) : T[q].b \in PlainClasses
<1> DEFINE T == CutText(pt, p)
           x == pt.text
           n == Len(x)
<1>1. x \in Seq(Bytes) /\ n \in Nat /\ T \in Seq(Bytes)
  BY PrefixedFacts, LenProperties DEF PreTokenSet, CutText
<1>2. CASE T = x
  BY <1>1, <1>2 DEF Plain
<1>3. CASE T # x
  <2>1. T = PrefixedText(pt, p) /\ Prefixed(pt, p) /\ p.type # "Split"
    BY <1>3, PrefixedFacts DEF CutText
  <2>2. Len(T) = n + 1 /\ T[1] = [b |-> "space", src |-> Inserted] /\ \A i \in 1..n : T[i + 1] = x[i]
    BY <2>1, PrefixedFacts
  <2> HIDE DEF T, n
  <2>3. T[1].src = Inserted /\ T[1].b = "space" /\ ~Whole(T[1])
    BY <2>2 DEF Whole
  <2>4. /\ \A q \in 1..(n + 1) : q = 1 \/ (q - 1 \in 1..n /\ (q - 1) + 1 = q)
        /\ \A i \in 1..n : i + 1 \in 1..(n + 1)
    BY <1>1
  <2>5. \A q \in WholeAt(T) : q \in 1..(n + 1) /\ q - 1 \in WholeAt(x) /\ T[q] = x[q - 1]
    <3>1. \A q \in WholeAt(T) : q \in 1..(n + 1) /\ Whole(T[q])
      BY <2>2 DEF WholeAt
    <3>2. \A q \in WholeAt(T) : q # 1 /\ q - 1 \in 1..n /\ T[q] = x[q - 1]
      BY <2>2, <2>3, <2>4, <3>1
    <3> QED
      BY <3>1, <3>2 DEF WholeAt, n
  <2>6. \A i \in WholeAt(x) : i + 1 \in WholeAt(T) /\ T[i + 1] = x[i]
    <3>1. \A i \in WholeAt(x) : i \in 1..n /\ Whole(x[i])
      BY DEF WholeAt, n
    <3> QED
      BY <2>2, <2>4, <3>1 DEF WholeAt
  <2>7. Ascends(T)
    <3> SUFFICES ASSUME NEW i \in WholeAt(T), NEW j \in WholeAt(T), i < j PROVE T[i].src < T[j].src
      BY DEF Ascends
    <3>1. i - 1 \in WholeAt(x) /\ j - 1 \in WholeAt(x) /\ T[i] = x[i - 1] /\ T[j] = x[j - 1]
          /\ i \in 1..(n + 1) /\ j \in 1..(n + 1)
      BY <2>5
    <3>2. i - 1 < j - 1
      BY <1>1, <3>1
    <3> QED
      BY <3>1, <3>2 DEF Ascends
  <2>8. WholeSources(T) = WholeSources(x)
    BY <2>5, <2>6 DEF WholeSources
  <2>9. Plain(x) => \A q \in 1..Len(T) : T[q].b \in PlainClasses
    <3> SUFFICES ASSUME Plain(x), NEW q \in 1..(n + 1) PROVE T[q].b \in PlainClasses
      BY <2>2
    <3>1. CASE q = 1
      BY <2>3, <3>1 DEF PlainClasses
    <3>2. CASE q # 1
      <4>1. q - 1 \in 1..n /\ T[q] = x[q - 1]
        BY <2>2, <2>4, <3>2
      <4> QED
        BY <4>1 DEF Plain, n
    <3> QED
      BY <3>1, <3>2
  <2> QED
    BY <1>1, <2>1, <2>7, <2>8, <2>9 DEF T
<1> QED
  BY <1>2, <1>3

\* A piece has the whole bytes of its span, in their order.
LEMMA PieceRising ==
    ASSUME NEW pt \in PreTokenSet, NEW p \in Splits \cup ByteLevels, NEW c, NEW spans,
           CutAt(pt, p, c, spans), NEW k \in 1..Len(spans), Ascends(pt.text),
           p.type = "ByteLevel" => Plain(pt.text)
    PROVE  LET T == CutText(pt, p)
               y == c[k].text
           IN /\ \A j \in WholeAt(y) : \E q \in WholeAt(T) :
                    spans[k][1] < q /\ q <= spans[k][2] /\ y[j].src = T[q].src
              /\ Ascends(y)
              /\ \A q \in WholeAt(T) : spans[k][1] < q /\ q <= spans[k][2] => T[q].src \in WholeSources(y)
              /\ p.type = "Split" /\ Plain(pt.text) => Plain(y)
<1> DEFINE T == CutText(pt, p)
           lo == spans[k][1]
           hi == spans[k][2]
           new == c[k]
           y == new.text
           m == Len(y)
<1>1. lo \in Nat /\ hi \in Nat /\ lo < hi /\ hi <= Len(T)
  BY PieceMade
<1>2. PICK start \in Nat, end \in Nat : \E g : Origin(new, pt, p, lo, hi, start, end, g)
  BY PieceOrigin
<1>3. PICK g : Origin(new, pt, p, lo, hi, start, end, g)
  BY <1>2
<1>4. /\ T \in Seq(Bytes) /\ Ascends(T)
      /\ p.type = "Split" /\ Plain(pt.text) => Plain(T)
      /\ Plain(pt.text) => \A q \in 1..Len(T) : T[q].b \in PlainClasses
  BY CutTextRising
<1>5. Len(T) \in Nat
  BY <1>4, LenProperties
<1> SUFFICES /\ \A j \in WholeAt(y) : \E q \in WholeAt(T) : lo < q /\ q <= hi /\ y[j].src = T[q].src
             /\ Ascends(y)
             /\ \A q \in WholeAt(T) : lo < q /\ q <= hi => T[q].src \in WholeSources(y)
             /\ p.type = "Split" /\ Plain(pt.text) => Plain(y)
  OBVIOUS
<1> HIDE DEF T, lo, hi, new
<1>6. /\ new \in PreTokenSet /\ Len(g) = m
      /\ \A j \in 1..m : g[j] \in 0..(hi - lo - 1) /\ y[j].src = T[lo + g[j] + 1].src
  BY <1>3 DEF Origin, Made, T
<1>7. m \in Nat
  BY <1>6, LenProperties DEF PreTokenSet
<1> DEFINE Q(j) == lo + g[j] + 1
<1>8. ASSUME NEW j \in 1..m PROVE Q(j) \in 1..Len(T) /\ lo < Q(j) /\ Q(j) <= hi /\ y[j].src = T[Q(j)].src
                                  /\ Q(j) \in Int /\ g[j] \in Int
  <2> DEFINE u == g[j]
  <2>1. u \in 0..(hi - lo - 1)
    BY <1>6
  <2> HIDE DEF u
  <2>2. lo + u + 1 \in 1..Len(T) /\ lo < lo + u + 1 /\ lo + u + 1 <= hi /\ lo + u + 1 \in Int /\ u \in Int
    BY <1>1, <1>5, <2>1
  <2> QED
    BY <1>6, <2>2 DEF u
<1>9. CASE p.type = "Split"
  <2>1. m = hi - lo /\ \A j \in 1..m : g[j] = j - 1 /\ y[j] = T[lo + j]
    BY <1>3, <1>9 DEF Origin, Rendered, T
  <2>2. \A j \in 1..m : lo + j \in 1..Len(T) /\ lo < lo + j /\ lo + j <= hi
    BY <1>1, <1>5, <2>1
  <2>3. ASSUME NEW j \in WholeAt(y) PROVE \E q \in WholeAt(T) : lo < q /\ q <= hi /\ y[j].src = T[q].src
    <3>1. j \in 1..m /\ Whole(y[j])
      BY DEF WholeAt
    <3>2. lo + j \in WholeAt(T)
      BY <2>1, <2>2, <3>1 DEF WholeAt
    <3> QED
      BY <2>1, <2>2, <3>1, <3>2
  <2>4. Ascends(y)
    <3> SUFFICES ASSUME NEW i \in WholeAt(y), NEW j \in WholeAt(y), i < j PROVE y[i].src < y[j].src
      BY DEF Ascends
    <3>1. i \in 1..m /\ Whole(y[i]) /\ j \in 1..m /\ Whole(y[j])
      BY DEF WholeAt
    <3>2. lo + i \in WholeAt(T) /\ lo + j \in WholeAt(T) /\ y[i] = T[lo + i] /\ y[j] = T[lo + j]
      BY <2>1, <2>2, <3>1 DEF WholeAt
    <3>3. lo + i < lo + j
      BY <1>1, <1>7, <3>1
    <3> QED
      BY <1>4, <3>2, <3>3 DEF Ascends
  <2>5. ASSUME NEW q \in WholeAt(T), lo < q, q <= hi PROVE T[q].src \in WholeSources(y)
    <3> DEFINE j == q - lo
    <3>1. q \in 1..Len(T) /\ Whole(T[q])
      BY DEF WholeAt
    <3>2. j \in 1..m /\ lo + j = q
      BY <1>1, <1>5, <2>1, <2>5, <3>1
    <3> HIDE DEF j
    <3>3. y[j] = T[q]
      BY <2>1, <3>2
    <3>4. j \in WholeAt(y)
      BY <3>1, <3>2, <3>3 DEF WholeAt
    <3> QED
      BY <3>3, <3>4 DEF WholeSources
  <2>6. Plain(pt.text) => Plain(y)
    <3>1. Plain(T) => Plain(y)
      BY <2>1, <2>2 DEF Plain
    <3> QED
      BY <1>4, <1>9, <3>1
  <2> QED
    BY <2>3, <2>4, <2>5, <2>6
<1>10. CASE p.type # "Split"
  <2>1. p.type = "ByteLevel" /\ Plain(pt.text)
    BY <1>10 DEF Splits, ByteLevels
  <2>2. \A q \in 1..Len(T) : T[q].b \in PlainClasses /\ T[q].b \notin {"g2", "m2"}
    BY <1>4, <2>1 DEF PlainClasses
  <2> DEFINE seg == SubSeq(T, lo + 1, hi)
             d == hi - lo
  <2>3. MapUpto(y, g, seg, d)
    BY <1>3, <1>10 DEF Origin, Rendered, T
  <2>4. /\ \A i \in 1..d : \E j \in 1..m : g[j] = i - 1 /\ y[j].b \notin Tails
        /\ \A i, j \in 1..m : i < j /\ y[i].b \notin Tails /\ y[j].b \notin Tails => g[i] < g[j]
    BY <2>3 DEF MapUpto
  <2>5. ASSUME NEW j \in WholeAt(y)
        PROVE  j \in 1..m /\ y[j].b \notin Tails /\ Q(j) \in WholeAt(T) /\ y[j].src = T[Q(j)].src
    <3>1. j \in 1..m /\ y[j].b \notin Tails /\ y[j].src # Inserted
      BY DEF WholeAt, Whole, Tails
    <3>2. Q(j) \in 1..Len(T) /\ y[j].src = T[Q(j)].src
      BY <1>8, <3>1
    <3> HIDE DEF Q
    <3> QED
      BY <2>2, <3>1, <3>2 DEF WholeAt, Whole
  <2>6. ASSUME NEW j \in WholeAt(y) PROVE \E q \in WholeAt(T) : lo < q /\ q <= hi /\ y[j].src = T[q].src
    <3>1. j \in 1..m /\ Q(j) \in WholeAt(T)
      BY <2>5
    <3>2. lo < Q(j) /\ Q(j) <= hi /\ y[j].src = T[Q(j)].src
      BY <1>8, <3>1
    <3> HIDE DEF Q
    <3> QED
      BY <3>1, <3>2
  <2>7. Ascends(y)
    <3> SUFFICES ASSUME NEW i \in WholeAt(y), NEW j \in WholeAt(y), i < j PROVE y[i].src < y[j].src
      BY DEF Ascends
    <3>1. /\ i \in 1..m /\ y[i].b \notin Tails /\ Q(i) \in WholeAt(T) /\ y[i].src = T[Q(i)].src
          /\ j \in 1..m /\ y[j].b \notin Tails /\ Q(j) \in WholeAt(T) /\ y[j].src = T[Q(j)].src
      BY <2>5
    <3>2. g[i] < g[j] /\ g[i] \in Int /\ g[j] \in Int
      BY <1>8, <2>4, <3>1
    <3>3. Q(i) < Q(j)
      BY <1>1, <3>2
    <3> HIDE DEF Q
    <3> QED
      BY <1>4, <3>1, <3>3 DEF Ascends
  <2>8. ASSUME NEW q \in WholeAt(T), lo < q, q <= hi PROVE T[q].src \in WholeSources(y)
    <3>1. q \in 1..Len(T) /\ T[q].src # Inserted
      BY DEF WholeAt, Whole
    <3> DEFINE i == q - lo
    <3>2. i \in 1..d /\ lo + (i - 1) + 1 = q
      BY <1>1, <1>5, <2>8, <3>1
    <3> HIDE DEF i, d
    <3>3. PICK j \in 1..m : g[j] = i - 1 /\ y[j].b \notin Tails
      BY <2>4, <3>2
    <3>4. y[j].src = T[q].src
      <4>1. Q(j) = q
        BY <3>2, <3>3
      <4> QED
        BY <1>8, <4>1
    <3>5. j \in WholeAt(y)
      BY <3>1, <3>3, <3>4 DEF WholeAt, Whole, Tails
    <3> QED
      BY <3>4, <3>5 DEF WholeSources
  <2> QED
    BY <1>10, <2>6, <2>7, <2>8
<1> QED
  BY <1>9, <1>10

\* A cut keeps the order of the text and, unless it removes, all of it.
LEMMA CutRising ==
    ASSUME NEW pt \in PreTokenSet, NEW p \in Splits \cup ByteLevels, NEW c \in Cuts(pt, p),
           Ascends(pt.text), p.type = "ByteLevel" => Plain(pt.text)
    PROVE  /\ Divides(c, pt, ~Removes(p))
           /\ p.type = "Split" /\ Plain(pt.text) => \A k \in 1..Len(c) : Plain(c[k].text)
<1> DEFINE T == CutText(pt, p)
<1>1. T \in Seq(Bytes) /\ Ascends(T) /\ WholeSources(T) = WholeSources(pt.text)
  BY CutTextRising
<1>2. ASSUME c = <<pt>>
      PROVE  Divides(c, pt, ~Removes(p)) /\ (Plain(pt.text) => \A k \in 1..Len(c) : Plain(c[k].text))
  <2>1. Len(c) = 1 /\ c[1] = pt /\ \A k \in 1..1 : k = 1
    BY <1>2
  <2>2. Rising(c)
    BY <2>1 DEF Rising
  <2>3. AllSources(c) = WholeSources(pt.text)
    BY <2>1 DEF AllSources
  <2> QED
    BY <2>1, <2>2, <2>3 DEF Divides
<1>3. ASSUME NEW spans, CutAt(pt, p, c, spans)
      PROVE  Divides(c, pt, ~Removes(p))
             /\ (p.type = "Split" /\ Plain(pt.text) => \A k \in 1..Len(c) : Plain(c[k].text))
  <2> DEFINE n == Len(spans)
             lo(k) == spans[k][1]
             hi(k) == spans[k][2]
             y(k) == c[k].text
  <2>1. n \in Nat /\ Len(c) = n
    BY <1>3, LenProperties DEF CutAt
  <2>2. ASSUME NEW k \in 1..n
        PROVE  /\ \A j \in WholeAt(y(k)) : \E q \in WholeAt(T) : lo(k) < q /\ q <= hi(k) /\ y(k)[j].src = T[q].src
               /\ Ascends(y(k))
               /\ \A q \in WholeAt(T) : lo(k) < q /\ q <= hi(k) => T[q].src \in WholeSources(y(k))
               /\ p.type = "Split" /\ Plain(pt.text) => Plain(y(k))
               /\ lo(k) \in Int /\ hi(k) \in Int
    <3>1. k \in 1..Len(spans)
      OBVIOUS
    <3>2. /\ \A j \in WholeAt(y(k)) : \E q \in WholeAt(T) : lo(k) < q /\ q <= hi(k) /\ y(k)[j].src = T[q].src
          /\ Ascends(y(k))
          /\ \A q \in WholeAt(T) : lo(k) < q /\ q <= hi(k) => T[q].src \in WholeSources(y(k))
          /\ p.type = "Split" /\ Plain(pt.text) => Plain(y(k))
      BY <1>3, <3>1, PieceRising
    <3>3. lo(k) \in Nat /\ hi(k) \in Nat
      BY <1>3, <3>1, PieceMade
    <3> HIDE DEF lo, hi, y, T
    <3> QED
      BY <3>2, <3>3
  <2>3. \A j, k \in 1..n : j < k => hi(j) <= lo(k)
    BY <1>3 DEF CutAt, Intervals
  <2>4. ~Removes(p) => \A i \in 1..Len(T) : \E k \in 1..n : lo(k) < i /\ i <= hi(k)
    BY <1>3 DEF CutAt, Covered
  <2>5. Len(T) \in Nat /\ WholeAt(T) \subseteq 1..Len(T)
    BY <1>1, LenProperties DEF WholeAt
  <2> HIDE DEF n, lo, hi, y, T
  <2>6. \A k \in 1..n : \A x \in WholeSources(y(k)) : \E q \in WholeAt(T) :
           lo(k) < q /\ q <= hi(k) /\ x = T[q].src
    BY <2>2 DEF WholeSources
  <2>7. ASSUME NEW j \in 1..n, NEW k \in 1..n, j < k, NEW x \in WholeSources(y(j)), NEW z \in WholeSources(y(k))
        PROVE  x < z
    <3>1. PICK q \in WholeAt(T) : lo(j) < q /\ q <= hi(j) /\ x = T[q].src
      BY <2>6
    <3>2. PICK r \in WholeAt(T) : lo(k) < r /\ r <= hi(k) /\ z = T[r].src
      BY <2>6
    <3>3. hi(j) <= lo(k) /\ hi(j) \in Int /\ lo(k) \in Int /\ q \in Int /\ r \in Int
      BY <2>2, <2>3, <2>5, <2>7
    <3>4. q < r
      BY <3>1, <3>2, <3>3
    <3> QED
      BY <1>1, <3>1, <3>2, <3>4 DEF Ascends
  <2>8. Rising(c)
    <3>1. \A j, k \in 1..n : j < k => \A x \in WholeSources(y(j)), z \in WholeSources(y(k)) : x < z
      BY <2>7
    <3>2. \A k \in 1..n : Ascends(y(k))
      BY <2>2
    <3> QED
      BY <2>1, <3>1, <3>2 DEF Rising, y
  <2>9. AllSources(c) = UNION {WholeSources(y(k)) : k \in 1..n}
    BY <2>1 DEF AllSources, y
  <2>10. AllSources(c) \subseteq WholeSources(T)
    <3> SUFFICES ASSUME NEW x \in AllSources(c) PROVE x \in WholeSources(T)
      OBVIOUS
    <3>1. PICK k \in 1..n : x \in WholeSources(y(k))
      BY <2>9
    <3>2. PICK q \in WholeAt(T) : x = T[q].src
      BY <2>6, <3>1
    <3> QED
      BY <3>2 DEF WholeSources
  <2>11. ~Removes(p) => WholeSources(T) \subseteq AllSources(c)
    <3> SUFFICES ASSUME ~Removes(p), NEW x \in WholeSources(T) PROVE x \in AllSources(c)
      OBVIOUS
    <3>1. PICK q \in WholeAt(T) : x = T[q].src
      BY DEF WholeSources
    <3>2. q \in 1..Len(T)
      BY <2>5
    <3>3. PICK k \in 1..n : lo(k) < q /\ q <= hi(k)
      BY <2>4, <3>2
    <3>4. x \in WholeSources(y(k))
      BY <2>2, <3>1, <3>3
    <3> QED
      BY <2>9, <3>4
  <2>12. Divides(c, pt, ~Removes(p))
    BY <1>1, <2>8, <2>10, <2>11 DEF Divides, T
  <2>13. p.type = "Split" /\ Plain(pt.text) => \A k \in 1..Len(c) : Plain(c[k].text)
    BY <2>1, <2>2 DEF y
  <2> QED
    BY <2>12, <2>13
<1> QED
  BY <1>2, <1>3, CutFacts

LEMMA TokenizationRising ==
    ASSUME NEW pt \in PreTokenSet, NEW c \in Tokenizations(pt), Ascends(pt.text)
    PROVE  Divides(c, pt, FALSE)
<1> DEFINE x == pt.text
<1>1. x \in Seq(Bytes) /\ Len(x) \in Nat
  BY LenProperties DEF PreTokenSet
<1>2. ASSUME c = <<>> PROVE Divides(c, pt, FALSE)
  BY <1>2 DEF Divides, Rising, AllSources
<1>3. ASSUME NEW t, TokenCut(pt, c, t) PROVE Divides(c, pt, FALSE)
  <2> DEFINE n == Len(t)
             lo(k) == t[k][1]
             hi(k) == t[k][2]
             y(k) == c[k].text
             E == Ends(x, TokenEnds(x))
  <2>1. n \in Nat /\ Len(c) = n
    BY <1>3, LenProperties DEF TokenCut
  <2>2. ASSUME NEW k \in 1..n
        PROVE  /\ lo(k) \in Nat /\ hi(k) \in Nat /\ hi(k) <= Len(x)
               /\ Len(y(k)) = hi(k) - lo(k) /\ \A i \in 1..(hi(k) - lo(k)) : y(k)[i] = x[lo(k) + i]
    <3>1. k \in 1..Len(t)
      OBVIOUS
    <3>2. lo(k) \in Nat /\ hi(k) \in Nat /\ lo(k) < hi(k) /\ hi(k) <= Len(x) /\ c[k] = TokenOf(pt, lo(k), hi(k))
      BY <1>3, <3>1, TokenEndFacts
    <3> DEFINE l == lo(k)
               h == hi(k)
    <3>3. l \in Nat /\ h \in Nat /\ l < h /\ h <= Len(pt.text) /\ c[k] = TokenOf(pt, l, h)
      BY <3>2
    <3> HIDE DEF l, h
    <3>4. Len(c[k].text) = h - l /\ \A i \in 1..(h - l) : c[k].text[i] = pt.text[l + i]
      BY <3>3, TokenOfFacts
    <3> QED
      BY <3>3, <3>4 DEF l, h
  <2>3. \A j, k \in 1..n : j < k => hi(j) <= lo(k)
    <3>1. t \in Seq(Spans) /\ Forward(t, 0, Len(x), E)
      BY <1>3 DEF TokenCut
    <3>2. E \in SUBSET Int
      BY <1>1, EndsWithin
    <3> HIDE DEF E, x
    <3>3. Intervals(t, E)
      BY <1>1, <3>1, <3>2, ForwardIntervals
    <3> QED
      BY <3>3 DEF Intervals
  <2> HIDE DEF n, lo, hi, y, x
  <2>4. ASSUME NEW k \in 1..n, NEW i \in WholeAt(y(k))
        PROVE  lo(k) + i \in WholeAt(x) /\ y(k)[i] = x[lo(k) + i] /\ lo(k) < lo(k) + i /\ lo(k) + i <= hi(k)
               /\ i \in Int
    <3>1. i \in 1..(hi(k) - lo(k)) /\ Whole(y(k)[i])
      BY <2>2 DEF WholeAt
    <3>2. y(k)[i] = x[lo(k) + i] /\ lo(k) \in Nat /\ hi(k) \in Nat /\ hi(k) <= Len(x)
      BY <2>2, <3>1
    <3>3. lo(k) + i \in 1..Len(x) /\ lo(k) < lo(k) + i /\ lo(k) + i <= hi(k) /\ i \in Int
      BY <1>1, <3>1, <3>2
    <3> QED
      BY <3>1, <3>2, <3>3 DEF WholeAt
  <2>5. \A k \in 1..n : Ascends(y(k))
    <3> SUFFICES ASSUME NEW k \in 1..n, NEW i \in WholeAt(y(k)), NEW j \in WholeAt(y(k)), i < j
                 PROVE  y(k)[i].src < y(k)[j].src
      BY DEF Ascends
    <3>1. lo(k) + i < lo(k) + j
      BY <2>2, <2>4
    <3> QED
      BY <2>4, <3>1 DEF Ascends, x
  <2>6. \A k \in 1..n : \A z \in WholeSources(y(k)) : \E q \in WholeAt(x) :
           q \in Int /\ lo(k) < q /\ q <= hi(k) /\ z = x[q].src
    <3> SUFFICES ASSUME NEW k \in 1..n, NEW i \in WholeAt(y(k))
                 PROVE  \E q \in WholeAt(x) : q \in Int /\ lo(k) < q /\ q <= hi(k) /\ y(k)[i].src = x[q].src
      BY DEF WholeSources
    <3>1. lo(k) + i \in Int
      BY <2>2, <2>4
    <3> QED
      BY <2>4, <3>1
  <2>7. ASSUME NEW j \in 1..n, NEW k \in 1..n, j < k, NEW u \in WholeSources(y(j)), NEW z \in WholeSources(y(k))
        PROVE  u < z
    <3>1. PICK q \in WholeAt(x) : q \in Int /\ lo(j) < q /\ q <= hi(j) /\ u = x[q].src
      BY <2>6
    <3>2. PICK r \in WholeAt(x) : r \in Int /\ lo(k) < r /\ r <= hi(k) /\ z = x[r].src
      BY <2>6
    <3>3. hi(j) <= lo(k) /\ hi(j) \in Nat /\ lo(k) \in Nat
      BY <2>2, <2>3, <2>7
    <3>4. q < r
      BY <3>1, <3>2, <3>3
    <3> QED
      BY <3>1, <3>2, <3>4 DEF Ascends, x
  <2>8. Rising(c)
    <3>1. \A j, k \in 1..n : j < k => \A u \in WholeSources(y(j)), z \in WholeSources(y(k)) : u < z
      BY <2>7
    <3> QED
      BY <2>1, <2>5, <3>1 DEF Rising, y
  <2>9. AllSources(c) \subseteq WholeSources(pt.text)
    <3> SUFFICES ASSUME NEW z \in AllSources(c) PROVE z \in WholeSources(x)
      BY DEF x
    <3>1. PICK k \in 1..n : z \in WholeSources(y(k))
      BY <2>1 DEF AllSources, y
    <3> QED
      BY <2>6, <3>1 DEF WholeSources
  <2> QED
    BY <2>8, <2>9 DEF Divides
<1> QED
  BY <1>2, <1>3, TokenizationFacts

LEMMA RisingSameTexts ==
    ASSUME NEW c, NEW d, Len(d) = Len(c), \A k \in 1..Len(c) : d[k].text = c[k].text, Rising(c)
    PROVE  Rising(d)
BY DEF Rising

LEMMA RisingSub ==
    ASSUME NEW S, NEW c \in Seq(S), NEW l \in Nat, NEW h \in Nat, l <= h, h <= Len(c), Rising(c),
           NEW d, d = SubSeq(c, l + 1, h)
    PROVE  Rising(d)
<1>1. Len(d) = h - l /\ \A i \in 1..(h - l) : d[i] = c[l + i]
  BY SubSeqAt
<1>2. Len(c) \in Nat
  BY LenProperties
<1>3. \A i \in 1..(h - l) : l + i \in 1..Len(c)
  BY <1>2
<1>4. \A i, j \in 1..(h - l) : i < j => l + i < l + j
  OBVIOUS
<1> QED
  BY <1>1, <1>3, <1>4 DEF Rising

-------------------------------------------------------------------------------
(* The order of pre-tokens and tokens, and what is in them. *)

SoFarPlain ==
    stage = "pretokenize" /\ \A k \in 1..ran : config.pretokenizers[k].type # "ByteLevel"

NormalSources == {ns.bytes[i].src : i \in 1..Len(ns.bytes)}

Order ==
    OneByteLevel =>
       /\ Rising(pretokens) /\ Rising(tokens)
       /\ SoFarPlain => \A k \in 1..Len(pretokens) : Plain(pretokens[k].text)
       /\ stage # "normalize" /\ Lossless => AllSources(pretokens) = NormalSources

LEMMA EmptyRising == Rising(<<>>)
BY EmptySeq DEF Rising

LEMMA OrderInit == Init => Order
BY EmptyRising DEF Init, Order, SoFarPlain

LEMMA OrderNormalize == Shape /\ Order /\ Normalize => Order'
<1> SUFFICES ASSUME Shape, Order, Normalize PROVE Order'
  OBVIOUS
<1>1. pretokens' = <<>> /\ tokens' = <<>> /\ stage' = "normalize"
  BY DEF Normalize, Shape
<1> QED
  BY <1>1, EmptyRising DEF Order, SoFarPlain

LEMMA OrderNormalization == Shape /\ Normalization => Order'
<1> SUFFICES ASSUME Shape, Normalization PROVE Order'
  OBVIOUS
<1> DEFINE x == ns.bytes
           n == Len(x)
           b == Base(ns)
           pt == [text |-> x, first |-> 0, last |-> Len(x), align |-> <<>>]
<1>1. pretokens' = <<pt>> /\ tokens' = <<>> /\ ns' = ns
  BY DEF Normalization, Shape
<1>2. /\ b \in Nat /\ n \in Nat /\ x \in Seq(PlainBytes)
      /\ \A k \in 1..n : x[k].src = b + k - 1
  BY BaseFacts
<1>3. \A k \in 1..n : x[k].b \in PlainClasses
  <2>1. \A k \in 1..n : x[k] \in PlainBytes
    BY <1>2, ElementOfSeq
  <2> QED
    BY <2>1 DEF PlainBytes
<1>4. pt.text = x
  OBVIOUS
<1> HIDE DEF x, n, b, pt
<1>5. \A k \in 1..n : x[k].src # Inserted
  BY <1>2 DEF Inserted
<1>6. Plain(x)
  BY <1>3, <1>5 DEF Plain, n
<1>7. WholeAt(x) = 1..n
  BY <1>3, <1>5 DEF WholeAt, Whole, n, PlainClasses
<1>8. Ascends(x)
  BY <1>2, <1>7 DEF Ascends
<1>9. Len(pretokens') = 1 /\ pretokens'[1] = pt
  BY <1>1
<1>10. Rising(pretokens')
  BY <1>4, <1>8, <1>9 DEF Rising
<1>11. AllSources(pretokens') = WholeSources(x)
  BY <1>4, <1>9 DEF AllSources
<1>12. WholeSources(x) = NormalSources'
  BY <1>1, <1>7 DEF WholeSources, NormalSources, x, n
<1>13. \A k \in 1..Len(pretokens') : Plain(pretokens'[k].text)
  BY <1>4, <1>6, <1>9
<1>14. Rising(tokens')
  BY <1>1, EmptyRising
<1> QED
  BY <1>10, <1>11, <1>12, <1>13, <1>14 DEF Order

LEMMA OrderPreTokenize == Shape /\ Order /\ PreTokenize => Order'
<1> SUFFICES ASSUME Shape, Order, PreTokenize, OneByteLevel' PROVE Order'
  BY DEF Order
<1> DEFINE n == Len(ns.bytes)
           S == BoundedPreTokens(n)
           p == config.pretokenizers[ran + 1]
           R == [k \in DOMAIN pretokens |-> Cuts(pretokens[k], p)]
           m == Len(pretokens)
           N == Len(config.pretokenizers)
           full == ~Removes(p)
<1>1. /\ n \in Nat /\ pretokens \in Seq(S) /\ m \in Nat /\ DOMAIN pretokens = 1..m
      /\ \A k \in 1..m : pretokens[k] \in S
  BY ConfigFacts, LenProperties, ElementOfSeq DEF Shape
<1>2. /\ pretokens' \in Concatenations(R) /\ stage = "pretokenize" /\ stage' = stage /\ ran' = ran + 1
      /\ UNCHANGED <<original, config, ns, tokens>> /\ ran < N /\ ran \in Nat /\ N \in Nat
  BY ConfigFacts DEF PreTokenize, Shape
<1>3. /\ ran + 1 \in 1..N /\ \A k \in 1..ran : k \in 1..N /\ k # ran + 1 /\ k \in 1..(ran + 1)
      /\ DOMAIN config.pretokenizers = 1..N /\ ran + 1 \in 1..(ran + 1)
  <2>1. DOMAIN config.pretokenizers = 1..N
    BY ConfigFacts, LenProperties
  <2> HIDE DEF N
  <2> QED
    BY <1>2, <2>1
<1>4. p \in Splits \cup ByteLevels
  BY <1>3, ConfigFacts, ElementOfSeq
<1>5. /\ OneByteLevel /\ Rising(pretokens) /\ Rising(tokens)
      /\ SoFarPlain => \A k \in 1..m : Plain(pretokens[k].text)
      /\ Lossless => AllSources(pretokens) = NormalSources
  <2>1. OneByteLevel
    BY <1>2 DEF OneByteLevel
  <2> QED
    BY <1>2, <2>1 DEF Order
<1>6. p.type = "ByteLevel" => SoFarPlain
  BY <1>2, <1>3, <1>5 DEF OneByteLevel, SoFarPlain
<1>7. ASSUME NEW k \in 1..m
      PROVE  /\ R[k] = Cuts(pretokens[k], p) /\ pretokens[k] \in PreTokenSet /\ Bounded(pretokens[k], n)
             /\ Ascends(pretokens[k].text) /\ (p.type = "ByteLevel" => Plain(pretokens[k].text))
  BY <1>1, <1>5, <1>6 DEF BoundedPreTokens, Rising
<1>8. ASSUME NEW k \in 1..m
      PROVE  /\ R[k] \in SUBSET Seq(S)
             /\ \A c \in R[k] : Divides(c, pretokens[k], full)
             /\ p.type = "Split" /\ Plain(pretokens[k].text) =>
                   \A c \in R[k] : \A i \in 1..Len(c) : Plain(c[i].text)
  <2> DEFINE pt == pretokens[k]
  <2>1. /\ R[k] = Cuts(pt, p) /\ pt \in PreTokenSet /\ Bounded(pt, n)
        /\ Ascends(pt.text) /\ (p.type = "ByteLevel" => Plain(pt.text))
    BY <1>7
  <2> HIDE DEF pt, p, R, n
  <2>2. \A c \in Cuts(pt, p) : c \in Seq(S)
    BY <1>1, <1>4, <2>1, CutBounded DEF BoundedPreTokens
  <2>3. \A c \in Cuts(pt, p) : Divides(c, pt, ~Removes(p))
    BY <1>4, <2>1, CutRising
  <2>4. p.type = "Split" /\ Plain(pt.text) => \A c \in Cuts(pt, p) : \A i \in 1..Len(c) : Plain(c[i].text)
    BY <1>4, <2>1, CutRising
  <2> QED
    BY <2>1, <2>2, <2>3, <2>4 DEF pt
<1>9. DOMAIN R = 1..m
  BY <1>1
<1> HIDE DEF R, S, p, m, full, N
<1>10. /\ Rising(pretokens') /\ AllSources(pretokens') \subseteq AllSources(pretokens)
       /\ full => AllSources(pretokens) \subseteq AllSources(pretokens')
  <2>1. m = Len(pretokens) /\ Rising(pretokens)
    BY <1>5 DEF m
  <2>2. \A k \in 1..m : R[k] \in SUBSET Seq(S)
    BY <1>8
  <2>3. \A k \in 1..m : \A c \in R[k] : Divides(c, pretokens[k], full)
    BY <1>8
  <2> QED
    BY <1>1, <1>2, <1>9, <2>1, <2>2, <2>3, ConcatenationsRising
<1>11. Lossless' => AllSources(pretokens') = NormalSources'
  <2>1. Lossless' => Lossless /\ full
    BY <1>2, <1>3 DEF Lossless, Removes, full, p
  <2>2. NormalSources' = NormalSources
    BY <1>2 DEF NormalSources
  <2> QED
    BY <1>5, <1>10, <2>1, <2>2
<1>12. ASSUME SoFarPlain' PROVE \A i \in 1..Len(pretokens') : Plain(pretokens'[i].text)
  <2>1. \A k \in 1..(ran + 1) : config.pretokenizers[k].type # "ByteLevel"
    BY <1>2, <1>12 DEF SoFarPlain
  <2>2. SoFarPlain
    BY <1>2, <1>3, <2>1 DEF SoFarPlain
  <2>3. p.type = "Split"
    BY <1>3, <1>4, <2>1 DEF Splits, ByteLevels, p
  <2>4. \A k \in 1..m : Plain(pretokens[k].text)
    BY <1>5, <2>2
  <2> DEFINE P == {x \in S : Plain(x.text)}
  <2>5. ASSUME NEW k \in 1..m PROVE R[k] \in SUBSET Seq(P)
    <3> SUFFICES ASSUME NEW c \in R[k] PROVE c \in Seq(P)
      OBVIOUS
    <3>1. c \in Seq(S) /\ \A i \in 1..Len(c) : Plain(c[i].text)
      BY <1>8, <2>3, <2>4
    <3>2. Len(c) \in Nat /\ c = [i \in 1..Len(c) |-> c[i]] /\ \A i \in 1..Len(c) : c[i] \in S
      BY <3>1, LenProperties, ElementOfSeq
    <3>3. \A i \in 1..Len(c) : c[i] \in P
      BY <3>1, <3>2
    <3> HIDE DEF P
    <3> QED
      BY <3>2, <3>3
  <2> HIDE DEF P
  <2>6. pretokens' \in Seq(P)
    BY <1>1, <1>2, <1>9, <2>5, ConcatenationsSeq
  <2>7. \A i \in 1..Len(pretokens') : pretokens'[i] \in P
    BY <2>6, LenProperties, ElementOfSeq
  <2> QED
    BY <2>7 DEF P
<1>13. Rising(tokens')
  BY <1>2, <1>5
<1> QED
  BY <1>10, <1>11, <1>12, <1>13 DEF Order

LEMMA OrderTokenize == Shape /\ Order /\ Tokenize => Order'
<1> SUFFICES ASSUME Shape, Order, Tokenize, OneByteLevel' PROVE Order'
  BY DEF Order
<1> DEFINE n == Len(ns.bytes)
           S == BoundedTokens(n)
           R == [k \in DOMAIN pretokens |-> Tokenizations(pretokens[k])]
           m == Len(pretokens)
<1>1. /\ n \in Nat /\ m \in Nat /\ DOMAIN pretokens = 1..m /\ pretokens \in Seq(BoundedPreTokens(n))
      /\ \A k \in 1..m : pretokens[k] \in BoundedPreTokens(n)
  BY ConfigFacts, LenProperties, ElementOfSeq DEF Shape
<1>2. /\ tokens' \in Concatenations(R) /\ stage' = "process" /\ stage = "pretokenize"
      /\ UNCHANGED <<original, config, ns, pretokens>>
  BY DEF Tokenize
<1>3. OneByteLevel /\ Rising(pretokens) /\ (Lossless => AllSources(pretokens) = NormalSources)
  <2>1. OneByteLevel
    BY <1>2 DEF OneByteLevel
  <2> QED
    BY <1>2, <2>1 DEF Order
<1>4. ASSUME NEW k \in 1..m
      PROVE  R[k] \in SUBSET Seq(S) /\ \A c \in R[k] : Divides(c, pretokens[k], FALSE)
  <2> DEFINE pt == pretokens[k]
  <2>1. R[k] = Tokenizations(pt) /\ pt \in PreTokenSet /\ Bounded(pt, n) /\ Ascends(pt.text)
    BY <1>1, <1>3 DEF BoundedPreTokens, Rising
  <2> HIDE DEF pt, R, n
  <2>2. \A c \in Tokenizations(pt) : c \in Seq(S)
    BY <1>1, <2>1, TokenizationBounded DEF BoundedTokens
  <2>3. \A c \in Tokenizations(pt) : Divides(c, pt, FALSE)
    BY <2>1, TokenizationRising
  <2> QED
    BY <2>1, <2>2, <2>3 DEF pt
<1>5. DOMAIN R = 1..m
  BY <1>1
<1> HIDE DEF R, S, m
<1>6. Rising(tokens')
  <2>1. m = Len(pretokens)
    BY DEF m
  <2>2. \A k \in 1..m : R[k] \in SUBSET Seq(S)
    BY <1>4
  <2>3. \A k \in 1..m : \A c \in R[k] : Divides(c, pretokens[k], FALSE)
    BY <1>4
  <2> QED
    BY <1>1, <1>2, <1>3, <1>5, <2>1, <2>2, <2>3, ConcatenationsRising
<1>7. Lossless' => AllSources(pretokens') = NormalSources'
  BY <1>2, <1>3 DEF Lossless, NormalSources
<1> QED
  BY <1>2, <1>3, <1>6, <1>7 DEF Order, SoFarPlain

\* Trimming and aligning keep the text of every token.
LEMMA SameTexts ==
    ASSUME Shape, Process \/ Align
    PROVE  Len(tokens') = Len(tokens) /\ \A k \in 1..Len(tokens) : tokens'[k].text = tokens[k].text
<1> DEFINE n == Len(ns.bytes)
           S == BoundedTokens(n)
           m == Len(tokens)
<1>1. /\ m \in Nat /\ DOMAIN tokens = 1..m /\ \A k \in 1..m : tokens[k] \in TokenSet
  <2>1. tokens \in Seq(S)
    BY DEF Shape, Process, Align
  <2>2. \A k \in 1..m : tokens[k] \in S
    BY <2>1, LenProperties, ElementOfSeq
  <2> QED
    BY <2>1, <2>2, LenProperties DEF BoundedTokens
<1>2. CASE Process
  <2> DEFINE D(k) == Trim(tokens[k], k, config.post.prefix)
  <2>1. tokens' = tokens \/ tokens' = [k \in 1..m |-> D(k)]
    BY <1>1, <1>2 DEF Process
  <2>2. \A k \in 1..m : D(k).text = tokens[k].text
    <3> SUFFICES ASSUME NEW k \in 1..m PROVE D(k).text = tokens[k].text
      OBVIOUS
    <3> DEFINE token == tokens[k]
               prefix == config.post.prefix
    <3>1. token \in TokenSet
      BY <1>1
    <3> HIDE DEF token, prefix
    <3>2. Trim(token, k, prefix).text = token.text
      <4>1. \E l \in {0, LeadWhite(token)} : TrimmedBy(Trim(token, k, prefix), token, l, TailWhite(token))
        BY <3>1, TrimFacts
      <4> QED
        BY <4>1 DEF TrimmedBy
    <3> QED
      BY <3>2 DEF token, prefix
  <2> HIDE DEF D, m
  <2> QED
    BY <1>1, <2>1, <2>2 DEF m
<1>3. CASE Align
  <2> DEFINE o(k) == AlignToOriginal(ns.align, tokens[k].first, tokens[k].last)
             D(k) == [tokens[k] EXCEPT !.first = o(k)[1], !.last = o(k)[2]]
  <2>1. tokens' = [k \in 1..m |-> D(k)]
    BY <1>1, <1>3 DEF Align
  <2>2. \A k \in 1..m : D(k).text = tokens[k].text
    <3> SUFFICES ASSUME NEW k \in 1..m PROVE D(k).text = tokens[k].text
      OBVIOUS
    <3>1. tokens[k] \in TokenSet
      BY <1>1
    <3> HIDE DEF o
    <3> QED
      BY <3>1 DEF TokenSet
  <2> HIDE DEF D, m
  <2> QED
    BY <1>1, <2>1, <2>2 DEF m
<1> QED
  BY <1>2, <1>3

LEMMA OrderLater == Shape /\ Order /\ (Process \/ Align \/ Truncate) => Order'
<1> SUFFICES ASSUME Shape, Order, Process \/ Align \/ Truncate, OneByteLevel' PROVE Order'
  BY DEF Order
<1>1. /\ stage \notin {"normalize", "pretokenize"} /\ stage' \notin {"normalize", "pretokenize"}
      /\ UNCHANGED <<original, config, ran, ns, pretokens>>
  BY DEF Process, Align, Truncate
<1>2. OneByteLevel
  BY <1>1 DEF OneByteLevel
<1>3. /\ Rising(pretokens) /\ Rising(tokens) /\ (Lossless => AllSources(pretokens) = NormalSources)
  BY <1>1, <1>2 DEF Order
<1>4. Rising(tokens')
  <2>1. CASE Process \/ Align
    BY <1>3, <2>1, SameTexts, RisingSameTexts
  <2>2. CASE Truncate
    <3>1. tokens \in Seq(FinishedTokens(Len(original)))
      BY <2>2 DEF Shape, Truncate
    <3>2. PICK l \in Nat, h \in Nat : l <= h /\ h <= Len(tokens) /\ tokens' = SubSeq(tokens, l + 1, h)
      BY <2>2, TruncateFacts
    <3> QED
      BY <1>3, <3>1, <3>2, RisingSub
  <2> QED
    BY <2>1, <2>2
<1>5. Rising(pretokens') /\ (Lossless' => AllSources(pretokens') = NormalSources')
  BY <1>1, <1>3 DEF Lossless, NormalSources
<1>6. ~SoFarPlain'
  BY <1>1 DEF SoFarPlain
<1> QED
  BY <1>4, <1>5, <1>6 DEF Order

LEMMA OrderNext == Shape /\ Order /\ [Next]_vars => Order'
<1> SUFFICES ASSUME Shape, Order, [Next]_vars PROVE Order'
  OBVIOUS
<1>1. CASE Terminating \/ UNCHANGED vars
  <2>1. UNCHANGED <<original, config, ran, ns, pretokens, tokens, stage>>
    BY <1>1 DEF Terminating, vars
  <2> QED
    BY <2>1 DEF Order, OneByteLevel, SoFarPlain, Lossless, NormalSources
<1> QED
  BY <1>1, OrderNormalize, OrderNormalization, OrderPreTokenize, OrderTokenize, OrderLater DEF Next

(***************************************************************************)
(* With one ByteLevel at most, pre-tokens and tokens hold the bytes of the *)
(* text in its order, each byte in one of them, and no byte is missing     *)
(* where no Split removes its delimiters.                                  *)
(***************************************************************************)
THEOREM PipelineOrder == Spec => [](Shape /\ Placement /\ Tracing /\ Order)
<1>1. Init => Shape /\ Order
  BY ShapeInit, OrderInit
<1>2. (Shape /\ Order) /\ [Next]_vars => (Shape /\ Order)'
  BY ShapeNext, OrderNext
<1>3. Spec => [](Shape /\ Order)
  BY <1>1, <1>2, PTL DEF Spec
<1> QED
  BY <1>3, PipelineTracing, PTL

LEMMA OrderLossless == Shape /\ Order => NothingLost
<1> DEFINE places == {q \in UNION {{k} \X DOMAIN pretokens[k].text : k \in DOMAIN pretokens} :
                         Whole(pretokens[q[1]].text[q[2]])}
           src(q) == pretokens[q[1]].text[q[2]].src
<1> SUFFICES ASSUME Shape, Order, stage = "process", Lossless, OneByteLevel
             PROVE  /\ {src(q) : q \in places} = {ns.bytes[i].src : i \in DOMAIN ns.bytes}
                    /\ \A q, r \in places :
                          q[1] < r[1] \/ (q[1] = r[1] /\ q[2] < r[2]) => src(q) < src(r)
  BY DEF NothingLost
<1> DEFINE m == Len(pretokens)
           x(k) == pretokens[k].text
<1>1. /\ DOMAIN pretokens = 1..m /\ \A k \in 1..m : DOMAIN x(k) = 1..Len(x(k))
      /\ DOMAIN ns.bytes = 1..Len(ns.bytes)
  <2>1. pretokens \in Seq(BoundedPreTokens(Len(ns.bytes)))
    BY DEF Shape
  <2>2. \A k \in 1..m : pretokens[k] \in PreTokenSet
    BY <2>1, LenProperties, ElementOfSeq DEF BoundedPreTokens
  <2> QED
    BY <2>1, <2>2, BaseFacts, LenProperties DEF PreTokenSet
<1>2. Rising(pretokens) /\ AllSources(pretokens) = NormalSources
  BY DEF Order
<1>3. \A q \in places : /\ q[1] \in 1..m /\ q[2] \in WholeAt(x(q[1])) /\ src(q) = x(q[1])[q[2]].src
                        /\ src(q) \in WholeSources(x(q[1]))
  BY SMTT(30), <1>1 DEF WholeAt, WholeSources
<1>4. \A k \in 1..m : \A i \in WholeAt(x(k)) : <<k, i>> \in places /\ src(<<k, i>>) = x(k)[i].src
  BY <1>1 DEF WholeAt
<1>5. /\ \A k \in 1..m : Ascends(x(k))
      /\ \A j, k \in 1..m : j < k => \A u \in WholeSources(x(j)), z \in WholeSources(x(k)) : u < z
      /\ AllSources(pretokens) = UNION {WholeSources(x(k)) : k \in 1..m}
  BY <1>2 DEF Rising, AllSources
<1> HIDE DEF places, src, m, x
<1>6. {src(q) : q \in places} = UNION {WholeSources(x(k)) : k \in 1..m}
  <2>1. \A k \in 1..m : \A s \in WholeSources(x(k)) : \E q \in places : s = src(q)
    BY <1>4 DEF WholeSources
  <2> QED
    BY <1>3, <2>1
<1>7. {ns.bytes[i].src : i \in DOMAIN ns.bytes} = NormalSources
  BY <1>1 DEF NormalSources
<1>8. ASSUME NEW q \in places, NEW r \in places, q[1] < r[1] \/ (q[1] = r[1] /\ q[2] < r[2])
      PROVE  src(q) < src(r)
  <2>1. CASE q[1] < r[1]
    BY <1>3, <1>5, <2>1
  <2>2. CASE q[1] = r[1] /\ q[2] < r[2]
    <3>1. Ascends(x(q[1])) /\ q[2] \in WholeAt(x(q[1])) /\ r[2] \in WholeAt(x(q[1]))
      BY <1>3, <1>5, <2>2
    <3>2. x(q[1])[q[2]].src < x(q[1])[r[2]].src
      BY <2>2, <3>1 DEF Ascends
    <3> QED
      BY <1>3, <2>2, <3>2
  <2> QED
    BY <1>8, <2>1, <2>2
<1> QED
  BY <1>2, <1>5, <1>6, <1>7, <1>8

(***************************************************************************)
(* The pieces of build_segments and apply_behavior put together are the    *)
(* normalized text again, under every behaviour but Removed.               *)
(***************************************************************************)
THEOREM EncodeNothingLost == Spec => []NothingLost
BY PipelineOrder, OrderLossless, PTL

LEMMA OrderOrdered == Shape /\ Tracing /\ Order => Ordered
<1> SUFFICES ASSUME Shape, Tracing, Order, stage = "done", NoPrefix, OneByteLevel,
                    NEW k \in 1..(Len(tokens) - 1)
             PROVE  tokens[k].last <= tokens[k + 1].first
  BY DEF Ordered
<1> DEFINE u == tokens[k]
           v == tokens[k + 1]
           b == Base(ns)
           n == Len(ns.bytes)
<1>1. b \in Nat /\ n \in Nat /\ Len(tokens) \in Nat /\ k \in 1..Len(tokens) /\ k + 1 \in 1..Len(tokens) /\ k < k + 1
  <2>1. Len(tokens) \in Nat
    BY LenProperties DEF Shape
  <2> QED
    BY <2>1, BaseFacts
<1>2. /\ TokenPlaced(u, b, n) /\ Inside(u, 0, config.post.trim)
      /\ TokenPlaced(v, b, n) /\ Inside(v, 0, config.post.trim)
  BY <1>1 DEF Tracing
<1>3. \A x \in WholeSources(u.text), y \in WholeSources(v.text) : x < y
  BY <1>1 DEF Order, Rising
<1> HIDE DEF u, v, b, n
<1>4. /\ Lo(u) \in b..(b + n - 1) /\ Hi(u) \in b..(b + n - 1) /\ Lo(v) \in b..(b + n - 1)
      /\ u.first \in Int /\ u.last \in Int /\ v.first \in Int /\ v.last \in Int
  BY <1>1, <1>2, PlacedRange
<1>5. ASSUME NEW t, TokenPlaced(t, b, n), NEW i \in 1..Len(t.text), t.text[i].b \notin Tails
      PROVE  t.text[i].src \in WholeSources(t.text)
  <2>1. t.text[i].src \in b..(b + n - 1)
    BY <1>5 DEF TokenPlaced
  <2>2. t.text[i].src # Inserted
    BY <1>1, <2>1 DEF Inserted
  <2>3. i \in WholeAt(t.text)
    BY <1>5, <2>2 DEF WholeAt, Whole, Tails
  <2> QED
    BY <2>3 DEF WholeSources
<1>6. Lo(v) \in WholeSources(v.text)
  <2>1. v.text \in Seq(Bytes) /\ v.text # <<>> /\ v.text[1].b \notin Tails
    BY <1>2 DEF TokenPlaced, TokenSet, Clean
  <2>2. 1 \in 1..Len(v.text)
    BY <2>1, EmptySeq, LenProperties
  <2> QED
    BY <1>2, <1>5, <2>1, <2>2 DEF Lo
<1>7. Hi(u) \in WholeSources(u.text)
  <2> DEFINE x == u.text
             m == Len(x)
  <2>1. x \in Seq(Bytes) /\ x # <<>> /\ x[1].b \notin Tails /\ m \in Nat
    BY <1>2, LenProperties DEF TokenPlaced, TokenSet, Clean
  <2>2. m \in 1..m
    BY <2>1, EmptySeq
  <2>3. CASE x[m].b \notin Tails
    BY <1>2, <1>5, <2>2, <2>3 DEF Hi
  <2>4. CASE x[m].b \in Tails
    <3> DEFINE h == m - 1
    <3>1. m # 1
      BY <2>1, <2>4
    <3>2. h \in 1..(m - 1) /\ h + 1 = m /\ h \in 1..m
      <4>1. m \in Nat /\ m \in 1..m /\ m # 1
        BY <2>1, <2>2, <3>1
      <4> HIDE DEF m
      <4> QED
        BY <4>1
    <3> HIDE DEF h
    <3>3. x[m].src = x[h].src /\ Spelled(x[h].b, x[m].b)
      BY <1>2, <2>4, <3>2 DEF TokenPlaced, Clean
    <3>4. x[h].b \notin Tails
      BY <3>3 DEF Spelled, Tails
    <3>5. x[h].src \in WholeSources(x)
      BY <1>2, <1>5, <3>2, <3>4
    <3> QED
      BY <3>3, <3>5 DEF Hi
  <2> QED
    BY <2>3, <2>4
<1>8. Hi(u) < Lo(v)
  BY <1>3, <1>6, <1>7
<1>9. u.last <= Hi(u) - 0 + 1 /\ Lo(v) - 0 <= v.first
  BY <1>2 DEF Inside
<1> DEFINE x == Hi(u)
           y == Lo(v)
<1>10. x \in Int /\ y \in Int
  BY <1>1, <1>4
<1> HIDE DEF x, y
<1>11. u.last <= v.first
  BY <1>4, <1>8, <1>9, <1>10 DEF x, y
<1> QED
  BY <1>11 DEF u, v

(***************************************************************************)
(* Without an inserted space, the tokens encode_one returns are in text    *)
(* order and their offsets do not overlap.                                 *)
(***************************************************************************)
THEOREM EncodeOrdered == Spec => []Ordered
BY PipelineOrder, OrderOrdered, PTL
================================================================================
