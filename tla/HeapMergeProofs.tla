--------------------------- MODULE HeapMergeProofs ---------------------------
(***************************************************************************)
(* Proofs about merge_all.  The first part is about the loop of WordMerge, *)
(* for every word, merge map and dropout decision.  The second part is     *)
(* about the array heap, for every arity: the heap is in order when it is  *)
(* looked at, the queue holds what WordMerge says it holds, and so the     *)
(* loop of the code is the loop of WordMerge and has all its properties.   *)
(***************************************************************************)
EXTENDS HeapMerge, SequenceLemmas

-------------------------------------------------------------------------------
(* The loop of WordMerge. *)

-------------------------------------------------------------------------------
(* The inductive invariant. *)

\* A candidate that no longer stands for the pair at its position has been
\* overtaken: the pair now there covers more text than the candidate's token.
Overtaken(m) == Width[sym[m.pos].c] + Width[sym[sym[m.pos].next].c] > Width[m.id]

Stands(m) ==
    /\ PairAt(sym, m.pos) \in DOMAIN merges
    /\ merges[PairAt(sym, m.pos)].rank = m.rank
    /\ merges[PairAt(sym, m.pos)].id = m.id

CandidatesTrue ==
    \A m \in heap \cup skipped : HasPair(sym, m.pos) => Overtaken(m) \/ Stands(m)

Phases ==
    /\ pc = "seed" => heap = {} /\ skipped = {}
    /\ pc = "done" => heap = {}
    /\ dropout = "none" => skipped = {}

IInv == TypeOK /\ Linked /\ Tiled /\ Phases /\ CandidatesTrue /\ Covered

-------------------------------------------------------------------------------
(* Words and merge maps. *)

\* The positions of a word are 0..n-1, each symbol ending where the next begins.
LEMMA WordFacts ==
    ASSUME word \in Words
    PROVE  /\ \E n \in Nat : Nodes = 0..(n - 1)
           /\ \A i \in Nodes : /\ word[i].c \in Id /\ word[i].at \in Nat
                               /\ word[i].len \in Nat \ {0}
           /\ \A i \in Nodes : i + 1 \in Nodes => word[i + 1].at = word[i].at + word[i].len
<1> DEFINE n == Cardinality(DOMAIN word)
<1>1. /\ n \in Nat
      /\ word \in [0..(n - 1) -> [c : Id, at : Nat, len : Nat \ {0}]]
      /\ \A i \in 0..(n - 2) : word[i + 1].at = word[i].at + word[i].len
  BY WordAssumption DEF IsWord
<1>2. Nodes = 0..(n - 1)
  BY <1>1 DEF Nodes
<1> HIDE DEF n
<1>3. \A i \in Nodes : i + 1 \in Nodes => i \in 0..(n - 2)
  BY <1>1, <1>2
<1> QED
  BY <1>1, <1>2, <1>3

\* A merge table gives each of its pairs a rank, an id and the sum of the widths.
LEMMA TableFacts ==
    ASSUME merges \in MergeTables, NEW p \in DOMAIN merges
    PROVE  /\ p \in Id \X Id /\ merges[p].rank \in Nat /\ merges[p].id \in Id
           /\ Width[merges[p].id] = Width[p[1]] + Width[p[2]]
BY TableAssumption DEF IsMergeTable

\* A candidate describes the pair at its position.
LEMMA CandidateFacts ==
    ASSUME TypeOK, NEW i, NEW m \in Candidates(sym, i)
    PROVE  /\ m.pos = i /\ HasPair(sym, i) /\ PairAt(sym, i) \in DOMAIN merges
           /\ m.rank = merges[PairAt(sym, i)].rank /\ m.id = merges[PairAt(sym, i)].id
           /\ m \in Candidate
<1>1. /\ HasPair(sym, i) /\ PairAt(sym, i) \in DOMAIN merges
      /\ m = [pos |-> i, rank |-> merges[PairAt(sym, i)].rank, id |-> merges[PairAt(sym, i)].id]
  BY DEF Candidates
<1>2. i \in Nodes
  BY <1>1 DEF HasPair, TypeOK
<1>3. merges \in MergeTables
  BY DEF TypeOK
<1> QED
  BY <1>1, <1>2, <1>3, TableFacts DEF Candidate

-------------------------------------------------------------------------------
(* The initial list. *)

\* The list that Word::add builds satisfies the invariant.
LEMMA InitIInv == ASSUME Init PROVE IInv
<1> USE DEF Init
<1>1. PICK n \in Nat : Nodes = 0..(n - 1)
  BY WordFacts
<1>2. \A i \in Nodes : /\ sym[i].c = word[i].c /\ sym[i].prev = i - 1
                       /\ sym[i].next = (IF i + 1 \in Nodes THEN i + 1 ELSE NoSym)
                       /\ sym[i].len = word[i].len
  BY DEF Built, Symbol, Nodes
<1>3. Live = Nodes
  BY ZenonT(30), <1>2, WordFacts DEF Live, Alive, Built, Nodes
<1>4. TypeOK
  <2>1. sym \in [Nodes -> [c : Id, prev : Nodes \cup {NoSym},
                           next : Nodes \cup {NoSym}, len : Nat]]
    <3>1. \A i \in Nodes : i - 1 \in Nodes \cup {NoSym}
      BY <1>1 DEF NoSym
    <3> QED
      BY <3>1, WordFacts DEF Built, Symbol, Nodes
  <2>2. live \in Int
    <3>1. IsFiniteSet(DOMAIN word)
      BY <1>1, FS_Interval DEF Nodes
    <3> QED
      BY <3>1, FS_CardinalityType
  <2> QED
    BY <2>1, <2>2 DEF TypeOK
<1>5. Linked
  BY SMTT(30), <1>1, <1>2, <1>3 DEF Linked, NextOK, PrevOK, NoSym
<1>6. Tiled
  <2>0. /\ word \in Words
        /\ \A i \in Nodes : i + 1 \in Nodes => word[i + 1].at = word[i].at + word[i].len
        /\ \A i \in Nodes : i # NoSym
    BY <1>1, WordFacts DEF NoSym
  <2> SUFFICES ASSUME NEW i \in Nodes
               PROVE  IF sym[i].next = NoSym
                      THEN \A k \in Nodes : LastNode(k) => word[i].at + sym[i].len = EndOf(word, k)
                      ELSE word[i].at + sym[i].len = word[sym[i].next].at
    BY <1>3 DEF Tiled
  <2>1. CASE i + 1 \in Nodes
    BY <1>2, <2>0, <2>1
  <2>2. CASE i + 1 \notin Nodes
    <3>1. ASSUME NEW k \in Nodes, LastNode(k) PROVE k = i
      BY <1>1, <2>2, <3>1 DEF LastNode
    <3> QED
      BY <1>2, <2>2, <3>1 DEF EndOf
  <2> QED
    BY <2>1, <2>2
<1>7. Phases /\ CandidatesTrue /\ Covered
  BY DEF Phases, CandidatesTrue, Covered
<1> QED
  BY <1>4, <1>5, <1>6, <1>7 DEF IInv

-------------------------------------------------------------------------------
(* Steps that leave the list alone. *)

\* What holds of the list survives a step that does not change it.
LEMMA ListFrame ==
    ASSUME IInv, UNCHANGED <<word, merges, dropout, sym>>
    PROVE  /\ Linked' /\ Tiled' /\ Live' = Live /\ Nodes' = Nodes
           /\ Candidate' = Candidate
           /\ \A i : Candidates(sym, i)' = Candidates(sym, i)
           /\ \A m : /\ HasPair(sym, m.pos)' = HasPair(sym, m.pos)
                     /\ Overtaken(m)' = Overtaken(m) /\ Stands(m)' = Stands(m)
<1> USE DEF IInv
<1>1. Live' = Live /\ Nodes' = Nodes /\ Candidate' = Candidate
  BY DEF Live, Nodes, Alive, Candidate
<1>2. Linked'
  BY <1>1 DEF Linked, NextOK, PrevOK
<1>3. Tiled'
  BY <1>1 DEF Tiled, LastNode, EndOf
<1>4. \A i : Candidates(sym, i)' = Candidates(sym, i)
  BY DEF Candidates, HasPair, PairAt, Alive
<1>5. \A m : /\ HasPair(sym, m.pos)' = HasPair(sym, m.pos)
             /\ Overtaken(m)' = Overtaken(m) /\ Stands(m)' = Stands(m)
  BY DEF HasPair, PairAt, Alive, Overtaken, Stands
<1> QED
  BY <1>1, <1>2, <1>3, <1>4, <1>5

\* A step that changes nothing keeps the invariant.
LEMMA StutterStep == ASSUME IInv, UNCHANGED vars PROVE IInv'
<1> USE DEF IInv, vars
<1>1. TypeOK'
  BY ListFrame DEF TypeOK
<1>2. Phases' /\ CandidatesTrue' /\ Covered'
  BY ListFrame DEF Phases, CandidatesTrue, Covered
<1> QED
  BY <1>1, <1>2, ListFrame

\* The early return on an empty word keeps the invariant.
LEMMA EmptyWordStep == ASSUME IInv, EmptyWord PROVE IInv'
<1> USE DEF IInv, EmptyWord
<1>1. TypeOK'
  BY ListFrame DEF TypeOK
<1>2. Phases' /\ CandidatesTrue'
  BY ListFrame DEF Phases, CandidatesTrue
<1>3. Covered'
  BY ListFrame DEF Covered, Live, TypeOK
<1> QED
  BY <1>1, <1>2, <1>3, ListFrame

\* The initial scan pushes a candidate for every mergeable pair.
LEMMA SeedStep == ASSUME IInv, Seed PROVE IInv'
<1> USE DEF IInv, Seed
<1>1. \A m \in heap' : /\ m \in Candidate /\ Stands(m)
  BY CandidateFacts DEF Stands
<1>2. TypeOK'
  BY <1>1, ListFrame DEF TypeOK
<1>3. Phases'
  BY DEF Phases
<1>4. CandidatesTrue'
  BY <1>1, ListFrame DEF CandidatesTrue, Phases
<1>5. Covered'
  BY ListFrame DEF Covered, Live, TypeOK
<1> QED
  BY <1>2, <1>3, <1>4, <1>5, ListFrame

\* A candidate that fails validation covers no pair.
LEMMA InvalidCoversNothing ==
    ASSUME TypeOK, NEW m, ~Valid(m), NEW i
    PROVE  m \notin Candidates(sym, i)
BY CandidateFacts DEF Valid

\* Dropping a stale candidate keeps the invariant.
LEMMA PopStaleStep == ASSUME IInv, PopStale PROVE IInv'
<1> USE DEF IInv, PopStale, DropStale
<1>1. PICK m \in Tops : ~Valid(m) /\ heap' = heap \ {m}
  OBVIOUS
<1>2. TypeOK'
  BY <1>1, ListFrame DEF TypeOK
<1>3. Phases' /\ CandidatesTrue'
  BY <1>1, ListFrame DEF Phases, CandidatesTrue
<1>4. Covered'
  BY <1>1, ListFrame, InvalidCoversNothing DEF Covered
<1> QED
  BY <1>2, <1>3, <1>4, ListFrame

\* Putting a valid candidate aside for dropout keeps the invariant.
LEMMA PopDroppedStep == ASSUME IInv, PopDropped PROVE IInv'
<1> USE DEF IInv, PopDropped, SetAside
<1>1. PICK m \in Tops : /\ Valid(m) /\ heap' = heap \ {m}
                        /\ skipped' = skipped \cup {m}
  OBVIOUS
<1>2. m \in heap
  BY <1>1 DEF Tops
<1>3. TypeOK'
  BY <1>1, <1>2, ListFrame DEF TypeOK
<1>4. Phases' /\ CandidatesTrue'
  BY <1>1, <1>2, ListFrame DEF Phases, CandidatesTrue
<1>5. Covered'
  BY <1>1, <1>2, ListFrame DEF Covered
<1> QED
  BY <1>3, <1>4, <1>5, ListFrame

\* compact() runs on an empty queue and keeps the invariant.
LEMMA CompactStep == ASSUME IInv, Compact PROVE IInv'
<1> USE DEF IInv, Compact, Finish
<1>1. live' \in Int
  <2>1. PICK n \in Nat : Nodes = 0..(n - 1)
    BY WordFacts DEF TypeOK
  <2>2. IsFiniteSet(Live)
    <3>1. IsFiniteSet(Nodes)
      BY <2>1, FS_Interval
    <3>2. Live \subseteq Nodes
      BY DEF Live, TypeOK
    <3> QED
      BY <3>1, <3>2, FS_Subset
  <2>3. Cardinality(Live) \in Nat
    BY <2>2, FS_CardinalityType
  <2>4. DOMAIN out' = 0..(Cardinality(Live) - 1)
    BY DEF Kept, Live
  <2> QED
    BY <2>3, <2>4, FS_Interval, FS_CardinalityType
<1>2. TypeOK'
  BY <1>1, ListFrame DEF TypeOK
<1>3. Phases' /\ CandidatesTrue' /\ Covered'
  BY ListFrame DEF Phases, CandidatesTrue, Covered
<1> QED
  BY <1>2, <1>3, ListFrame

-------------------------------------------------------------------------------
(* The merge step. *)

\* What absorbing the right neighbour does to each symbol.
LEMMA AbsorbFacts ==
    ASSUME TypeOK, Linked, NEW i \in Live, sym[i].next # NoSym, NEW id \in Id,
           sym' = Absorb(sym, i, id), word' = word
    PROVE  LET j  == sym[i].next
               n2 == sym[j].next
           IN /\ i \in Nodes /\ j \in Nodes /\ i \in Int /\ j \in Int /\ i < j /\ j \in Live
              /\ sym[j].len \in Nat \ {0} /\ sym[i].len \in Nat \ {0}
              /\ n2 # NoSym => n2 \in Live /\ j < n2 /\ n2 # i /\ n2 # j
              /\ i # j /\ NoSym \notin Nodes
              /\ sym' \in [Nodes -> [c : Id, prev : Nodes \cup {NoSym},
                                     next : Nodes \cup {NoSym}, len : Nat]]
              /\ Live' = Live \ {j}
              /\ /\ sym'[i].c = id /\ sym'[i].prev = sym[i].prev
                 /\ sym'[i].next = n2 /\ sym'[i].len = sym[i].len + sym[j].len
              /\ sym'[j].len = 0
              /\ n2 # NoSym => /\ sym'[n2].c = sym[n2].c /\ sym'[n2].prev = i
                               /\ sym'[n2].next = sym[n2].next /\ sym'[n2].len = sym[n2].len
              /\ \A k \in Nodes \ {i, j, n2} : sym'[k] = sym[k]
<1> DEFINE j  == sym[i].next
           n2 == sym[j].next
<1>0. PICK n \in Nat : Nodes = 0..(n - 1)
  BY WordFacts DEF TypeOK
<1>1. /\ i \in Nodes /\ j \in Live /\ j \in Nodes /\ i < j
  BY DEF Live, TypeOK, Linked, NextOK
<1>2. n2 # NoSym => n2 \in Live /\ j < n2
  BY <1>1 DEF Live, TypeOK, Linked, NextOK
<1>3. n2 \in Nodes \cup {NoSym} /\ NoSym \notin Nodes /\ i \in Int /\ j \in Int /\ n2 # i /\ n2 # j
  BY <1>0, <1>1, <1>2 DEF TypeOK, NoSym
<1>4. \A k \in Nodes :
         sym'[k] = CASE k = i  -> Symbol(id, sym[i].prev, n2, sym[i].len + sym[j].len)
                     [] k = j  -> [sym[j] EXCEPT !.len = 0]
                     [] k = n2 -> [sym[k] EXCEPT !.prev = i]
                     [] OTHER  -> sym[k]
  BY DEF Absorb, TypeOK
<1>5. sym'[i] = Symbol(id, sym[i].prev, n2, sym[i].len + sym[j].len)
  <2>1. i # j /\ i # n2
    BY <1>1, <1>3
  <2> HIDE DEF j, n2
  <2> QED
    BY <1>1, <1>4, <2>1
<1>6. sym'[j] = [sym[j] EXCEPT !.len = 0]
  BY <1>1, <1>3, <1>4
<1>7. n2 # NoSym => sym'[n2] = [sym[n2] EXCEPT !.prev = i]
  BY <1>1, <1>3, <1>4
<1>8. \A k \in Nodes \ {i, j, n2} : sym'[k] = sym[k]
  BY <1>4
<1>9. \A k \in Nodes : sym[k] \in [c : Id, prev : Nodes \cup {NoSym},
                                    next : Nodes \cup {NoSym}, len : Nat]
  BY DEF TypeOK
<1>10. sym[i].len \in Nat \ {0} /\ sym[j].len \in Nat \ {0}
  BY <1>1, <1>9 DEF Live, Alive
<1> HIDE DEF j, n2
<1>11. sym' \in [Nodes -> [c : Id, prev : Nodes \cup {NoSym},
                           next : Nodes \cup {NoSym}, len : Nat]]
  <2>1. \A k \in Nodes : sym'[k] \in [c : Id, prev : Nodes \cup {NoSym},
                                       next : Nodes \cup {NoSym}, len : Nat]
    <3> SUFFICES ASSUME NEW k \in Nodes
                 PROVE  sym'[k] \in [c : Id, prev : Nodes \cup {NoSym},
                                     next : Nodes \cup {NoSym}, len : Nat]
      OBVIOUS
    <3>1. CASE k = i
      BY <1>1, <1>3, <1>5, <1>9, <1>10, <3>1 DEF Symbol
    <3>2. CASE k = j
      BY <1>6, <1>9, <3>2
    <3>3. CASE k = n2
      BY <1>1, <1>3, <1>7, <1>9, <3>3
    <3>4. CASE k \notin {i, j, n2}
      BY <1>8, <1>9, <3>4
    <3> QED
      BY <3>1, <3>2, <3>3, <3>4
  <2> QED
    BY <2>1 DEF Absorb, TypeOK
<1>12. /\ /\ sym'[i].c = id /\ sym'[i].prev = sym[i].prev
          /\ sym'[i].next = n2 /\ sym'[i].len = sym[i].len + sym[j].len
       /\ sym'[j].len = 0
       /\ n2 # NoSym => /\ sym'[n2].c = sym[n2].c /\ sym'[n2].prev = i
                        /\ sym'[n2].next = sym[n2].next /\ sym'[n2].len = sym[n2].len
  BY <1>1, <1>3, <1>5, <1>6, <1>7, <1>9 DEF Symbol
<1>13. Live' = Live \ {j}
  <2>1. DOMAIN sym' = Nodes /\ DOMAIN sym = Nodes
    BY <1>11 DEF TypeOK
  <2>2. \A k \in Nodes : sym'[k].len # 0 <=> sym[k].len # 0 /\ k # j
    <3> SUFFICES ASSUME NEW k \in Nodes
                 PROVE  sym'[k].len # 0 <=> sym[k].len # 0 /\ k # j
      OBVIOUS
    <3>1. CASE k = i
      BY <1>1, <1>10, <1>12, <3>1, <1>3
    <3>2. CASE k = j
      BY <1>12, <3>2
    <3>3. CASE k = n2
      BY <1>3, <1>12, <3>3
    <3>4. CASE k \notin {i, j, n2}
      BY <1>8, <3>4
    <3> QED
      BY <3>1, <3>2, <3>3, <3>4
  <2> QED
    BY <2>1, <2>2 DEF Live, Alive
<1> QED
  BY <1>1, <1>2, <1>3, <1>8, <1>10, <1>11, <1>12, <1>13 DEF j, n2

\* Relinking around an absorbed symbol leaves a well-formed list.
LEMMA AbsorbLinked ==
    ASSUME TypeOK, Linked, NEW i \in Live, sym[i].next # NoSym, NEW id \in Id,
           sym' = Absorb(sym, i, id), word' = word
    PROVE  Linked'
<1> DEFINE j  == sym[i].next
           n2 == sym[j].next
<1>1. /\ i \in Nodes /\ j \in Live /\ i < j /\ i \in Int /\ j \in Int
      /\ n2 # NoSym => n2 \in Live /\ j < n2 /\ n2 # i
      /\ Live' = Live \ {j}
      /\ sym'[i].prev = sym[i].prev /\ sym'[i].next = n2
      /\ n2 # NoSym => sym'[n2].prev = i /\ sym'[n2].next = sym[n2].next
      /\ \A k \in Nodes \ {i, j, n2} : sym'[k] = sym[k]
  BY AbsorbFacts
<1>2. \A k \in Live : /\ k \in Nodes /\ k \in Int /\ k # NoSym
                      /\ NextOK(k) /\ PrevOK(k)
  BY WordFacts DEF Linked, Live, TypeOK, NoSym
<1>3. sym[j].prev = i /\ (n2 # NoSym => sym[n2].prev = j)
  BY <1>1, <1>2 DEF NextOK
<1>4. \A k \in Live : /\ sym[k].next = j => k = i
                      /\ n2 # NoSym /\ sym[k].next = n2 => k = j
                      /\ sym[k].prev = j => k = n2
                      /\ sym[k].prev = i => k = j
  BY <1>2, <1>3 DEF NextOK, PrevOK
<1>5. \A k \in Live : sym[k].next # NoSym => k < sym[k].next /\ sym[k].next \in Live
  BY <1>2 DEF NextOK
<1>6. \A k \in Live : sym[k].prev # NoSym => sym[k].prev \in Live /\ sym[sym[k].prev].next = k
  BY <1>2 DEF PrevOK
<1> SUFFICES ASSUME NEW k \in Live' PROVE NextOK(k)' /\ PrevOK(k)'
  BY DEF Linked
<1>7. k \in Live /\ k # j
  BY <1>1
<1>8. NextOK(k)'
  <2>1. CASE k = i
    <3>1. \A l \in Live' : l <= i \/ j < l
      BY <1>1, <1>2 DEF NextOK
    <3>2. CASE n2 = NoSym
      <4>1. \A l \in Live : l <= j
        BY <1>1, <1>2, <3>2 DEF NextOK
      <4> QED
        BY <1>1, <1>2, <2>1, <3>1, <3>2, <4>1 DEF NextOK
    <3>3. CASE n2 # NoSym
      <4>1. \A l \in Live : l <= j \/ n2 <= l
        BY <1>1, <1>2, <3>3 DEF NextOK
      <4>2. n2 \in Live' /\ i < n2 /\ sym'[n2].prev = i
        <5>1. n2 \in Live /\ n2 \in Int /\ j < n2
          BY <1>1, <1>2, <3>3
        <5>2. n2 # j /\ i < n2
          BY <1>1, <5>1
        <5> QED
          BY <1>1, <3>3, <5>1, <5>2
      <4>3. \A l \in Live' : l <= i \/ n2 <= l
        BY <1>1, <1>2, <3>1, <4>1
      <4> QED
        BY <1>1, <2>1, <3>3, <4>2, <4>3 DEF NextOK
    <3> QED
      BY <3>2, <3>3
  <2>2. CASE k # i
    <3>1. sym'[k].next = sym[k].next
      BY <1>1, <1>2, <1>7, <2>2
    <3>2. CASE sym[k].next = NoSym
      BY <1>1, <1>2, <1>7, <3>1, <3>2 DEF NextOK
    <3>3. CASE sym[k].next # NoSym
      <4> DEFINE t == sym[k].next
      <4>1. t \in Live /\ t # j /\ (n2 # NoSym => t # n2) /\ k < t /\ sym[t].prev = k
        BY <1>2, <1>4, <1>7, <2>2, <3>3 DEF NextOK
      <4>2. sym'[t].prev = k
        BY <1>1, <1>2, <4>1
      <4>3. \A l \in Live' : l <= k \/ t <= l
        BY <1>1, <1>2, <1>7, <3>3 DEF NextOK
      <4> QED
        BY <1>1, <3>1, <3>3, <4>1, <4>2, <4>3 DEF NextOK
    <3> QED
      BY <3>2, <3>3
  <2> QED
    BY <2>1, <2>2
<1>9. PrevOK(k)'
  <2>1. CASE k = n2
    BY <1>1, <1>2, <1>7, <2>1 DEF PrevOK
  <2>2. CASE k # n2
    <3>1. sym'[k].prev = sym[k].prev
      BY <1>1, <1>2, <1>7, <2>2
    <3>2. CASE sym[k].prev = NoSym
      BY <1>1, <1>2, <1>7, <3>1, <3>2 DEF PrevOK
    <3>3. CASE sym[k].prev # NoSym
      <4> DEFINE p == sym[k].prev
      <4>1. p \in Live /\ p # j /\ p # i /\ sym[p].next = k
        BY <1>4, <1>6, <1>7, <2>2, <3>3
      <4>2. sym'[p].next = k
        BY <1>1, <1>2, <4>1
      <4> QED
        BY <1>1, <3>1, <3>3, <4>1, <4>2 DEF PrevOK
    <3> QED
      BY <3>2, <3>3
  <2> QED
    BY <2>1, <2>2
<1> QED
  BY <1>8, <1>9

\* The absorbed symbol's bytes go to its left neighbour, so the tiling holds.
LEMMA AbsorbTiled ==
    ASSUME TypeOK, Linked, Tiled, NEW i \in Live, sym[i].next # NoSym, NEW id \in Id,
           sym' = Absorb(sym, i, id), word' = word
    PROVE  Tiled'
<1> DEFINE j  == sym[i].next
           n2 == sym[j].next
<1>1. /\ i \in Nodes /\ j \in Live /\ i < j /\ i \in Int /\ j \in Int
      /\ n2 # NoSym => n2 \in Live /\ j < n2
      /\ Live' = Live \ {j}
      /\ sym'[i].next = n2 /\ sym'[i].len = sym[i].len + sym[j].len
      /\ n2 # NoSym => sym'[n2].len = sym[n2].len /\ sym'[n2].next = sym[n2].next
      /\ \A k \in Nodes \ {i, j, n2} : sym'[k] = sym[k]
  BY AbsorbFacts
<1>2. \A k \in Live : k \in Nodes /\ k # NoSym /\ word[k].at \in Nat /\ sym[k].len \in Nat
  BY WordFacts DEF Live, TypeOK, NoSym
<1>3. /\ Nodes' = Nodes /\ \A k : LastNode(k)' = LastNode(k)
      /\ \A k : EndOf(word, k)' = EndOf(word, k)
  BY DEF Nodes, LastNode, EndOf
<1>4. word[i].at + sym[i].len = word[j].at
  BY DEF Tiled
<1> SUFFICES ASSUME NEW k \in Live'
             PROVE  IF sym'[k].next = NoSym
                    THEN \A l \in Nodes : LastNode(l) => word[k].at + sym'[k].len = EndOf(word, l)
                    ELSE word[k].at + sym'[k].len = word[sym'[k].next].at
  BY <1>3 DEF Tiled
<1>5. CASE k = i
  <2>1. word[k].at + sym'[k].len = word[j].at + sym[j].len
    BY <1>1, <1>2, <1>4, <1>5
  <2> QED
    BY <1>1, <1>5, <2>1 DEF Tiled
<1>6. CASE k # i
  <2>1. k \in Live /\ sym'[k].next = sym[k].next /\ sym'[k].len = sym[k].len
    BY <1>1, <1>2, <1>6
  <2> QED
    BY <2>1 DEF Tiled
<1> QED
  BY <1>5, <1>6

\* The same of the candidate a merge step pops.
LEMMA MergeFacts ==
    ASSUME TypeOK, Linked, NEW m \in heap, Valid(m), word' = word,
           sym' = Absorb(sym, m.pos, m.id)
    PROVE  LET i  == m.pos
               j  == sym[i].next
               n2 == sym[j].next
           IN /\ i \in Live /\ j # NoSym /\ m.id \in Id
              /\ i \in Nodes /\ j \in Live /\ j \in Nodes /\ i # j /\ NoSym \notin Nodes
              /\ Live' = Live \ {j} /\ DOMAIN sym' = Nodes /\ DOMAIN sym = Nodes
              /\ sym'[i].c = m.id /\ sym'[i].prev = sym[i].prev /\ sym'[i].next = n2
              /\ n2 # NoSym => /\ n2 \in Live /\ n2 # j /\ sym'[n2].c = sym[n2].c
                               /\ sym'[n2].next = sym[n2].next /\ sym'[n2].len = sym[n2].len
              /\ \A k \in Nodes \ {i, j, n2} : sym'[k] = sym[k]
<1>1. m.pos \in Live /\ sym[m.pos].next # NoSym /\ m.id \in Id
  BY DEF Valid, HasPair, Live, TypeOK, Candidate
<1>2. DOMAIN sym = Nodes /\ DOMAIN sym' = Nodes
  BY DEF TypeOK, Absorb
<1> DEFINE i  == m.pos
           j  == sym[i].next
           n2 == sym[j].next
<1>3. i \in Nodes /\ j \in Live /\ j \in Nodes /\ i # j /\ NoSym \notin Nodes
  BY <1>1, AbsorbFacts
<1>4. Live' = Live \ {j}
  BY <1>1, AbsorbFacts
<1>5. sym'[i].c = m.id /\ sym'[i].prev = sym[i].prev /\ sym'[i].next = n2
  BY <1>1, AbsorbFacts
<1>6. n2 # NoSym => /\ n2 \in Live /\ n2 # j /\ sym'[n2].c = sym[n2].c
                    /\ sym'[n2].next = sym[n2].next /\ sym'[n2].len = sym[n2].len
  BY <1>1, AbsorbFacts
<1>7. \A k \in Nodes \ {i, j, n2} : sym'[k] = sym[k]
  BY <1>1, AbsorbFacts
<1> QED
  BY <1>1, <1>2, <1>3, <1>4, <1>5, <1>6, <1>7

\* A merge pushes the candidates of the two pairs it forms, and disturbs no other.
LEMMA AbsorbCovered ==
    ASSUME IInv, NEW m \in heap, Valid(m), pc = "merge", pc' = pc,
           sym' = Absorb(sym, m.pos, m.id), word' = word, merges' = merges,
           heap' = (heap \ {m}) \cup Candidates(sym', sym'[m.pos].prev)
                      \cup Candidates(sym', m.pos) \cup skipped,
           skipped' = {}
    PROVE  Covered'
<1> USE DEF IInv
<1> DEFINE i  == m.pos
           j  == sym[i].next
           n2 == sym[j].next
<1>1. i \in Live /\ j # NoSym /\ m.id \in Id
  BY DEF Valid, HasPair, Live, TypeOK, Candidate
<1>2. /\ i \in Nodes /\ j \in Live /\ j \in Nodes
      /\ Live' = Live \ {j}
      /\ sym'[i].prev = sym[i].prev /\ sym'[i].next = n2
      /\ n2 # NoSym => /\ sym'[n2].c = sym[n2].c
                       /\ sym'[n2].next = sym[n2].next /\ sym'[n2].len = sym[n2].len
      /\ \A k \in Nodes \ {i, j, n2} : sym'[k] = sym[k]
      /\ DOMAIN sym' = Nodes /\ DOMAIN sym = Nodes
  BY MergeFacts
<1> SUFFICES ASSUME NEW k \in Live', NEW e \in Candidates(sym, k)'
             PROVE  e \in heap'
  BY DEF Covered
<1>3. k \in Live /\ k \in Nodes /\ k # j /\ k # NoSym
  BY SMTT(30), <1>2, WordFacts DEF Live, TypeOK, NoSym
<1>4. Candidates(sym, k)' = Candidates(sym', k)
  BY DEF Candidates, HasPair, PairAt, Alive
<1>5. CASE k = i \/ k = sym'[i].prev
  BY <1>4, <1>5
<1>6. CASE k # i /\ k # sym[i].prev
  <2>1. /\ sym'[k].c = sym[k].c /\ sym'[k].next = sym[k].next /\ sym'[k].len = sym[k].len
    BY <1>2, <1>3, <1>6
  <2>2. sym[k].next # NoSym => /\ sym[k].next \in Live
                              /\ sym[sym[k].next].prev = k
    BY <1>3 DEF Linked, NextOK
  <2>3. sym[j].prev = i
    BY <1>1 DEF Linked, NextOK
  <2>4. sym[k].next # NoSym => sym[k].next # i /\ sym[k].next # j
    BY <1>6, <2>2, <2>3
  <2>5. sym[k].next # NoSym => /\ sym'[sym[k].next].c = sym[sym[k].next].c
                              /\ sym'[sym[k].next].len = sym[sym[k].next].len
    BY <1>2, <2>2, <2>4 DEF Live
  <2>6. Candidates(sym', k) = Candidates(sym, k)
    BY <1>2, <2>1, <2>5 DEF Candidates, HasPair, PairAt, Alive
  <2>7. e \in heap \cup skipped
    BY <1>3, <1>4, <2>6 DEF Covered
  <2>8. e # m
    BY <1>4, <1>6, <2>6, CandidateFacts
  <2> QED
    BY <2>7, <2>8
<1> QED
  BY <1>2, <1>5, <1>6

\* A merge leaves each candidate standing for its pair, or overtakes it; it
\* overtakes those at the two positions where it forms a new pair.
LEMMA AbsorbCandidates ==
    ASSUME IInv, NEW m \in heap, Valid(m), merges' = merges, word' = word,
           sym' = Absorb(sym, m.pos, m.id), TypeOK',
           NEW e \in heap \cup skipped, HasPair(sym', e.pos)
    PROVE  /\ Overtaken(e)' \/ Stands(e)'
           /\ e.pos = m.pos \/ e.pos = sym[m.pos].prev => Overtaken(e)'
<1> USE DEF IInv
<1> DEFINE i  == m.pos
           j  == sym[i].next
           n2 == sym[j].next
           k  == e.pos
           t  == sym[k].next
<1>1. /\ i \in Live /\ j # NoSym /\ m.id \in Id /\ PairAt(sym, i) \in DOMAIN merges
      /\ merges[PairAt(sym, i)].id = m.id
  BY DEF Valid, HasPair, Live, TypeOK, Candidate
<1>2. /\ i \in Nodes /\ j \in Live /\ j \in Nodes /\ i # j
      /\ Live' = Live \ {j}
      /\ sym'[i].c = m.id /\ sym'[i].next = n2 /\ sym'[i].prev = sym[i].prev
      /\ n2 # NoSym => n2 \in Live /\ sym'[n2].c = sym[n2].c /\ sym'[n2].next = sym[n2].next
      /\ NoSym \notin Nodes
      /\ \A l \in Nodes \ {i, j, n2} : sym'[l] = sym[l]
      /\ DOMAIN sym' = Nodes /\ DOMAIN sym = Nodes
  BY MergeFacts
<1>3. k \in Live' /\ k \in Live /\ k \in Nodes /\ k # j /\ sym'[k].next # NoSym
  BY <1>2 DEF HasPair, Live
<1>4. \A l \in Nodes : Width[sym[l].c] \in Nat \ {0}
  BY WidthAssumption DEF TypeOK
<1>5. Width[m.id] = Width[sym[i].c] + Width[sym[j].c] /\ Width[m.id] \in Nat
  BY <1>1, TableFacts, WidthAssumption DEF PairAt, TypeOK
<1>6. Width[e.id] \in Nat
  BY WidthAssumption DEF TypeOK, Candidate
<1>7. HasPair(sym, k)
  <2>1. t # NoSym
    <3>1. CASE k = i
      BY <1>1, <3>1
    <3>2. CASE k = n2
      BY <1>2, <1>3, <3>2
    <3>3. CASE k \notin {i, j, n2}
      BY <1>2, <1>3, <3>3
    <3> QED
      BY <1>3, <3>1, <3>2, <3>3
  <2>2. t \in Live
    BY <1>3, <2>1 DEF Linked, NextOK
  <2> QED
    BY <1>2, <1>3, <2>1, <2>2 DEF HasPair, Live
<1>8. /\ t \in Nodes
      /\ \/ Width[sym[k].c] + Width[sym[t].c] > Width[e.id]
         \/ Stands(e) /\ Width[e.id] = Width[sym[k].c] + Width[sym[t].c]
  <2>1. t \in Nodes
    BY <1>3, <1>7 DEF HasPair, TypeOK, Linked, NextOK, Live
  <2>2. CASE Overtaken(e)
    BY <2>1, <2>2 DEF Overtaken
  <2>3. CASE Stands(e)
    BY <2>1, <2>3, TableFacts DEF Stands, PairAt, TypeOK
  <2> QED
    BY <1>7, <2>1, <2>2, <2>3 DEF CandidatesTrue
<1>9. CASE k = i
  <2>1. n2 \in Nodes /\ sym'[i].next = n2 /\ sym'[n2].c = sym[n2].c
    BY <1>2, <1>3, <1>9 DEF Live
  <2>2. Width[m.id] >= Width[e.id]
    <3>1. t = j
      BY <1>9
    <3> HIDE DEF i, j, k, t, n2
    <3> QED
      BY <1>2, <1>4, <1>5, <1>6, <1>8, <1>9, <3>1
  <2>3. Width[m.id] + Width[sym[n2].c] > Width[e.id]
    BY SMTT(30), <1>4, <1>5, <1>6, <2>1, <2>2
  <2> QED
    BY <1>2, <1>9, <2>1, <2>3 DEF Overtaken
<1>10. CASE k # i /\ t = i
  <2>1. sym'[k].c = sym[k].c /\ sym'[k].next = i
    <3>1. CASE k = n2
      BY <1>2, <1>3, <1>10, <3>1
    <3>2. CASE k # n2
      BY <1>2, <1>3, <1>10, <3>2
    <3> QED
      BY <3>1, <3>2
  <2>2. Width[sym[k].c] + Width[sym[i].c] >= Width[e.id]
    <3> HIDE DEF i, j, k, t, n2
    <3> QED
      BY <1>2, <1>3, <1>4, <1>6, <1>8, <1>10
  <2>3. Width[sym[k].c] + Width[m.id] > Width[e.id]
    <3> HIDE DEF i, j, k, t, n2
    <3> QED
      BY <1>2, <1>3, <1>4, <1>5, <1>6, <2>2
  <2> QED
    BY <1>2, <2>1, <2>3 DEF Overtaken
<1>11. CASE k # i /\ t # i
  <2>0. k # sym[i].prev
    BY <1>1, <1>2, <1>3, <1>11 DEF Linked, PrevOK
  <2>1. sym[j].prev = i /\ sym[t].prev = k
    BY <1>1, <1>3, <1>7 DEF Linked, NextOK, HasPair
  <2>2. t # j
    BY <1>11, <2>1
  <2>3. sym'[k].c = sym[k].c /\ sym'[k].next = t /\ sym'[t].c = sym[t].c
    <3> HIDE DEF i, j, n2, k
    <3>1. sym'[k].c = sym[k].c /\ sym'[k].next = t
      <4>1. CASE k = n2
        BY <1>2, <1>3, <1>11, <4>1
      <4>2. CASE k # n2
        BY <1>2, <1>3, <1>11, <4>2
      <4> QED
        BY <4>1, <4>2
    <3>2. sym'[t].c = sym[t].c
      <4> HIDE DEF t
      <4>1. CASE t = n2
        BY <1>2, <1>8, <1>11, <2>2, <4>1
      <4>2. CASE t # n2
        BY <1>2, <1>8, <1>11, <2>2, <4>2
      <4> QED
        BY <4>1, <4>2
    <3> QED
      BY <3>1, <3>2
  <2>4. ASSUME Overtaken(e) PROVE Overtaken(e)'
    BY <2>3, <2>4 DEF Overtaken
  <2>5. ASSUME Stands(e) PROVE Stands(e)'
    BY <2>3, <2>5 DEF Stands, PairAt
  <2> QED
    BY <1>7, <1>11, <2>0, <2>4, <2>5 DEF CandidatesTrue
<1> QED
  BY <1>9, <1>10, <1>11

\* A merge, with its pushes and its re-push of skipped candidates, keeps the invariant.
LEMMA PopMergeStep == ASSUME IInv, PopMerge PROVE IInv'
<1> USE DEF IInv, PopMerge, Apply
<1>1. PICK m \in Tops :
        /\ Valid(m)
        /\ sym' = Absorb(sym, m.pos, m.id)
        /\ heap' = (heap \ {m}) \cup Candidates(sym', sym'[m.pos].prev)
                      \cup Candidates(sym', m.pos) \cup skipped
  OBVIOUS
<1>2. m \in heap /\ m.pos \in Live /\ sym[m.pos].next # NoSym /\ m.id \in Id
  BY <1>1 DEF Tops, Valid, HasPair, Live, TypeOK, Candidate
<1>3. /\ Nodes' = Nodes /\ Candidate' = Candidate
      /\ sym' \in [Nodes -> [c : Id, prev : Nodes \cup {NoSym},
                             next : Nodes \cup {NoSym}, len : Nat]]
  BY <1>1, <1>2, AbsorbFacts DEF Nodes, Candidate
<1>4. TypeOK'
  <2>1. \A i : \A e \in Candidates(sym', i) : e \in Candidate
    <3> SUFFICES ASSUME NEW i, NEW e \in Candidates(sym', i) PROVE e \in Candidate
      OBVIOUS
    <3>1. /\ i \in Nodes /\ PairAt(sym', i) \in DOMAIN merges
          /\ e = [pos |-> i, rank |-> merges[PairAt(sym', i)].rank, id |-> merges[PairAt(sym', i)].id]
      BY <1>3 DEF Candidates, HasPair
    <3> QED
      BY <3>1, TableFacts DEF Candidate, TypeOK
  <2>2. heap' \in SUBSET Candidate /\ skipped' = {}
    BY <1>1, <2>1 DEF TypeOK
  <2> QED
    BY <1>3, <2>2 DEF TypeOK
<1>5. Linked' /\ Tiled'
  BY <1>1, <1>2, AbsorbLinked, AbsorbTiled
<1>6. Phases'
  BY DEF Phases
<1>7. Covered'
  BY <1>1, <1>2, AbsorbCovered
<1>8. CandidatesTrue'
  <2> SUFFICES ASSUME NEW e \in heap', HasPair(sym, e.pos)' PROVE Overtaken(e)' \/ Stands(e)'
    BY DEF CandidatesTrue
  <2>1. HasPair(sym', e.pos)
    BY DEF HasPair, Alive
  <2>2. CASE e \in heap \cup skipped
    BY <1>1, <1>2, <1>4, <2>1, <2>2, AbsorbCandidates
  <2>3. CASE \E i : e \in Candidates(sym', i)
    <3>1. PICK i : e \in Candidates(sym', i)
      BY <2>3
    <3>2. /\ PairAt(sym', e.pos) \in DOMAIN merges
          /\ merges[PairAt(sym', e.pos)].rank = e.rank
          /\ merges[PairAt(sym', e.pos)].id = e.id
      BY <3>1 DEF Candidates
    <3> QED
      BY <3>2 DEF Stands, PairAt
  <2> QED
    BY <1>1, <2>2, <2>3
<1> QED
  BY <1>4, <1>5, <1>6, <1>7, <1>8

-------------------------------------------------------------------------------
(* The invariant holds throughout. *)

\* Every step of merge_all keeps the invariant.
LEMMA NextIInv == ASSUME IInv, [Next]_vars PROVE IInv'
BY EmptyWordStep, SeedStep, PopStaleStep, PopDroppedStep, PopMergeStep, CompactStep,
   StutterStep DEF Next, Terminating

\* The invariant holds in every state of merge_all.
LEMMA SpecIInv == Spec => []IInv
<1>1. Init => IInv
  BY InitIInv
<1>2. IInv /\ [Next]_vars => IInv'
  BY NextIInv
<1> QED
  BY <1>1, <1>2, PTL DEF Spec

(***************************************************************************)
(* merge_all's variables keep their types.                                 *)
(***************************************************************************)
THEOREM TypeCorrect == Spec => []TypeOK
<1>1. IInv => TypeOK
  BY DEF IInv
<1> QED
  BY <1>1, SpecIInv, PTL

(***************************************************************************)
(* The relinking of the merge loop keeps the live symbols a well-formed    *)
(* doubly linked list in vector order.                                     *)
(***************************************************************************)
THEOREM ListWellFormed == Spec => []Linked
<1>1. IInv => Linked
  BY DEF IInv
<1> QED
  BY <1>1, SpecIInv, PTL

(***************************************************************************)
(* The live symbols tile the bytes of the word at every step: merging never*)
(* loses, repeats or shifts a byte of the token offsets.                   *)
(***************************************************************************)
THEOREM OffsetsTile == Spec => []Tiled
<1>1. IInv => Tiled
  BY DEF IInv
<1> QED
  BY <1>1, SpecIInv, PTL

(***************************************************************************)
(* Lazy invalidation never loses a mergeable pair.                         *)
(***************************************************************************)
THEOREM PairsCovered == Spec => []Covered
<1>1. IInv => Covered
  BY DEF IInv
<1> QED
  BY <1>1, SpecIInv, PTL

\* A candidate that passes the id check stands for the pair at its position.
LEMMA ValidStands ==
    ASSUME IInv, NEW m \in heap \cup skipped, Valid(m)
    PROVE  merges[PairAt(sym, m.pos)].rank = m.rank
<1> USE DEF IInv
<1>1. HasPair(sym, m.pos) /\ PairAt(sym, m.pos) \in DOMAIN merges
      /\ merges[PairAt(sym, m.pos)].id = m.id
  BY DEF Valid
<1>2. Width[m.id] = Width[sym[m.pos].c] + Width[sym[sym[m.pos].next].c] /\ Width[m.id] \in Nat
  BY <1>1, TableFacts, WidthAssumption DEF PairAt, TypeOK
<1>3. ~Overtaken(m)
  BY <1>2 DEF Overtaken
<1> QED
  BY <1>1, <1>3 DEF CandidatesTrue, Stands

(***************************************************************************)
(* A candidate that passes the id check has the rank of the pair it merges.*)
(***************************************************************************)
THEOREM RanksCurrent == Spec => []RankCurrent
<1>1. IInv => RankCurrent
  BY ValidStands DEF RankCurrent
<1> QED
  BY <1>1, SpecIInv, PTL

(***************************************************************************)
(* What merge_all leaves is fully merged: nothing mergeable remains that   *)
(* dropout did not put aside after the last merge.                         *)
(***************************************************************************)
THEOREM EndsIrreducible == Spec => []Irreducible
<1>1. IInv => Irreducible
  BY DEF IInv, Irreducible, Covered, Phases
<1> QED
  BY <1>1, SpecIInv, PTL

-------------------------------------------------------------------------------
(* merge_all implements the reference encoder. *)

Seg == [i \in Live |-> sym[i].c]

\* Neighbours in the list are neighbours in the segmentation.
LEMMA SuccIsNext ==
    ASSUME IInv, NEW i, NEW j
    PROVE  Ref!IsSucc(i, j) <=> i \in Live /\ sym[i].next = j /\ j # NoSym
<1>1. \A k \in Live : k \in Int /\ k # NoSym /\ NextOK(k)
  BY WordFacts DEF IInv, TypeOK, Live, Linked, NoSym
<1>2. ASSUME Ref!IsSucc(i, j) PROVE i \in Live /\ sym[i].next = j /\ j # NoSym
  <2>1. i \in Live /\ j \in Live /\ i < j /\ \A k \in Live : k <= i \/ j <= k
    BY <1>2 DEF Ref!IsSucc
  <2>2. sym[i].next # NoSym
    BY <1>1, <2>1 DEF NextOK
  <2>3. sym[i].next \in Live /\ i < sym[i].next
    BY <1>1, <2>1, <2>2 DEF NextOK
  <2>4. j <= sym[i].next /\ sym[i].next <= j
    BY <1>1, <2>1, <2>2, <2>3 DEF NextOK
  <2> QED
    BY <1>1, <2>1, <2>3, <2>4
<1>3. ASSUME i \in Live, sym[i].next = j, j # NoSym PROVE Ref!IsSucc(i, j)
  BY <1>1, <1>3 DEF Ref!IsSucc, NextOK
<1> QED
  BY <1>2, <1>3

\* The mergeable pairs of the segmentation are those with a candidate.
LEMMA MergeableHasCandidate ==
    ASSUME IInv, NEW i, NEW j, Ref!Mergeable(i, j)
    PROVE  /\ i \in Live /\ sym[i].next = j
           /\ [pos |-> i, rank |-> Ref!RankAt(i, j), id |-> merges[PairAt(sym, i)].id]
                  \in Candidates(sym, i)
<1>1. i \in Live /\ sym[i].next = j /\ j # NoSym
  BY SuccIsNext DEF Ref!Mergeable
<1>2. j \in Live
  BY <1>1 DEF IInv, Linked, NextOK
<1>3. PairAt(sym, i) \in DOMAIN merges /\ Ref!RankAt(i, j) = merges[PairAt(sym, i)].rank
  BY <1>1, <1>2 DEF Ref!Mergeable, Ref!RankAt, PairAt
<1> QED
  BY <1>1, <1>2, <1>3 DEF Candidates, HasPair, Live

\* A merge step merges the pair the reference would merge.
LEMMA MergeImplements == ASSUME IInv, PopMerge PROVE Ref!MergePair
<1>1. PICK m \in Tops :
        /\ Valid(m)
        /\ sym' = Absorb(sym, m.pos, m.id)
  BY DEF PopMerge, Apply
<1> DEFINE i == m.pos
           j == sym[i].next
<1>2. m \in heap /\ word' = word /\ TypeOK /\ Linked
  BY <1>1 DEF Tops, PopMerge, Apply, IInv
<1>3. /\ i \in Live /\ j \in Live /\ j # NoSym /\ i # j
      /\ Live' = Live \ {j} /\ sym'[i].c = m.id
      /\ \A k \in Live \ {i, j} : sym'[k].c = sym[k].c
      /\ Live \subseteq Nodes
  <2>1. Live \subseteq Nodes
    BY <1>2 DEF Live, TypeOK
  <2> QED
    BY SMTT(30), <1>1, <1>2, <2>1, MergeFacts
<1>4. /\ PairAt(sym, i) = <<Seg[i], Seg[j]>> /\ PairAt(sym, i) \in DOMAIN merges
      /\ merges[PairAt(sym, i)].id = m.id
  BY <1>1, <1>3 DEF Valid, PairAt, Seg
<1>5. Ref!Mergeable(i, j)
  <2>1. Ref!IsSucc(i, j)
    BY <1>3, SuccIsNext
  <2> QED
    BY <1>3, <1>4, <2>1 DEF Ref!Mergeable, Seg
<1>6. Ref!Chosen(i, j)
  <2>1. CASE dropout = "none"
    <3>1. skipped = {} /\ pc = "merge"
      BY <2>1 DEF IInv, Phases, PopMerge, Apply
    <3>2. Ref!RankAt(i, j) = m.rank
      BY <1>1, <1>2, <1>3, ValidStands DEF Ref!RankAt, PairAt
    <3>3. ASSUME NEW k \in Live, NEW l \in Live, Ref!Mergeable(k, l)
          PROVE  \/ Ref!RankAt(i, j) < Ref!RankAt(k, l)
                 \/ Ref!RankAt(i, j) = Ref!RankAt(k, l) /\ i <= k
      <4> DEFINE e == [pos |-> k, rank |-> Ref!RankAt(k, l), id |-> merges[PairAt(sym, k)].id]
      <4>1. e \in heap
        BY <3>1, <3>3, MergeableHasCandidate DEF IInv, Covered
      <4>2. ~Before(e, m) /\ e \in Candidate /\ m \in Candidate
        BY <1>1, <1>2, <4>1 DEF Tops, TypeOK
      <4>3. m.rank \in Int /\ e.rank \in Int /\ m.pos \in Int /\ e.pos \in Int
        BY <1>2, <4>2, WordFacts DEF Candidate, TypeOK
      <4> QED
        BY <3>2, <4>2, <4>3 DEF Before
    <3> QED
      BY <1>5, <2>1, <3>3 DEF Ref!Chosen, Ref!Best, Seg
  <2>2. CASE dropout = "some"
    BY <1>5, <2>2 DEF Ref!Chosen
  <2> QED
    BY <2>1, <2>2, DropoutAssumption DEF IInv, TypeOK, PopMerge, Apply
<1>7. Seg' = [k \in Live \ {j} |-> IF k = i THEN merges[<<Seg[i], Seg[j]>>].id ELSE Seg[k]]
  BY <1>3, <1>4 DEF Seg
<1> HIDE DEF i, j
<1> QED
  BY <1>3, <1>6, <1>7 DEF Ref!MergePair, Seg, PopMerge, Apply

\* merge_all returns only where the reference may finish.
LEMMA FinishImplements == ASSUME IInv, EmptyWord \/ Compact PROVE Ref!Finish
<1>1. pc # "done" /\ pc' = "done" /\ UNCHANGED <<word, merges, dropout, sym>>
  BY DEF EmptyWord, Compact, Finish
<1>2. Seg' = Seg
  BY <1>1, ListFrame DEF Seg
<1>3. ASSUME dropout = "none", NEW i \in Live, NEW j \in Live, Ref!Mergeable(i, j)
      PROVE  FALSE
  <2>1. pc = "merge" /\ heap = {}
    BY <1>3 DEF EmptyWord, Compact, Finish, Live, IInv, TypeOK
  <2>2. skipped = {}
    BY <1>3 DEF IInv, Phases
  <2>3. Candidates(sym, i) = {}
    BY <2>1, <2>2 DEF IInv, Covered
  <2>4. Candidates(sym, i) # {}
    BY <1>3, MergeableHasCandidate
  <2> QED
    BY <2>3, <2>4
<1> QED
  BY <1>1, <1>2, <1>3 DEF Ref!Finish, Seg

\* No other step changes the segmentation.
LEMMA OtherStepsStutter ==
    ASSUME IInv, Seed \/ PopStale \/ PopDropped \/ UNCHANGED vars
    PROVE  UNCHANGED Ref!refVars
<1>1. UNCHANGED <<word, merges, dropout, sym>> /\ (pc' = "done" <=> pc = "done")
  BY DEF Seed, PopStale, DropStale, PopDropped, SetAside, vars
<1>2. Seg' = Seg
  BY <1>1, ListFrame DEF Seg
<1> QED
  BY <1>1, <1>2 DEF Ref!refVars, Seg

(***************************************************************************)
(* merge_all, with its list, queue and lazy invalidation, implements the   *)
(* reference encoder: every merge it makes is the reference's choice (the  *)
(* lowest rank, then the leftmost), and it stops where the reference may.  *)
(***************************************************************************)
THEOREM ImplementsReference == Spec => RefinesReference
<1>1. Init => ~(pc = "done")
  BY DEF Init
<1>2. IInv /\ [Next]_vars => [Ref!RefNext]_(Ref!refVars)
  BY MergeImplements, FinishImplements, OtherStepsStutter DEF Next, Terminating, Ref!RefNext
<1> QED
  BY <1>1, <1>2, SpecIInv, PTL DEF Spec, RefinesReference, Ref!RefSpec

-------------------------------------------------------------------------------
(* live_count_ and what compact() leaves. *)

\* Of n numbers, exactly one has r below it, for each r from 0 to n-1.
LEMMA NthFacts ==
    ASSUME NEW S \in SUBSET Int, IsFiniteSet(S), NEW r \in 0..(Cardinality(S) - 1)
    PROVE  Nth(S, r) \in S /\ Cardinality(Below(S, Nth(S, r))) = r
<1>1. \E k \in S : Cardinality({l \in S : l < k}) = r
  BY RankFacts DEF Below
<1> QED
  BY <1>1 DEF Nth, Below

\* What compact() makes of the live symbols.
CompactExact ==
    /\ DOMAIN out = 0..(live - 1)
    /\ \A r \in DOMAIN out :
          LET i == Nth(Live, r)
          IN /\ out[r].c = sym[i].c /\ out[r].len = sym[i].len
             /\ out[r].next = (IF sym[i].next = NoSym THEN NoSym ELSE r + 1)
             /\ out[r].prev = r - 1

Counted ==
    /\ live = Cardinality(Live)
    /\ pc = "seed" => out = <<>>
    /\ pc = "done" => CompactExact

\* The live symbols are finitely many numbers.
LEMMA LiveFacts ==
    ASSUME TypeOK
    PROVE  Live \in SUBSET Int /\ IsFiniteSet(Live) /\ Cardinality(Live) \in Nat
<1>1. PICK n \in Nat : Nodes = 0..(n - 1)
  BY WordFacts DEF TypeOK
<1>2. IsFiniteSet(Nodes) /\ Nodes \subseteq Int /\ Live \in SUBSET Nodes
  BY <1>1, FS_Interval DEF Live, TypeOK
<1> QED
  BY <1>2, FS_Subset, FS_CardinalityType

\* The last live symbol in the list is the last one in the order of compact().
LEMMA LastIsLast ==
    ASSUME TypeOK, Linked, NEW r \in 0..(Cardinality(Live) - 1)
    PROVE  r + 1 < Cardinality(Live) <=> sym[Nth(Live, r)].next # NoSym
<1> DEFINE i == Nth(Live, r)
           B == Below(Live, i)
           n == Cardinality(Live)
<1>1. /\ Live \in SUBSET Int /\ IsFiniteSet(Live) /\ n \in Nat /\ i \in Live /\ i \in Int
      /\ Cardinality(B) = r /\ r \in Int
  BY LiveFacts, NthFacts
<1>2. NextOK(i)
  BY <1>1 DEF Linked
<1> HIDE DEF i, n, B
<1>3. IsFiniteSet(Live \ {i}) /\ Cardinality(Live \ {i}) = n - 1
  BY <1>1, FS_RemoveElement DEF n
<1>4. CASE sym[i].next = NoSym
  <2>1. B = Live \ {i}
    <3>1. \A k \in Live : k \in Int /\ k <= i
      BY <1>1, <1>2, <1>4 DEF NextOK
    <3>2. \A k \in Live : k < i <=> k # i
      BY <1>1, <3>1
    <3> QED
      BY <3>2 DEF B, Below
  <2> QED
    BY <1>1, <1>3, <1>4, <2>1 DEF i, n
<1>5. CASE sym[i].next # NoSym
  <2> DEFINE k == sym[i].next
  <2>1. k \in Live /\ i < k /\ k \in Int
    BY <1>1, <1>2, <1>5 DEF NextOK
  <2> HIDE DEF k
  <2>2. B \in SUBSET (Live \ {i}) /\ B # Live \ {i}
    BY <1>1, <2>1 DEF B, Below
  <2>3. Cardinality(B) <= n - 1 /\ n - 1 # Cardinality(B)
    BY <1>3, <2>2, FS_Subset
  <2> QED
    BY <1>1, <1>5, <2>3 DEF i, n
<1> QED
  BY <1>4, <1>5

\* compact() keeps the live symbols, in order, linked to their neighbours.
LEMMA CompactCounted == ASSUME IInv, Counted, Compact PROVE Counted'
<1> DEFINE n == Cardinality(Live)
<1>1. /\ TypeOK /\ Linked /\ live = n /\ n \in Nat /\ pc' = "done" /\ sym' = sym
      /\ out' = Kept(sym) /\ live' = Cardinality(DOMAIN out')
      /\ Live' = Live
  BY LiveFacts DEF IInv, Counted, Compact, Finish, Live, Alive
<1>2. /\ DOMAIN out' = 0..(n - 1)
      /\ \A r \in 0..(n - 1) :
            out'[r] = [sym[Nth(Live, r)] EXCEPT !.prev = r - 1,
                                                !.next = IF r + 1 < n THEN r + 1 ELSE NoSym]
  BY <1>1 DEF Kept, Live
<1>3. live' = n
  <2> HIDE DEF n
  <2>1. Cardinality(0..(n - 1)) = n
    BY <1>1, FS_Interval
  <2> QED
    BY <1>1, <1>2, <2>1
<1>4. ASSUME NEW r \in 0..(n - 1)
      PROVE  LET i == Nth(Live, r)
             IN /\ out'[r].c = sym[i].c /\ out'[r].len = sym[i].len
                /\ out'[r].next = (IF sym[i].next = NoSym THEN NoSym ELSE r + 1)
                /\ out'[r].prev = r - 1
  <2> DEFINE i == Nth(Live, r)
  <2>1. i \in Live
    BY <1>1, LiveFacts, NthFacts
  <2>2. sym[i] \in [c : Id, prev : Nodes \cup {NoSym}, next : Nodes \cup {NoSym}, len : Nat]
    BY <1>1, <2>1 DEF TypeOK, Live
  <2>3. r + 1 < n <=> sym[i].next # NoSym
    BY <1>1, LastIsLast
  <2> HIDE DEF i, n
  <2>4. out'[r] = [sym[i] EXCEPT !.prev = r - 1, !.next = IF r + 1 < n THEN r + 1 ELSE NoSym]
    BY <1>2 DEF i
  <2>5. /\ out'[r].c = sym[i].c /\ out'[r].len = sym[i].len
        /\ out'[r].next = (IF sym[i].next = NoSym THEN NoSym ELSE r + 1)
        /\ out'[r].prev = r - 1
    BY <2>2, <2>3, <2>4
  <2> QED
    BY <2>5 DEF i
<1> HIDE DEF n
<1>5. CompactExact'
  BY <1>1, <1>2, <1>3, <1>4 DEF CompactExact
<1> QED
  BY <1>1, <1>3, <1>5 DEF Counted, n

\* A merge leaves one live symbol fewer.
LEMMA MergeCounted == ASSUME IInv, Counted, PopMerge PROVE Counted'
<1>1. PICK m \in heap : /\ Valid(m) /\ sym' = Absorb(sym, m.pos, m.id) /\ word' = word
                        /\ live' = live - 1 /\ pc' = "merge"
  BY DEF PopMerge, Apply, Tops
<1>2. Live' = Live \ {sym[m.pos].next} /\ sym[m.pos].next \in Live
  BY <1>1, MergeFacts DEF IInv
<1>3. Cardinality(Live \ {sym[m.pos].next}) = Cardinality(Live) - 1
  <2> DEFINE j == sym[m.pos].next
  <2>1. j \in Live /\ IsFiniteSet(Live)
    BY <1>2, LiveFacts DEF IInv
  <2> HIDE DEF j
  <2>2. Cardinality(Live \ {j}) = Cardinality(Live) - 1
    BY <2>1, FS_RemoveElement
  <2> QED
    BY <2>2 DEF j
<1> QED
  BY <1>1, <1>2, <1>3 DEF Counted

\* The other steps.
LEMMA OtherCounted ==
    ASSUME IInv, Counted, Seed \/ EmptyWord \/ PopStale \/ PopDropped \/ UNCHANGED vars
    PROVE  Counted'
<1>1. UNCHANGED <<word, sym, live, out>> /\ Live' = Live
  BY DEF Seed, EmptyWord, PopStale, DropStale, PopDropped, SetAside, vars, Live, Alive
<1>2. CASE EmptyWord
  <2>1. Live = {} /\ out = <<>> /\ live = 0
    BY <1>2, FS_EmptySet DEF EmptyWord, IInv, TypeOK, Live, Counted
  <2>2. DOMAIN out = {} /\ 0..(0 - 1) = {}
    BY <2>1
  <2>3. CompactExact'
    BY <1>1, <2>1, <2>2 DEF CompactExact
  <2> QED
    BY <1>1, <1>2, <2>3 DEF Counted, EmptyWord
<1>3. CASE ~EmptyWord
  <2>1. (pc' = "done" => pc = "done") /\ (pc' = "seed" => pc = "seed")
    BY <1>3 DEF Seed, PopStale, DropStale, PopDropped, SetAside, vars
  <2>2. CompactExact' <=> CompactExact
    BY <1>1 DEF CompactExact
  <2> QED
    BY <1>1, <2>1, <2>2 DEF Counted
<1> QED
  BY <1>2, <1>3

(***************************************************************************)
(* live_count_ is the number of live symbols, and compact() leaves them as *)
(* a dense list with the same ids, lengths and neighbours.                 *)
(***************************************************************************)
THEOREM CountsAndCompacts == Spec => []Compacted
<1>1. Init => Counted
  <2> SUFFICES ASSUME Init PROVE Counted
    OBVIOUS
  <2>1. \A i \in DOMAIN word : word[i].len # 0
    BY WordFacts DEF Init, Nodes
  <2>2. Live = DOMAIN word
    BY <2>1 DEF Init, Live, Alive, Built, Symbol
  <2> QED
    BY <2>2 DEF Init, Counted
<1>2. IInv /\ Counted /\ [Next]_vars => Counted'
  BY CompactCounted, MergeCounted, OtherCounted DEF Next, Terminating
<1>3. Counted => Compacted
  BY DEF Counted, Compacted, CompactExact
<1> QED
  BY <1>1, <1>2, <1>3, SpecIInv, PTL DEF Spec

-------------------------------------------------------------------------------
(* The array heap. *)

-------------------------------------------------------------------------------
(* The inductive invariant. *)

HTypes ==
    /\ data \in Seq(Candidate) /\ todo \in Seq(Candidate) /\ aside \in Seq(Candidate)
    /\ mode \in {"idle", "up", "down"}
    /\ IF mode = "idle" THEN at = 1 ELSE at \in DOMAIN data

\* Each candidate of `heap' is in the array or still to be pushed, once.
HeldOnce ==
    /\ Once(data) /\ Once(todo) /\ ToSet(data) \cap ToSet(todo) = {}
    /\ ToSet(data) \cup ToSet(todo) = heap

\* What dropout has put aside is valid, in order, and before all that is queued.
AsideOrdered ==
    /\ ToSet(aside) = skipped
    /\ \A j, k \in DOMAIN aside : j < k => Before(aside[j], aside[k])
    /\ heap \cap skipped = {}
    /\ \A m \in skipped : Valid(m) /\ \A e \in heap : ~Before(e, m)

HInv == IInv /\ HTypes /\ HeldOnce /\ AsideOrdered /\ Queue!HeapButOne

-------------------------------------------------------------------------------
(* The order of the candidates, and the tree in the array. *)

\* EncodeMerge::operator< is a strict weak order.
LEMMA BeforeOrder ==
    ASSUME word \in Words, NEW a \in Candidate, NEW b \in Candidate, NEW c \in Candidate
    PROVE  /\ ~Before(a, a) /\ (Before(a, b) => ~Before(b, a))
           /\ Before(a, b) /\ Before(b, c) => Before(a, c)
           /\ ~Before(a, b) /\ ~Before(b, c) => ~Before(a, c)
<1>1. \A m \in Candidate : m.rank \in Nat /\ m.pos \in Int
  BY WordFacts DEF Candidate
<1>2. /\ a.rank \in Nat /\ b.rank \in Nat /\ c.rank \in Nat
      /\ a.pos \in Int /\ b.pos \in Int /\ c.pos \in Int
  BY <1>1
<1> QED
  BY <1>2 DEF Before

\* A parent stands before its children.
LEMMA ParentFacts ==
    ASSUME NEW k \in Nat, k >= 2
    PROVE  Queue!Parent(k) \in Nat \ {0} /\ Queue!Parent(k) < k
<1>1. (k - 2) \div Arity \in Nat /\ Arity * ((k - 2) \div Arity) <= k - 2
  BY ArityAssumption, Quotient
<1>2. (k - 2) \div Arity <= Arity * ((k - 2) \div Arity)
  <2> DEFINE q == (k - 2) \div Arity
  <2>1. q \in Nat
    BY <1>1
  <2> HIDE DEF q
  <2>2. q * 1 <= q * Arity /\ q * Arity = Arity * q
    BY <2>1, ArityAssumption, Monotone
  <2> QED
    BY <2>1, <2>2 DEF q
<1> QED
  BY <1>1, <1>2, ArityAssumption DEF Queue!Parent

\* The children of a place are those whose parent it is.
LEMMA ChildrenFacts ==
    ASSUME HTypes, NEW i \in Nat \ {0}
    PROVE  \A k : k \in Queue!Children(i) <=> k \in DOMAIN data /\ k >= 2 /\ Queue!Parent(k) = i
<1>1. Arity * i = Arity * (i - 1) + Arity /\ Arity * (i - 1) \in Nat /\ Arity * i \in Nat
  BY ArityAssumption, Distribute, Monotone
<1>2. DOMAIN data \subseteq Nat \ {0}
  BY DEF HTypes
<1>3. \A k \in Nat : k >= 2 => (Queue!Parent(k) = i <=> Arity * (i - 1) <= k - 2 /\ k - 2 < Arity * (i - 1) + Arity)
  <2> SUFFICES ASSUME NEW k \in Nat, k >= 2
               PROVE  Queue!Parent(k) = i <=> Arity * (i - 1) <= k - 2 /\ k - 2 < Arity * (i - 1) + Arity
    OBVIOUS
  <2>1. (k - 2) \div Arity = i - 1 <=> Arity * (i - 1) <= k - 2 /\ k - 2 < Arity * (i - 1) + Arity
    BY ArityAssumption, Block
  <2>2. (k - 2) \div Arity \in Nat
    BY ArityAssumption, Quotient
  <2> QED
    BY <2>1, <2>2 DEF Queue!Parent
<1> SUFFICES ASSUME NEW k
             PROVE  k \in Queue!Children(i) <=> k \in DOMAIN data /\ k >= 2 /\ Queue!Parent(k) = i
  OBVIOUS
<1>4. CASE k \in DOMAIN data
  <2>1. k \in Queue!Children(i) <=> Arity * (i - 1) + 2 <= k /\ k <= Arity * i + 1
    BY <1>1, <1>2, <1>4, ArityAssumption DEF Queue!Children
  <2>2. Arity * (i - 1) + 2 <= k => k >= 2
    BY <1>1, <1>2, <1>4
  <2> QED
    BY <1>1, <1>2, <1>3, <1>4, <2>1, <2>2
<1>5. CASE k \notin DOMAIN data
  BY <1>5 DEF Queue!Children
<1> QED
  BY <1>4, <1>5

\* sift_down finds the best of an element and its children.
LEMMA BestFacts ==
    ASSUME IInv, HTypes, mode # "idle"
    PROVE  /\ Queue!BestOf(at) \in {at} \cup Queue!Children(at)
           /\ Queue!BestOf(at) \in DOMAIN data
           /\ \A e \in {at} \cup Queue!Children(at) : ~Before(data[e], data[Queue!BestOf(at)])
<1> DEFINE here == {at} \cup Queue!Children(at)
           best == {c \in here : \A e \in here : ~Before(data[e], data[c])}
<1>1. /\ here \subseteq DOMAIN data /\ here # {} /\ here \subseteq Nat
      /\ \A c \in here : data[c].rank \in Nat /\ data[c].pos \in Nat
  <2>1. here \subseteq DOMAIN data
    BY DEF HTypes, Queue!Children
  <2>2. \A c \in DOMAIN data : c \in Nat /\ data[c] \in Candidate
    BY DEF HTypes
  <2>3. \A m \in Candidate : m.rank \in Nat /\ m.pos \in Nat
    BY WordFacts DEF IInv, TypeOK, Candidate
  <2> QED
    BY <2>1, <2>2, <2>3
<1> HIDE DEF here
<1>2. best # {}
  <2> DEFINE ranks == {data[c].rank : c \in here}
  <2>1. PICK c1 \in here : \A e \in here : data[c1].rank <= data[e].rank
    <3>1. ranks \in SUBSET Nat /\ ranks # {}
      BY <1>1
    <3>2. PICK r \in ranks : \A x \in ranks : r <= x
      <4> HIDE DEF ranks
      <4> QED
        BY <3>1, LeastNat
    <3> QED
      BY <3>2
  <2> DEFINE firsts == {data[c].pos : c \in {e \in here : data[e].rank = data[c1].rank}}
  <2>2. PICK c2 \in here : /\ data[c2].rank = data[c1].rank
                           /\ \A e \in here : data[e].rank = data[c1].rank => data[c2].pos <= data[e].pos
    <3>1. firsts \in SUBSET Nat /\ firsts # {}
      BY <1>1
    <3>2. PICK p \in firsts : \A x \in firsts : p <= x
      <4> HIDE DEF firsts
      <4> QED
        BY <3>1, LeastNat
    <3> QED
      BY <3>2
  <2>3. \A e \in here : ~Before(data[e], data[c2])
    BY <1>1, <2>1, <2>2 DEF Before
  <2> QED
    BY <2>3
<1>3. PICK c \in best : \A e \in best : c <= e
  <2>1. best \in SUBSET Nat
    BY <1>1
  <2> HIDE DEF best
  <2> QED
    BY <1>2, <2>1, LeastNat
<1>4. Queue!BestOf(at) = CHOOSE b \in best : \A e \in best : b <= e
  BY DEF Queue!BestOf, After, here
<1>5. Queue!BestOf(at) \in best
  <2> HIDE DEF best
  <2> QED
    BY <1>3, <1>4
<1> QED
  BY <1>1, <1>5 DEF here

-------------------------------------------------------------------------------
(* The array through push, pop and the sifting loops. *)

Par(k) == Queue!Parent(k)

\* HeapButOne of an array d that sifts at a in mode m.
ButOne(d, m, a) ==
    /\ \A k \in DOMAIN d : k > 1 =>
          ~Before(d[k], d[Par(k)]) \/ (m = "up" /\ k = a) \/ (m = "down" /\ Par(k) = a)
    /\ m # "idle" /\ a > 1 =>
          \A k \in DOMAIN d : k > 1 /\ Par(k) = a => ~Before(d[k], d[Par(a)])

LEMMA ButOneIsHeapButOne ==
    ASSUME HTypes
    PROVE  Queue!HeapButOne <=> ButOne(data, mode, at)
<1>1. DOMAIN data \subseteq Nat \ {0} /\ at \in Nat \ {0}
  BY DEF HTypes
<1>2. \A k : k \in Queue!Children(at) <=> k \in DOMAIN data /\ k > 1 /\ Par(k) = at
  BY <1>1, ChildrenFacts DEF Par
<1> QED
  BY <1>1, <1>2 DEF Queue!HeapButOne, ButOne, Par, After

LEMMA ButOneNext ==
    ASSUME HTypes'
    PROVE  Queue!HeapButOne' <=> ButOne(data', mode', at')
<1>1. (Queue!HeapButOne <=> ButOne(data, mode, at))'
  BY ButOneIsHeapButOne, PTL
<1> QED
  BY <1>1

\* What the lemmas below need of the array.
LEMMA ArrayFacts ==
    ASSUME IInv, HTypes
    PROVE  /\ Len(data) \in Nat /\ DOMAIN data = 1..Len(data)
           /\ \A k \in DOMAIN data : k \in Nat /\ k >= 1 /\ data[k] \in Candidate
           /\ \A k \in DOMAIN data : k > 1 => Par(k) \in DOMAIN data /\ Par(k) < k /\ Par(k) # k
           /\ \A a, b \in Candidate : ~Before(a, a) /\ (Before(a, b) => ~Before(b, a))
           /\ \A a, b, c \in Candidate :
                 /\ Before(a, b) /\ Before(b, c) => Before(a, c)
                 /\ ~Before(a, b) /\ ~Before(b, c) => ~Before(a, c)
<1>1. /\ Len(data) \in Nat /\ DOMAIN data = 1..Len(data)
      /\ \A k \in DOMAIN data : k \in Nat /\ k >= 1 /\ data[k] \in Candidate
  BY DEF HTypes
<1>2. \A k \in DOMAIN data : k > 1 => Par(k) \in DOMAIN data /\ Par(k) < k /\ Par(k) # k
  BY <1>1, ParentFacts DEF Par
<1>3. word \in Words
  BY DEF IInv, TypeOK
<1> QED
  BY <1>1, <1>2, <1>3, BeforeOrder

\* One iteration of sift_up leaves the array in order but for one place.
LEMMA RiseOrder ==
    ASSUME IInv, HTypes, Queue!HeapButOne, Queue!Rise
    PROVE  /\ data' \in Seq(Candidate) /\ DOMAIN data' = DOMAIN data
           /\ ToSet(data') = ToSet(data) /\ (Once(data) => Once(data')) /\ Len(data') = Len(data)
           /\ mode' = "up" /\ at' \in DOMAIN data' /\ ButOne(data', mode', at')
<1> DEFINE i == at
           p == Par(at)
<1>1. /\ mode = "up" /\ i > 1 /\ i \in DOMAIN data /\ Before(data[i], data[p])
      /\ data' = [data EXCEPT ![p] = data[i], ![i] = data[p]]
      /\ at' = p /\ mode' = "up"
  BY DEF Queue!Rise, Queue!RisesAt, Queue!Swap, After, HTypes, Par
<1>2. p \in DOMAIN data /\ p < i /\ p # i
  BY <1>1, ArrayFacts
<1>3. /\ data' \in Seq(Candidate) /\ DOMAIN data' = DOMAIN data
      /\ data'[p] = data[i] /\ data'[i] = data[p]
      /\ \A k \in DOMAIN data \ {p, i} : data'[k] = data[k]
      /\ ToSet(data') = ToSet(data) /\ (Once(data) => Once(data')) /\ Len(data') = Len(data)
  <2>1. data \in Seq(Candidate)
    BY DEF HTypes
  <2> HIDE DEF i, p
  <2>2. /\ data' \in Seq(Candidate) /\ Len(data') = Len(data) /\ i \in DOMAIN data
        /\ data'[p] = data[i] /\ data'[i] = data[p]
        /\ \A k \in DOMAIN data \ {p, i} : data'[k] = data[k]
    BY <1>1, <1>2, <2>1
  <2>3. /\ DOMAIN data' = DOMAIN data /\ ToSet(data') = ToSet(data)
        /\ Once(data) => Once(data')
    BY <1>2, <2>1, <2>2, SwapOnce
  <2> QED
    BY <2>2, <2>3
<1>4. ButOne(data, mode, at)
  BY ButOneIsHeapButOne
<1>5. \A k \in DOMAIN data : k > 1 /\ k # i => ~Before(data[k], data[Par(k)])
  BY <1>1, <1>4 DEF ButOne
<1>6. \A k \in DOMAIN data : k > 1 /\ Par(k) = i => ~Before(data[k], data[p])
  BY <1>1, <1>4 DEF ButOne
<1> HIDE DEF i, p
<1>7. ASSUME NEW k \in DOMAIN data, k > 1, k # p
      PROVE  ~Before(data'[k], data'[Par(k)])
  <2>0. Par(k) \in DOMAIN data /\ Par(k) # k
    BY <1>7, ArrayFacts
  <2>1. CASE k = i
    <3>1. Par(k) = p
      BY <2>1 DEF i, p
    <3> QED
      BY <1>1, <1>2, <1>3, <2>1, <3>1, ArrayFacts
  <2>2. CASE k # i /\ Par(k) = i
    BY <1>3, <1>6, <1>7, <2>2
  <2>3. CASE k # i /\ Par(k) = p
    <3>1. ~Before(data[k], data[p]) /\ Before(data[i], data[p])
      BY <1>1, <1>5, <1>7, <2>3
    <3>2. ~Before(data[k], data[i])
      BY <1>1, <1>2, <3>1, ArrayFacts
    <3> QED
      BY <1>3, <1>7, <2>3, <3>2
  <2>4. CASE k # i /\ Par(k) # i /\ Par(k) # p
    BY <1>3, <1>5, <1>7, <2>0, <2>4
  <2> QED
    BY <2>1, <2>2, <2>3, <2>4
<1>8. ASSUME p > 1, NEW k \in DOMAIN data, k > 1, Par(k) = p
      PROVE  ~Before(data'[k], data'[Par(p)])
  <2>1. Par(p) \in DOMAIN data /\ Par(p) # p /\ Par(p) # i
    BY <1>2, <1>8, ArrayFacts
  <2>2. data'[Par(p)] = data[Par(p)] /\ ~Before(data[p], data[Par(p)])
    BY <1>2, <1>3, <1>5, <1>8, <2>1
  <2>3. CASE k = i
    BY <1>3, <2>2, <2>3
  <2>4. CASE k # i
    <3>1. k # p
      BY <1>8, ArrayFacts
    <3>2. data'[k] = data[k] /\ ~Before(data[k], data[p])
      BY <1>3, <1>5, <1>8, <2>4, <3>1
    <3>3. ~Before(data[k], data[Par(p)])
      BY <1>2, <2>1, <2>2, <3>2, ArrayFacts
    <3> QED
      BY <2>2, <3>2, <3>3
  <2> QED
    BY <2>3, <2>4
<1>9. ButOne(data', mode', at')
  BY <1>1, <1>3, <1>7, <1>8 DEF ButOne
<1> QED
  BY <1>1, <1>2, <1>3, <1>9

\* One iteration of sift_down leaves the array in order but for one place.
LEMMA SinkOrder ==
    ASSUME IInv, HTypes, Queue!HeapButOne, Queue!Sink
    PROVE  /\ data' \in Seq(Candidate) /\ DOMAIN data' = DOMAIN data
           /\ ToSet(data') = ToSet(data) /\ (Once(data) => Once(data')) /\ Len(data') = Len(data)
           /\ mode' = "down" /\ at' \in DOMAIN data' /\ ButOne(data', mode', at')
<1> DEFINE i == at
           b == Queue!BestOf(at)
<1>1. /\ mode = "down" /\ i \in DOMAIN data /\ b # i
      /\ data' = [data EXCEPT ![i] = data[b], ![b] = data[i]]
      /\ at' = b /\ mode' = "down"
  BY DEF Queue!Sink, Queue!Swap, HTypes
<1>2. /\ b \in DOMAIN data /\ b > 1 /\ Par(b) = i
      /\ ~Before(data[i], data[b])
      /\ \A k \in DOMAIN data : k > 1 /\ Par(k) = i => ~Before(data[k], data[b])
  <2>1. i \in Nat \ {0}
    BY <1>1, ArrayFacts
  <2>2. \A k : k \in Queue!Children(i) <=> k \in DOMAIN data /\ k >= 2 /\ Par(k) = i
    BY <2>1, ChildrenFacts DEF Par
  <2>3. \A k \in DOMAIN data : k > 1 => k >= 2
    BY ArrayFacts
  <2>4. b \in {i} \cup Queue!Children(i) /\ \A e \in {i} \cup Queue!Children(i) : ~Before(data[e], data[b])
    BY <1>1, BestFacts
  <2> HIDE DEF i, b
  <2> QED
    BY <1>1, <2>2, <2>3, <2>4, ArrayFacts
<1>3. /\ data' \in Seq(Candidate) /\ DOMAIN data' = DOMAIN data
      /\ data'[i] = data[b] /\ data'[b] = data[i]
      /\ \A k \in DOMAIN data \ {i, b} : data'[k] = data[k]
      /\ ToSet(data') = ToSet(data) /\ (Once(data) => Once(data')) /\ Len(data') = Len(data)
  <2>1. data \in Seq(Candidate)
    BY DEF HTypes
  <2> HIDE DEF i, b
  <2>2. /\ data' \in Seq(Candidate) /\ Len(data') = Len(data) /\ i \in DOMAIN data
        /\ data'[i] = data[b] /\ data'[b] = data[i]
        /\ \A k \in DOMAIN data \ {i, b} : data'[k] = data[k]
    BY <1>1, <1>2, <2>1
  <2>3. /\ DOMAIN data' = DOMAIN data /\ ToSet(data') = ToSet(data)
        /\ Once(data) => Once(data')
    BY <1>2, <2>1, <2>2, SwapOnce
  <2> QED
    BY <2>2, <2>3
<1>4. ButOne(data, mode, at)
  BY ButOneIsHeapButOne
<1>5. \A k \in DOMAIN data : k > 1 /\ Par(k) # i => ~Before(data[k], data[Par(k)])
  BY <1>1, <1>4 DEF ButOne
<1>6. i > 1 => \A k \in DOMAIN data : k > 1 /\ Par(k) = i => ~Before(data[k], data[Par(i)])
  BY <1>1, <1>4 DEF ButOne
<1> HIDE DEF i, b
<1>7. ASSUME NEW k \in DOMAIN data, k > 1, Par(k) # b
      PROVE  ~Before(data'[k], data'[Par(k)])
  <2>0. Par(k) \in DOMAIN data /\ Par(k) # k
    BY <1>7, ArrayFacts
  <2>1. CASE k = b
    BY <1>2, <1>3, <2>1
  <2>2. CASE k # b /\ Par(k) = i
    <3>1. k # i
      BY <2>0, <2>2
    <3> QED
      BY <1>2, <1>3, <1>7, <2>2, <3>1
  <2>3. CASE k = i
    <3>1. data'[Par(i)] = data[Par(i)]
      BY <1>3, <1>7, <2>0, <2>3
    <3> QED
      BY <1>2, <1>3, <1>6, <1>7, <2>3, <3>1
  <2>4. CASE k # b /\ k # i /\ Par(k) # i
    BY <1>3, <1>5, <1>7, <2>0, <2>4
  <2> QED
    BY <2>1, <2>2, <2>3, <2>4
<1>8. ASSUME NEW k \in DOMAIN data, k > 1, Par(k) = b
      PROVE  ~Before(data'[k], data'[Par(b)])
  <2>1. k # b /\ k # i
    BY <1>1, <1>2, <1>8, ArrayFacts
  <2>2. ~Before(data[k], data[b])
    BY <1>1, <1>5, <1>8
  <2> QED
    BY <1>2, <1>3, <2>1, <2>2
<1>9. ButOne(data', mode', at')
  BY <1>1, <1>3, <1>7, <1>8 DEF ButOne
<1> QED
  BY <1>1, <1>2, <1>3, <1>9

\* A loop that stops leaves a heap.
LEMMA SettleOrder ==
    ASSUME IInv, HTypes, Queue!HeapButOne, Queue!Settle
    PROVE  /\ UNCHANGED data /\ mode' = "idle" /\ at' = 1 /\ ButOne(data', mode', at')
<1>1. UNCHANGED data /\ mode' = "idle" /\ at' = 1 /\ mode # "idle" /\ at \in DOMAIN data
  BY DEF Queue!Settle, HTypes
<1>2. ButOne(data, mode, at)
  BY ButOneIsHeapButOne
<1>3. CASE mode = "up" /\ ~Queue!RisesAt(at)
  <2>1. at > 1 => ~Before(data[at], data[Par(at)])
    BY <1>3 DEF Queue!RisesAt, After, Par
  <2> QED
    BY <1>1, <1>2, <1>3, <2>1 DEF ButOne
<1>4. CASE mode = "down" /\ Queue!BestOf(at) = at
  <2>1. \A k \in DOMAIN data : k > 1 /\ Par(k) = at => ~Before(data[k], data[at])
    <3>1. at \in Nat \ {0} /\ \A k \in DOMAIN data : k > 1 => k >= 2
      BY <1>1, ArrayFacts
    <3>2. \A k \in DOMAIN data : k > 1 /\ Par(k) = at => k \in Queue!Children(at)
      BY <3>1, ChildrenFacts DEF Par
    <3> QED
      BY <1>1, <1>4, <3>2, BestFacts
  <2> QED
    BY <1>1, <1>2, <1>4, <2>1 DEF ButOne
<1> QED
  BY <1>1, <1>3, <1>4 DEF Queue!Settle

\* pop() takes the element at the front and leaves the rest, its root out of order.
LEMMA PopOrder ==
    ASSUME IInv, HTypes, Once(data), Queue!HeapButOne, Queue!Pop
    PROVE  /\ data' \in Seq(Candidate) /\ Once(data')
           /\ data[1] \in ToSet(data) /\ ToSet(data') = ToSet(data) \ {data[1]}
           /\ mode' \in {"idle", "up", "down"}
           /\ IF mode' = "idle" THEN at' = 1 ELSE at' \in DOMAIN data'
           /\ ButOne(data', mode', at')
<1>1. /\ mode = "idle" /\ data # <<>> /\ at' = 1
      /\ data' = SubSeq([data EXCEPT ![1] = data[Len(data)]], 1, Len(data) - 1)
      /\ mode' = (IF data' = <<>> THEN "idle" ELSE "down")
  BY DEF Queue!Pop
<1>2. data \in Seq(Candidate) /\ Len(data) \in Nat \ {0} /\ DOMAIN data = 1..Len(data)
  BY <1>1, ArrayFacts, EmptySeq DEF HTypes
<1>3. /\ data' \in Seq(Candidate) /\ Len(data') = Len(data) - 1
      /\ \A k \in 1..(Len(data) - 1) : data'[k] = IF k = 1 THEN data[Len(data)] ELSE data[k]
  <2> DEFINE x == [data EXCEPT ![1] = data[Len(data)]]
  <2>1. /\ x \in Seq(Candidate) /\ x[1] = data[Len(data)]
        /\ \A k \in 1..Len(data) : x[k] = IF k = 1 THEN data[Len(data)] ELSE data[k]
    BY <1>2
  <2>2. data' = SubSeq(x, 1, Len(data) - 1)
    BY <1>1
  <2> HIDE DEF x
  <2>3. \A k \in 1..(Len(data) - 1) : x[k] \in Candidate
    BY <1>2, <2>1, ArrayFacts
  <2>4. /\ SubSeq(x, 1, Len(data) - 1) \in Seq(Candidate)
        /\ Len(SubSeq(x, 1, Len(data) - 1)) = Len(data) - 1
        /\ \A k \in 1..(Len(data) - 1) : SubSeq(x, 1, Len(data) - 1)[k] = x[k]
    BY <1>2, <2>3, SubSeqProperties
  <2> QED
    BY <1>2, <2>1, <2>2, <2>4
<1>4. Once(data') /\ data[1] \in ToSet(data) /\ ToSet(data') = ToSet(data) \ {data[1]}
  <2>1. data # <<>>
    BY <1>1
  <2> QED
    BY <1>2, <1>3, <2>1, LastToFrontOnce
<1>5. DOMAIN data' = 1..(Len(data) - 1)
  BY <1>3, LenProperties
<1>6. IF mode' = "idle" THEN at' = 1 ELSE at' \in DOMAIN data'
  <2>1. data' # <<>> => Len(data') # 0
    BY <1>3, EmptySeq
  <2> QED
    BY <1>1, <1>2, <1>3, <1>5, <2>1
<1>7. ButOne(data', mode', at')
  <2>1. \A k \in DOMAIN data : k > 1 => ~Before(data[k], data[Par(k)])
    BY <1>1, ButOneIsHeapButOne DEF ButOne
  <2> SUFFICES ASSUME NEW k \in DOMAIN data', k > 1, Par(k) # 1
               PROVE  ~Before(data'[k], data'[Par(k)])
    <3>1. /\ at' = 1 /\ mode' \in {"idle", "down"}
          /\ mode' = "idle" => DOMAIN data' = {}
      BY <1>1
    <3> QED
      BY <3>1 DEF ButOne
  <2>2. k \in DOMAIN data /\ Par(k) \in DOMAIN data /\ Par(k) < k
    BY <1>2, <1>5, ArrayFacts
  <2>3. Par(k) \in 1..(Len(data) - 1) /\ k \in 1..(Len(data) - 1)
    BY <1>2, <1>5, <2>2
  <2> QED
    BY <1>3, <2>1, <2>2, <2>3
<1> QED
  BY <1>1, <1>3, <1>4, <1>6, <1>7

\* push() adds the element at the back, where it may be out of order.
LEMMA PushOrder ==
    ASSUME IInv, HTypes, Queue!HeapButOne, NEW v \in Candidate, Queue!Push(v)
    PROVE  /\ data' \in Seq(Candidate) /\ ToSet(data') = ToSet(data) \cup {v}
           /\ Once(data) /\ v \notin ToSet(data) => Once(data')
           /\ mode' = "up" /\ at' \in DOMAIN data'
           /\ ButOne(data', mode', at')
<1>1. /\ mode = "idle" /\ data' = Append(data, v) /\ mode' = "up" /\ at' = Len(data) + 1
  BY DEF Queue!Push
<1>2. data \in Seq(Candidate) /\ Len(data) \in Nat /\ DOMAIN data = 1..Len(data)
  BY ArrayFacts DEF HTypes
<1>3. /\ data' \in Seq(Candidate) /\ ToSet(data') = ToSet(data) \cup {v}
      /\ Once(data) /\ v \notin ToSet(data) => Once(data')
  BY <1>1, <1>2, AppendOnce
<1>4. DOMAIN data' = 1..(Len(data) + 1) /\ \A k \in DOMAIN data : data'[k] = data[k]
  BY <1>1, <1>2
<1>5. \A k \in DOMAIN data : k > 1 => ~Before(data[k], data[Par(k)])
  BY <1>1, ButOneIsHeapButOne DEF ButOne
<1>6. \A k \in DOMAIN data' : k > 1 => Par(k) < k /\ Par(k) \in Nat \ {0}
  BY <1>2, <1>4, ParentFacts DEF Par
<1>7. ASSUME NEW k \in DOMAIN data', k > 1, k # at'
      PROVE  ~Before(data'[k], data'[Par(k)])
  <2>1. k \in DOMAIN data
    BY <1>1, <1>2, <1>4, <1>7
  <2>2. Par(k) \in DOMAIN data
    BY <1>7, <2>1, ArrayFacts
  <2> QED
    BY <1>4, <1>5, <1>7, <2>1, <2>2
<1>8. ASSUME NEW k \in DOMAIN data', k > 1, Par(k) = at'
      PROVE  FALSE
  BY <1>1, <1>2, <1>4, <1>6, <1>8
<1>9. ButOne(data', mode', at')
  <2>1. mode' = "up"
    BY <1>1
  <2> QED
    BY <1>7, <1>8, <2>1 DEF ButOne
<1> QED
  BY <1>1, <1>2, <1>3, <1>4, <1>9

\* In a heap that nothing is sifted in, the front is a least element.
LEMMA FrontIsLeast ==
    ASSUME IInv, HTypes, Queue!HeapButOne, mode = "idle"
    PROVE  \A k \in DOMAIN data : ~Before(data[k], data[1])
<1>1. \A k \in DOMAIN data : k > 1 => ~Before(data[k], data[Par(k)])
  BY ButOneIsHeapButOne DEF ButOne
<1> DEFINE Bad == {k \in DOMAIN data : Before(data[k], data[1])}
<1>2. ASSUME Bad # {} PROVE FALSE
  <2>1. PICK k \in Bad : \A l \in Bad : k <= l
    <3>1. Bad \in SUBSET Nat
      BY ArrayFacts
    <3> HIDE DEF Bad
    <3> QED
      BY <1>2, <3>1, LeastNat
  <2>2. k \in DOMAIN data /\ k > 1 /\ 1 \in DOMAIN data
    BY ArrayFacts
  <2>3. Par(k) \in DOMAIN data /\ Par(k) < k /\ Par(k) \in Nat /\ k \in Nat
    BY <2>2, ArrayFacts
  <2>4. ~Before(data[Par(k)], data[1])
    <3>1. Par(k) \notin Bad
      <4> HIDE DEF Bad
      <4> QED
        BY <2>1, <2>3
    <3> QED
      BY <2>3, <3>1
  <2>5. ~Before(data[k], data[1])
    BY <1>1, <2>2, <2>3, <2>4, ArrayFacts
  <2> QED
    BY <2>1, <2>5
<1> QED
  BY <1>2

-------------------------------------------------------------------------------
(* The sequences of pushes. *)

\* try_push_pair pushes the candidate of a position, if it has one.
LEMMA PushListFacts ==
    ASSUME NEW s, NEW i, Candidates(s, i) \subseteq Candidate
    PROVE  /\ PushList(s, i) \in Seq(Candidate) /\ Once(PushList(s, i))
           /\ ToSet(PushList(s, i)) = Candidates(s, i)
<1>1. IsFiniteSet(Candidates(s, i))
  BY FS_EmptySet, FS_Singleton DEF Candidates
<1>2. /\ PushList(s, i) \in Seq(Candidates(s, i)) /\ Once(PushList(s, i))
      /\ ToSet(PushList(s, i)) = Candidates(s, i)
  BY <1>1, SetToSeqFacts DEF PushList
<1> QED
  BY <1>2, SeqMonotonic

-------------------------------------------------------------------------------
(* The steps. *)

\* When the code looks at the top of the queue, it sees what WordMerge takes.
LEMMA TopFacts ==
    ASSUME HInv, Ready, data # <<>>
    PROVE  /\ heap = ToSet(data) /\ 1 \in DOMAIN data /\ data[1] \in heap
           /\ data[1] \in Candidate /\ data[1] \in Tops
<1>1. ToSet(todo) = {}
  BY DEF Ready, ToSet
<1>2. heap = ToSet(data)
  BY <1>1 DEF HInv, HeldOnce
<1>3. 1 \in DOMAIN data
  BY EmptySeq, ArrayFacts DEF HInv, HTypes
<1>4. data[1] \in heap /\ data[1] \in Candidate
  BY <1>2, <1>3, ArrayFacts DEF HInv, ToSet
<1>5. \A e \in heap : ~Before(e, data[1])
  BY <1>2, FrontIsLeast DEF HInv, Ready, ToSet
<1> QED
  BY <1>2, <1>3, <1>4, <1>5 DEF Tops

\* Steps that leave the queue and what dropout put aside alone.
LEMMA QueueFrame ==
    ASSUME HInv, IInv',
           UNCHANGED <<word, merges, sym, heap, skipped, queueVars, aside, todo>>
    PROVE  HInv'
<1>1. UNCHANGED <<data, mode, at>> /\ Candidate' = Candidate
  BY DEF queueVars, Candidate, Nodes
<1>2. HTypes' /\ HeldOnce'
  BY <1>1 DEF HInv, HTypes, HeldOnce
<1>3. \A m : Valid(m)' <=> Valid(m)
  BY DEF Valid, HasPair, PairAt, Alive
<1>4. AsideOrdered'
  BY <1>3 DEF HInv, AsideOrdered
<1>5. Queue!HeapButOne'
  BY <1>1, <1>2, ButOneIsHeapButOne, ButOneNext DEF HInv
<1> QED
  BY <1>2, <1>4, <1>5 DEF HInv

\* The parts of the invariant about the array after a step of the queue.
LEMMA QueueStep ==
    ASSUME IInv, UNCHANGED word,
           data' \in Seq(Candidate), todo' \in Seq(Candidate), aside' \in Seq(Candidate),
           mode' \in {"idle", "up", "down"},
           IF mode' = "idle" THEN at' = 1 ELSE at' \in DOMAIN data',
           ButOne(data', mode', at')
    PROVE  HTypes' /\ Queue!HeapButOne'
<1>1. Candidate' = Candidate
  BY DEF Candidate, Nodes
<1>2. HTypes'
  BY <1>1 DEF HTypes
<1> QED
  BY <1>2, ButOneNext

\* Steps of the loop at an empty queue, and steps that change nothing.
LEMMA HQuietStep ==
    ASSUME HInv, HEmptyWord \/ HCompact \/ HTerminating \/ UNCHANGED allVars
    PROVE  [Next]_vars /\ HInv'
<1>1. HCompact => heap = {}
  BY DEF HInv, HeldOnce, HCompact, Ready, ToSet
<1>2. [Next]_vars
  BY <1>1 DEF HEmptyWord, HCompact, HTerminating, allVars, Next, Compact
<1>3. IInv'
  BY <1>2, NextIInv DEF HInv
<1>4. UNCHANGED <<word, merges, sym, heap, skipped, queueVars, aside, todo>>
  BY DEF HEmptyWord, EmptyWord, HCompact, Finish, HTerminating, Terminating, allVars, vars, queueVars
<1> QED
  BY <1>2, <1>3, <1>4, QueueFrame

\* The initial scan.
LEMMA HSeedStep == ASSUME HInv, HSeed PROVE [Next]_vars /\ HInv'
<1> DEFINE n  == Cardinality(Nodes)
           ss == [k \in 1..n |-> PushList(sym, k - 1)]
<1>1. /\ Seed /\ todo' = FlattenSeq(ss) /\ UNCHANGED <<data, mode, at, aside>>
      /\ UNCHANGED <<word, merges, sym, skipped>>
      /\ heap' = UNION {Candidates(sym, i) : i \in Nodes}
  BY DEF HSeed, queueVars, Seed
<1>2. IInv /\ IInv' /\ TypeOK
  BY <1>1, SeedStep DEF HInv, IInv
<1>3. n \in Nat \ {0} /\ Nodes = 0..(n - 1)
  <2>1. PICK l \in Nat : Nodes = 0..(l - 1)
    BY <1>2, WordFacts DEF TypeOK
  <2>2. Nodes # {}
    BY <1>1 DEF Seed
  <2>3. l # 0
    BY <2>1, <2>2
  <2>4. Cardinality(Nodes) = l
    BY <2>1, <2>3, FS_Interval
  <2> QED
    BY <2>1, <2>3, <2>4
<1>4. heap = {} /\ skipped = {}
  BY <1>1 DEF HInv, IInv, Phases, Seed
<1>5. \A i : Candidates(sym, i) \subseteq Candidate /\ \A m \in Candidates(sym, i) : m.pos = i
  BY <1>2, CandidateFacts
<1>6. /\ todo' \in Seq(Candidate) /\ Once(todo')
      /\ ToSet(todo') = UNION {Candidates(sym, k - 1) : k \in 1..n}
  <2>1. Len(ss) = n
    BY <1>3
  <2>2. \A k \in 1..n : /\ ss[k] \in Seq(Candidate) /\ Once(ss[k])
                        /\ ToSet(ss[k]) = Candidates(sym, k - 1)
    BY <1>5, PushListFacts
  <2>3. \A j, k \in 1..n : j # k => ToSet(ss[j]) \cap ToSet(ss[k]) = {}
    BY <1>3, <1>5, <2>2
  <2> HIDE DEF ss
  <2>4. /\ FlattenSeq(ss) \in Seq(Candidate) /\ Once(FlattenSeq(ss))
        /\ ToSet(FlattenSeq(ss)) = UNION {ToSet(ss[k]) : k \in 1..n}
    BY <1>3, <2>1, <2>2, <2>3, FlattenOnce
  <2> QED
    BY <1>1, <2>2, <2>4
<1>7. ToSet(todo') = heap'
  <2>1. \A k \in 1..n : k - 1 \in Nodes
    BY <1>3
  <2>2. \A i \in Nodes : i + 1 \in 1..n /\ i = (i + 1) - 1
    BY <1>3
  <2>3. \A i \in Nodes : Candidates(sym, i) \in {Candidates(sym, k - 1) : k \in 1..n}
    BY <2>2
  <2> QED
    BY <1>1, <1>6, <2>1, <2>3
<1>8. ToSet(data) = {} /\ Once(data)
  BY <1>4 DEF HInv, HeldOnce
<1>9. HeldOnce'
  BY <1>1, <1>6, <1>7, <1>8 DEF HeldOnce
<1>10. AsideOrdered'
  BY <1>1, <1>4 DEF HInv, AsideOrdered
<1>11. HTypes' /\ Queue!HeapButOne'
  <2>1. ButOne(data', mode', at')
    BY <1>1, ButOneIsHeapButOne DEF HInv
  <2>2. /\ data' \in Seq(Candidate) /\ aside' \in Seq(Candidate) /\ mode' \in {"idle", "up", "down"}
        /\ IF mode' = "idle" THEN at' = 1 ELSE at' \in DOMAIN data'
    BY <1>1 DEF HInv, HTypes
  <2> QED
    BY <1>1, <1>2, <1>6, <2>1, <2>2, QueueStep
<1> QED
  BY <1>1, <1>2, <1>9, <1>10, <1>11 DEF HInv, Next

\* What every pop does to the array.
LEMMA TakeTopFacts ==
    ASSUME HInv, TakeTop
    PROVE  /\ data[1] \in Tops /\ data[1] \in heap /\ data[1] \in Candidate
           /\ todo = <<>> /\ data' \in Seq(Candidate) /\ Once(data')
           /\ ToSet(data') = heap \ {data[1]}
           /\ mode' \in {"idle", "up", "down"}
           /\ IF mode' = "idle" THEN at' = 1 ELSE at' \in DOMAIN data'
           /\ ButOne(data', mode', at')
<1>1. Ready /\ Queue!Pop /\ data # <<>>
  BY DEF TakeTop, Queue!Pop
<1>2. data[1] \in Tops /\ data[1] \in heap /\ data[1] \in Candidate /\ heap = ToSet(data)
  BY <1>1, TopFacts
<1>3. todo = <<>>
  BY <1>1 DEF Ready
<1> QED
  BY <1>1, <1>2, <1>3, PopOrder DEF HInv, HeldOnce

\* A stale candidate leaves the queue.
LEMMA HPopStaleStep == ASSUME HInv, HPopStale PROVE [Next]_vars /\ HInv'
<1>1. TakeTop /\ DropStale(data[1]) /\ UNCHANGED <<aside, todo, word, merges, sym, skipped>>
  BY DEF HPopStale, DropStale
<1>2. PopStale
  BY <1>1, TakeTopFacts DEF PopStale
<1>3. IInv /\ IInv'
  BY <1>2, PopStaleStep DEF HInv
<1>4. heap' = heap \ {data[1]}
  BY <1>1 DEF DropStale
<1>5. HTypes' /\ Queue!HeapButOne'
  BY <1>1, <1>3, TakeTopFacts, QueueStep DEF HInv, HTypes
<1>6. HeldOnce'
  BY <1>1, <1>4, TakeTopFacts DEF HeldOnce, Once, ToSet
<1>7. AsideOrdered'
  <2>1. \A m : Valid(m)' <=> Valid(m)
    BY <1>1 DEF Valid, HasPair, PairAt, Alive
  <2> QED
    BY <1>1, <1>4, <2>1 DEF HInv, AsideOrdered
<1> QED
  BY <1>2, <1>3, <1>5, <1>6, <1>7 DEF HInv, Next

\* Two valid candidates of which none is before the other are one candidate.
LEMMA SamePlaceSame ==
    ASSUME TypeOK, NEW a \in Candidate, NEW b \in Candidate, Valid(a), Valid(b),
           ~Before(a, b), ~Before(b, a)
    PROVE  a = b
<1>1. /\ a.rank \in Nat /\ b.rank \in Nat /\ a.pos \in Int /\ b.pos \in Int
      /\ a = [pos |-> a.pos, rank |-> a.rank, id |-> a.id]
      /\ b = [pos |-> b.pos, rank |-> b.rank, id |-> b.id]
  BY WordFacts DEF Candidate, TypeOK
<1>2. a.rank = b.rank /\ a.pos = b.pos
  BY <1>1 DEF Before
<1>3. a.id = b.id
  BY <1>2 DEF Valid
<1> QED
  BY <1>1, <1>2, <1>3

\* A candidate is put aside behind those popped before it.
LEMMA HPopDroppedStep == ASSUME HInv, HPopDropped PROVE [Next]_vars /\ HInv'
<1> DEFINE m == data[1]
<1>1. /\ TakeTop /\ SetAside(m) /\ aside' = Append(aside, m) /\ UNCHANGED todo
      /\ UNCHANGED <<word, merges, sym>> /\ Valid(m)
      /\ heap' = heap \ {m} /\ skipped' = skipped \cup {m}
  BY DEF HPopDropped, SetAside
<1>2. /\ m \in Tops /\ m \in heap /\ m \in Candidate /\ todo = <<>>
      /\ data' \in Seq(Candidate) /\ Once(data') /\ ToSet(data') = heap \ {m}
      /\ mode' \in {"idle", "up", "down"}
      /\ IF mode' = "idle" THEN at' = 1 ELSE at' \in DOMAIN data'
      /\ ButOne(data', mode', at')
  BY <1>1, TakeTopFacts
<1> HIDE DEF m
<1>3. PopDropped
  BY <1>1, <1>2 DEF PopDropped
<1>4. IInv /\ IInv' /\ TypeOK
  BY <1>3, PopDroppedStep DEF HInv, IInv
<1>5. /\ aside \in Seq(Candidate) /\ aside' \in Seq(Candidate)
      /\ Len(aside) \in Nat /\ DOMAIN aside = 1..Len(aside) /\ DOMAIN aside' = 1..(Len(aside) + 1)
      /\ \A k \in DOMAIN aside : aside'[k] = aside[k]
      /\ aside'[Len(aside) + 1] = m /\ ToSet(aside') = ToSet(aside) \cup {m}
  <2>1. aside \in Seq(Candidate)
    BY DEF HInv, HTypes
  <2> QED
    BY <1>1, <1>2, <2>1, AppendOnce, AppendProperties, LenProperties
<1>6. HTypes' /\ Queue!HeapButOne'
  BY <1>1, <1>2, <1>4, <1>5, QueueStep DEF HInv, HTypes
<1>7. HeldOnce'
  BY <1>1, <1>2 DEF HeldOnce, Once, ToSet
<1>8. ASSUME NEW s \in skipped PROVE Before(s, m)
  <2>1. s \in Candidate /\ Valid(s) /\ s # m /\ ~Before(m, s)
    BY <1>2, <1>4, <1>8 DEF HInv, AsideOrdered, TypeOK
  <2> QED
    BY <1>1, <1>2, <1>4, <2>1, SamePlaceSame
<1>9. AsideOrdered'
  <2>1. \A e : Valid(e)' <=> Valid(e)
    BY <1>1 DEF Valid, HasPair, PairAt, Alive
  <2>2. ToSet(aside') = skipped' /\ heap' \cap skipped' = {}
    BY <1>1, <1>5 DEF HInv, AsideOrdered
  <2>3. \A s \in skipped' : Valid(s)' /\ \A e \in heap' : ~Before(e, s)
    BY <1>1, <1>2, <2>1 DEF HInv, AsideOrdered, Tops
  <2>4. ASSUME NEW j \in DOMAIN aside', NEW k \in DOMAIN aside', j < k
        PROVE  Before(aside'[j], aside'[k])
    <3>1. j \in DOMAIN aside /\ aside'[j] = aside[j]
      BY <1>5, <2>4
    <3>2. CASE k \in DOMAIN aside
      BY <1>5, <2>4, <3>1, <3>2 DEF HInv, AsideOrdered
    <3>3. CASE k \notin DOMAIN aside
      <4>1. aside'[k] = m
        BY <1>5, <2>4, <3>3
      <4>2. aside[j] \in skipped
        BY <3>1 DEF HInv, AsideOrdered, ToSet
      <4> QED
        BY <1>8, <3>1, <4>1, <4>2
    <3> QED
      BY <3>2, <3>3
  <2> QED
    BY <2>2, <2>3, <2>4 DEF AsideOrdered
<1> QED
  BY <1>3, <1>4, <1>6, <1>7, <1>9 DEF HInv, Next

\* The vector of skipped candidates holds each of them once.
LEMMA AsideOnce == ASSUME HInv PROVE Once(aside)
<1> SUFFICES ASSUME NEW j \in DOMAIN aside, NEW k \in DOMAIN aside, aside[j] = aside[k]
             PROVE  j = k
  BY DEF Once
<1>1. j \in Nat /\ k \in Nat /\ aside[j] \in Candidate
  BY DEF HInv, HTypes
<1>2. ~Before(aside[j], aside[j])
  BY <1>1, ArrayFacts DEF HInv
<1>3. ~(j < k) /\ ~(k < j)
  BY <1>2 DEF HInv, AsideOrdered
<1> QED
  BY <1>1, <1>3

\* The candidates a merge makes are in no place of the queue yet.
LEMMA FreshCandidates ==
    ASSUME IInv, NEW m \in heap, Valid(m), sym' = Absorb(sym, m.pos, m.id),
           UNCHANGED <<word, merges>>, TypeOK',
           NEW p, p = m.pos \/ p = sym[m.pos].prev
    PROVE  /\ Candidates(sym', p) \subseteq Candidate
           /\ \A c \in Candidates(sym', p) : c.pos = p /\ c \notin heap \cup skipped
<1>1. \A c \in Candidates(sym', p) :
         /\ c = [pos |-> p, rank |-> merges[PairAt(sym', p)].rank, id |-> merges[PairAt(sym', p)].id]
         /\ HasPair(sym', p) /\ PairAt(sym', p) \in DOMAIN merges /\ p \in Nodes
  BY DEF Candidates, HasPair, TypeOK, Nodes
<1>2. \A c \in Candidates(sym', p) : c \in Candidate
  BY <1>1, TableFacts DEF Candidate, IInv, TypeOK
<1>4. ASSUME NEW c \in Candidates(sym', p), c \in heap \cup skipped PROVE FALSE
  <2>1. /\ c.pos = p /\ HasPair(sym', p) /\ PairAt(sym', p) \in DOMAIN merges
        /\ c.id = merges[PairAt(sym', p)].id
    BY <1>1, <1>4
  <2>2. Overtaken(c)'
    BY <1>4, <2>1, AbsorbCandidates
  <2>3. /\ Width[c.id] = Width[PairAt(sym', p)[1]] + Width[PairAt(sym', p)[2]]
        /\ Width[c.id] \in Nat
    BY <2>1, TableFacts, WidthAssumption DEF IInv, TypeOK
  <2> QED
    BY SMTT(30), <2>1, <2>2, <2>3 DEF Overtaken, PairAt
<1> QED
  BY <1>1, <1>2, <1>4

\* A merge: its new pairs and what was put aside are what is to be pushed.
LEMMA HPopMergeStep == ASSUME HInv, HPopMerge PROVE [Next]_vars /\ HInv'
<1> DEFINE m == data[1]
           p == sym[m.pos].prev
           L == PushList(sym', p)
           R == PushList(sym', m.pos)
<1>1. /\ TakeTop /\ Apply(m) /\ Valid(m) /\ sym' = Absorb(sym, m.pos, m.id)
      /\ todo' = PushList(sym', sym'[m.pos].prev) \o R \o aside /\ aside' = <<>>
      /\ UNCHANGED <<word, merges>>
      /\ heap' = (heap \ {m}) \cup Candidates(sym', sym'[m.pos].prev)
                      \cup Candidates(sym', m.pos) \cup skipped
      /\ skipped' = {}
  BY DEF HPopMerge, Apply
<1>2. /\ m \in Tops /\ m \in heap /\ m \in Candidate
      /\ data' \in Seq(Candidate) /\ Once(data') /\ ToSet(data') = heap \ {m}
      /\ mode' \in {"idle", "up", "down"}
      /\ IF mode' = "idle" THEN at' = 1 ELSE at' \in DOMAIN data'
      /\ ButOne(data', mode', at')
  BY <1>1, TakeTopFacts
<1> HIDE DEF m
<1>3. PopMerge
  BY <1>1, <1>2 DEF PopMerge
<1>4. IInv /\ IInv' /\ TypeOK /\ TypeOK'
  BY <1>3, PopMergeStep DEF HInv, IInv
<1>5. sym'[m.pos].prev = p /\ p # m.pos
  <2>1. sym'[m.pos].prev = p /\ m.pos \in Live /\ Linked
    BY <1>1, <1>2, <1>4, MergeFacts DEF IInv
  <2>2. \A i \in Live : i \in Int
    BY <1>4, WordFacts DEF Live, TypeOK
  <2>3. p # NoSym => p \in Live /\ sym[p].next = m.pos
    BY <2>1 DEF Linked, PrevOK
  <2>4. p # NoSym => p < m.pos
    <3> SUFFICES ASSUME p # NoSym PROVE p < m.pos
      OBVIOUS
    <3>1. p \in Live /\ sym[p].next = m.pos /\ NextOK(p)
      BY <2>1, <2>3 DEF Linked
    <3> HIDE DEF p
    <3>2. m.pos # NoSym
      BY <1>4, <2>1, WordFacts DEF Live, TypeOK, NoSym
    <3> QED
      BY <3>1, <3>2 DEF NextOK
  <2>5. m.pos # NoSym
    BY <1>4, <2>1, WordFacts DEF Live, TypeOK, NoSym
  <2> QED
    BY <2>1, <2>2, <2>3, <2>4, <2>5
<1>6. /\ todo' = L \o R \o aside
      /\ heap' = (heap \ {m}) \cup Candidates(sym', p) \cup Candidates(sym', m.pos) \cup skipped
  BY <1>1, <1>5
<1>7. /\ Candidates(sym', p) \subseteq Candidate /\ Candidates(sym', m.pos) \subseteq Candidate
      /\ \A c \in Candidates(sym', p) : c.pos = p /\ c \notin heap \cup skipped
      /\ \A c \in Candidates(sym', m.pos) : c.pos = m.pos /\ c \notin heap \cup skipped
  BY <1>1, <1>2, <1>4, FreshCandidates
<1>8. /\ L \in Seq(Candidate) /\ Once(L) /\ ToSet(L) = Candidates(sym', p)
      /\ R \in Seq(Candidate) /\ Once(R) /\ ToSet(R) = Candidates(sym', m.pos)
  BY <1>7, PushListFacts
<1>9. /\ aside \in Seq(Candidate) /\ Once(aside) /\ ToSet(aside) = skipped /\ heap \cap skipped = {}
  BY AsideOnce DEF HInv, HTypes, AsideOrdered
<1> HIDE DEF p, L, R
<1>10. /\ todo' \in Seq(Candidate) /\ Once(todo')
       /\ ToSet(todo') = Candidates(sym', p) \cup Candidates(sym', m.pos) \cup skipped
  <2>1. ToSet(L) \cap ToSet(R) = {}
    BY <1>5, <1>7, <1>8
  <2> DEFINE K == L \o R
  <2>2. K \in Seq(Candidate) /\ Once(K) /\ ToSet(K) = ToSet(L) \cup ToSet(R)
    BY <1>8, <2>1, ConcatOnce
  <2>3. ToSet(K) \cap ToSet(aside) = {}
    BY <1>7, <1>8, <1>9, <2>2
  <2>4. todo' = K \o aside
    BY <1>6
  <2> HIDE DEF K
  <2>5. /\ K \o aside \in Seq(Candidate) /\ Once(K \o aside)
        /\ ToSet(K \o aside) = ToSet(K) \cup ToSet(aside)
    BY <1>9, <2>2, <2>3, ConcatOnce
  <2> QED
    BY <1>8, <1>9, <2>2, <2>4, <2>5
<1>11. HeldOnce'
  <2>1. ToSet(data') \cap ToSet(todo') = {} /\ ToSet(data') \cup ToSet(todo') = heap'
    BY <1>2, <1>6, <1>7, <1>9, <1>10
  <2> QED
    BY <1>2, <1>10, <2>1 DEF HeldOnce
<1>12. aside' \in Seq(Candidate) /\ ToSet(aside') = {} /\ DOMAIN aside' = {}
  BY <1>1 DEF ToSet
<1>13. HTypes' /\ Queue!HeapButOne'
  BY <1>1, <1>2, <1>4, <1>10, <1>12, QueueStep
<1>14. AsideOrdered'
  BY <1>1, <1>12 DEF AsideOrdered
<1> QED
  BY <1>3, <1>4, <1>11, <1>13, <1>14 DEF HInv, Next

\* A step of the queue that leaves the loop alone.
LEMMA QueueOnlyStep ==
    ASSUME HInv, UNCHANGED <<vars, aside>>, HTypes', HeldOnce', Queue!HeapButOne'
    PROVE  [Next]_vars /\ HInv'
<1>1. IInv' /\ UNCHANGED <<word, merges, sym, heap, skipped, aside>>
  BY StutterStep DEF HInv, vars
<1>2. \A m : Valid(m)' <=> Valid(m)
  BY <1>1 DEF Valid, HasPair, PairAt, Alive
<1>3. AsideOrdered'
  BY <1>1, <1>2 DEF HInv, AsideOrdered
<1> QED
  BY <1>1, <1>3 DEF HInv

\* One push.
LEMMA HPushStep == ASSUME HInv, HPush PROVE [Next]_vars /\ HInv'
<1> DEFINE v == Head(todo)
<1>1. /\ todo # <<>> /\ Queue!Push(v) /\ todo' = Tail(todo) /\ UNCHANGED <<vars, aside>>
      /\ UNCHANGED <<word, heap>>
  BY DEF HPush, vars
<1>2. todo \in Seq(Candidate) /\ Once(todo) /\ IInv /\ HTypes /\ Queue!HeapButOne /\ HeldOnce
  BY DEF HInv, HTypes, HeldOnce
<1>3. /\ v \in Candidate /\ Tail(todo) \in Seq(Candidate) /\ Once(Tail(todo))
      /\ v \in ToSet(todo) /\ ToSet(Tail(todo)) = ToSet(todo) \ {v}
  BY <1>1, <1>2, TailOnce
<1> HIDE DEF v
<1>4. /\ data' \in Seq(Candidate) /\ ToSet(data') = ToSet(data) \cup {v}
      /\ Once(data) /\ v \notin ToSet(data) => Once(data')
      /\ mode' = "up" /\ at' \in DOMAIN data' /\ ButOne(data', mode', at')
  BY <1>1, <1>2, <1>3, PushOrder
<1>5. HeldOnce'
  BY <1>1, <1>2, <1>3, <1>4 DEF HeldOnce
<1>6. HTypes' /\ Queue!HeapButOne'
  BY <1>1, <1>2, <1>3, <1>4, QueueStep DEF HTypes
<1> QED
  BY <1>1, <1>5, <1>6, QueueOnlyStep

\* One iteration of a sifting loop.
LEMMA HSiftStep == ASSUME HInv, HSift PROVE [Next]_vars /\ HInv'
<1>1. /\ Queue!Rise \/ Queue!Sink \/ Queue!Settle
      /\ UNCHANGED <<vars, aside>> /\ UNCHANGED todo /\ UNCHANGED <<word, heap>>
  BY DEF HSift, Queue!Sift, vars
<1>2. IInv /\ HTypes /\ Queue!HeapButOne /\ HeldOnce
  BY DEF HInv
<1>3. /\ data' \in Seq(Candidate) /\ ToSet(data') = ToSet(data) /\ (Once(data) => Once(data'))
      /\ mode' \in {"idle", "up", "down"}
      /\ IF mode' = "idle" THEN at' = 1 ELSE at' \in DOMAIN data'
      /\ ButOne(data', mode', at')
  <2>1. CASE Queue!Rise
    BY <1>2, <2>1, RiseOrder
  <2>2. CASE Queue!Sink
    BY <1>2, <2>2, SinkOrder
  <2>3. CASE Queue!Settle
    BY <1>2, <2>3, SettleOrder DEF HTypes
  <2> QED
    BY <1>1, <2>1, <2>2, <2>3
<1>4. HeldOnce'
  BY <1>1, <1>2, <1>3 DEF HeldOnce
<1>5. HTypes' /\ Queue!HeapButOne'
  BY <1>1, <1>2, <1>3, QueueStep DEF HTypes
<1> QED
  BY <1>1, <1>4, <1>5, QueueOnlyStep

-------------------------------------------------------------------------------
(* The invariant holds throughout. *)

\* merge_all starts with an empty queue.
LEMMA HInitHInv == ASSUME HInit PROVE HInv
<1>1. /\ Init /\ data = <<>> /\ mode = "idle" /\ at = 1 /\ aside = <<>> /\ todo = <<>>
      /\ heap = {} /\ skipped = {}
  BY DEF HInit, Queue!HeapInit, Init
<1>2. IInv
  BY <1>1, InitIInv
<1>3. ToSet(<<>>) = {} /\ DOMAIN <<>> = {}
  BY DEF ToSet
<1>4. HTypes /\ HeldOnce /\ AsideOrdered
  BY <1>1, <1>3 DEF HTypes, HeldOnce, AsideOrdered, Once
<1>5. ButOne(data, mode, at)
  BY <1>1, <1>3 DEF ButOne
<1> QED
  BY <1>2, <1>4, <1>5, ButOneIsHeapButOne DEF HInv

\* Every step of the loop with the heap is a step of WordMerge, or leaves it alone.
LEMMA HNextStep == ASSUME HInv, [HNext]_allVars PROVE [Next]_vars /\ HInv'
BY HQuietStep, HSeedStep, HPopStaleStep, HPopDroppedStep, HPopMergeStep, HPushStep, HSiftStep
   DEF HNext

\* The invariant holds in every state of the loop.
LEMMA HSpecHInv == HSpec => []HInv
<1>1. HInit => HInv
  BY HInitHInv
<1>2. HInv /\ [HNext]_allVars => HInv'
  BY HNextStep
<1> QED
  BY <1>1, <1>2, PTL DEF HSpec

(***************************************************************************)
(* The loop with the array heap implements the loop with the set of        *)
(* candidates: each pop of the array is the pop of a least candidate, the  *)
(* pushes are those WordMerge makes at once, and the loop of the code ends *)
(* on an empty array only when no candidate is left.                       *)
(***************************************************************************)
THEOREM HeapImplementsQueue == HSpec => Spec
<1>1. HInit => Init
  BY DEF HInit
<1>2. HInv /\ [HNext]_allVars => [Next]_vars
  BY HNextStep
<1> QED
  BY <1>1, <1>2, HSpecHInv, PTL DEF HSpec, Spec

(***************************************************************************)
(* What WordMerge guarantees holds of the loop with the array heap: types, *)
(* the linked list, the tiling of the bytes, that no mergeable pair is     *)
(* lost, that ranks are current, that the result is fully merged, and that *)
(* live_count_ and compact() are right.                                    *)
(***************************************************************************)
THEOREM LoopCorrect ==
    HSpec => [](TypeOK /\ Linked /\ Tiled /\ Covered /\ RankCurrent
               /\ Irreducible /\ Compacted)
BY HeapImplementsQueue, TypeCorrect, ListWellFormed, OffsetsTile, PairsCovered,
   RanksCurrent, EndsIrreducible, CountsAndCompacts, PTL

(***************************************************************************)
(* merge_all, down to the swaps in its array heap, implements the reference*)
(* encoder.                                                                *)
(***************************************************************************)
THEOREM LoopImplementsReference == HSpec => RefinesReference
BY HeapImplementsQueue, ImplementsReference, PTL

(***************************************************************************)
(* No sift, push or pop loses or doubles a candidate, no candidate is      *)
(* pushed that is queued already, and dropout's vector holds what it put   *)
(* aside in the order it was popped.                                       *)
(***************************************************************************)
THEOREM QueueStaysExact == HSpec => []QueueExact
<1>1. ASSUME HInv PROVE QueueExact
  <2>1. /\ data \in Seq(Candidate) /\ Once(data) /\ todo \in Seq(Candidate) /\ Once(todo)
        /\ aside \in Seq(Candidate) /\ Once(aside)
    BY <1>1, AsideOnce DEF HInv, HTypes, HeldOnce
  <2>2. /\ IsFiniteSet(ToSet(data)) /\ Cardinality(ToSet(data)) = Len(data)
        /\ IsFiniteSet(ToSet(todo)) /\ Cardinality(ToSet(todo)) = Len(todo)
        /\ Cardinality(ToSet(aside)) = Len(aside)
    BY <2>1, OnceCardinality
  <2>3. Len(data) + Len(todo) = Cardinality(heap)
    <3>1. ToSet(data) \cap ToSet(todo) = {}
      BY <1>1 DEF HInv, HeldOnce
    <3>2. Cardinality(ToSet(data) \cup ToSet(todo)) = Cardinality(ToSet(data)) + Cardinality(ToSet(todo))
      BY <2>2, <3>1, DisjointCardinality
    <3>3. ToSet(data) \cup ToSet(todo) = heap
      BY <1>1 DEF HInv, HeldOnce
    <3> QED
      BY <2>2, <3>2, <3>3
  <2>4. \A k \in 1..(Len(aside) - 1) : Before(aside[k], aside[k + 1])
    <3>1. Len(aside) \in Nat /\ DOMAIN aside = 1..Len(aside)
      BY <2>1
    <3>2. \A k \in 1..(Len(aside) - 1) : k \in DOMAIN aside /\ k + 1 \in DOMAIN aside /\ k < k + 1
      BY <3>1
    <3> QED
      BY <1>1, <3>2 DEF HInv, AsideOrdered
  <2> QED
    BY <1>1, <2>2, <2>3, <2>4 DEF QueueExact, HInv, HeldOnce, AsideOrdered
<1> QED
  BY <1>1, HSpecHInv, PTL

(***************************************************************************)
(* The front of the array is a least candidate whenever merge_all looks at *)
(* it, and a sift leaves the heap in order but for one place.              *)
(***************************************************************************)
THEOREM TopStaysLeast == HSpec => []TopIsLeast
<1>1. HInv => TopIsLeast
  BY TopFacts DEF TopIsLeast, HInv
<1> QED
  BY <1>1, HSpecHInv, PTL
===============================================================================
