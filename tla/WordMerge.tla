------------------------------ MODULE WordMerge ------------------------------
(***************************************************************************)
(* Word::merge_all of src/models/bpe/word.h: the encoding of one pre-token.*)
(* The symbols form a doubly linked list held in a vector; a priority queue*)
(* holds merge candidates <<position, rank, merged id>>; a merge kills the *)
(* right symbol (len = 0), relinks, and pushes the two new neighbour pairs.*)
(* Candidates are never removed from the queue when they go stale: each is *)
(* validated when it is popped.  BPE-dropout puts a valid candidate aside  *)
(* and brings it back after the next merge.                                *)
(*                                                                         *)
(* The d-ary heap (src/utils/dheap.h) is a set here: what merge_all relies *)
(* on is that top() is a least element in EncodeMerge's order.  HeapMerge  *)
(* puts the array heap of the code in its place.                           *)
(***************************************************************************)
EXTENDS Integers, FiniteSets

CONSTANTS Id,           \* token ids
          Width,        \* [Id -> bytes of text a token of the model covers]
          Words,        \* the words handed to merge_all, as built by Word::add
          MergeTables,  \* the merge maps of the models considered
          Dropouts      \* subset of {"none", "some", "all"}

NoSym == -1

\* A merge map: each merge concatenates its two tokens, so widths add up.
IsMergeTable(m) ==
    /\ DOMAIN m \subseteq Id \X Id
    /\ \A p \in DOMAIN m : /\ m[p] \in [rank : Nat, id : Id]
                           /\ Width[m[p].id] = Width[p[1]] + Width[p[2]]

\* A word of n symbols: the byte offset, length and id of each of them.
IsWord(w) ==
    LET n == Cardinality(DOMAIN w) IN
       /\ n \in Nat
       /\ w \in [0..(n - 1) -> [c : Id, at : Nat, len : Nat \ {0}]]
       /\ \A i \in 0..(n - 2) : w[i + 1].at = w[i].at + w[i].len

ASSUME WidthAssumption   == Width \in [Id -> Nat \ {0}]
ASSUME TableAssumption   == \A m \in MergeTables : IsMergeTable(m)
ASSUME WordAssumption    == \A w \in Words : IsWord(w)
ASSUME DropoutAssumption == Dropouts \subseteq {"none", "some", "all"}

VARIABLES word,     \* the word as it was built (never changes)
          merges,   \* the model's merge map
          dropout,  \* "none": no dropout; "some": 0 < p < 1; "all": p = 1
          sym,      \* symbols_
          live,     \* live_count_
          heap,     \* the candidates in the queue
          skipped,  \* the candidates dropout has put aside
          pc,       \* "seed", "merge" or "done"
          out       \* symbols_ after compact()

vars == <<word, merges, dropout, sym, live, heap, skipped, pc, out>>

Nodes == DOMAIN word

Symbol(c, prev, next, len) == [c |-> c, prev |-> prev, next |-> next, len |-> len]

\* Mutant: the last symbol links to one that is not there.
BuiltOpenEnd(w) ==
    [i \in DOMAIN w |-> Symbol(w[i].c, i - 1, i + 1, w[i].len)]

\* Word::add, once per symbol: each links back to the one before it.
Built(w) ==
    [i \in DOMAIN w |-> Symbol(w[i].c, i - 1,
                               IF i + 1 \in DOMAIN w THEN i + 1 ELSE NoSym, w[i].len)]

Alive(s, i) == s[i].len # 0

\* Mutant: the rightmost of equal ranks first.
BeforeRightmost(a, b) == a.rank < b.rank \/ (a.rank = b.rank /\ a.pos > b.pos)

\* EncodeMerge::operator<
Before(a, b) == a.rank < b.rank \/ (a.rank = b.rank /\ a.pos < b.pos)

Tops == {m \in heap : \A e \in heap : ~Before(e, m)}

PairAt(s, i) == <<s[i].c, s[s[i].next].c>>

\* The symbol at i is alive, and so is its right neighbour.
HasPair(s, i) ==
    i \in DOMAIN s /\ Alive(s, i) /\ s[i].next # NoSym /\ Alive(s, s[i].next)

\* Word::try_push_pair: the candidates it adds for position i (one or none).
Candidates(s, i) ==
    IF HasPair(s, i) /\ PairAt(s, i) \in DOMAIN merges
    THEN {[pos |-> i, rank |-> merges[PairAt(s, i)].rank, id |-> merges[PairAt(s, i)].id]}
    ELSE {}

\* Mutant: any rule for the present pair makes the candidate valid.
ValidAnyRule(m) == HasPair(sym, m.pos) /\ PairAt(sym, m.pos) \in DOMAIN merges

\* Mutant: a pair that ends in the last symbol is taken for stale.
ValidButLast(m) ==
    /\ HasPair(sym, m.pos) /\ sym[sym[m.pos].next].next # NoSym
    /\ PairAt(sym, m.pos) \in DOMAIN merges
    /\ merges[PairAt(sym, m.pos)].id = m.id

\* The three lazy checks made on a popped candidate: only the id is compared.
Valid(m) ==
    /\ HasPair(sym, m.pos)
    /\ PairAt(sym, m.pos) \in DOMAIN merges
    /\ merges[PairAt(sym, m.pos)].id = m.id

Init ==
    /\ word \in Words /\ merges \in MergeTables /\ dropout \in Dropouts
    /\ sym = Built(word)
    /\ live = Cardinality(DOMAIN word)
    /\ heap = {} /\ skipped = {}
    /\ pc = "seed"
    /\ out = <<>>

\* The early return on an empty word.
EmptyWord ==
    /\ pc = "seed" /\ Nodes = {}
    /\ pc' = "done"
    /\ UNCHANGED <<word, merges, dropout, sym, live, heap, skipped, out>>

\* The initial scan: every adjacent pair with a rule becomes a candidate.
Seed ==
    /\ pc = "seed" /\ Nodes # {}
    /\ heap' = UNION {Candidates(sym, i) : i \in Nodes}
    /\ pc' = "merge"
    /\ UNCHANGED <<word, merges, dropout, sym, live, skipped, out>>

\* The popped candidate m is stale: the loop goes on.
DropStale(m) ==
    /\ pc = "merge" /\ ~Valid(m)
    /\ heap' = heap \ {m}
    /\ UNCHANGED <<word, merges, dropout, sym, live, skipped, pc, out>>

\* Dropout puts the popped candidate m aside.
SetAside(m) ==
    /\ pc = "merge" /\ Valid(m) /\ dropout # "none"
    /\ heap' = heap \ {m}
    /\ skipped' = skipped \cup {m}
    /\ UNCHANGED <<word, merges, dropout, sym, live, pc, out>>

\* Mutant: the symbol after the merged pair keeps its old prev.
AbsorbNoBacklink(s, i, id) ==
    LET j == s[i].next
    IN [s EXCEPT ![i] = Symbol(id, s[i].prev, s[j].next, s[i].len + s[j].len), ![j].len = 0]

\* Mutant: the length of the absorbed symbol is lost.
AbsorbNoLength(s, i, id) ==
    LET j  == s[i].next
        n2 == s[j].next
    IN [k \in DOMAIN s |->
          CASE k = i  -> [s[i] EXCEPT !.c = id, !.next = n2]
            [] k = j  -> [s[j] EXCEPT !.len = 0]
            [] k = n2 -> [s[k] EXCEPT !.prev = i]
            [] OTHER  -> s[k]]

\* The list after the symbol at i has absorbed its right neighbour.
Absorb(s, i, id) ==
    LET j  == s[i].next
        n2 == s[j].next
    IN [k \in DOMAIN s |->
          CASE k = i  -> Symbol(id, s[i].prev, n2, s[i].len + s[j].len)
            [] k = j  -> [s[j] EXCEPT !.len = 0]
            [] k = n2 -> [s[k] EXCEPT !.prev = i]
            [] OTHER  -> s[k]]

\* Mutant: only the pair to the right of the merged symbol is pushed.
ApplyNoLeft(m) ==
    /\ pc = "merge" /\ Valid(m) /\ dropout # "all"
    /\ sym' = Absorb(sym, m.pos, m.id)
    /\ live' = live - 1
    /\ heap' = (heap \ {m}) \cup Candidates(sym', m.pos) \cup skipped
    /\ skipped' = {}
    /\ UNCHANGED <<word, merges, dropout, pc, out>>

\* The popped candidate m is merged; new and set-aside candidates are pushed.
Apply(m) ==
    /\ pc = "merge" /\ Valid(m) /\ dropout # "all"
    /\ sym' = Absorb(sym, m.pos, m.id)
    /\ live' = live - 1
    /\ heap' = (heap \ {m}) \cup Candidates(sym', sym'[m.pos].prev)
                  \cup Candidates(sym', m.pos) \cup skipped
    /\ skipped' = {}
    /\ UNCHANGED <<word, merges, dropout, pc, out>>

PopStale == \E m \in Tops : DropStale(m)

PopDropped == \E m \in Tops : SetAside(m)

PopMerge == \E m \in Tops : Apply(m)

\* The r-th element, from 0, of a finite set of numbers.
Nth(S, r) == CHOOSE i \in S : Cardinality({k \in S : k < i}) = r

\* Mutant: compact() keeps the old links.
KeptOldLinks(s) ==
    LET L == {i \in DOMAIN s : Alive(s, i)}
    IN [r \in 0..(Cardinality(L) - 1) |-> s[Nth(L, r)]]

\* Word::compact: the live symbols in vector order, densely relinked.
Kept(s) ==
    LET L == {i \in DOMAIN s : Alive(s, i)}
        n == Cardinality(L)
    IN [r \in 0..(n - 1) |->
          [s[Nth(L, r)] EXCEPT !.prev = r - 1,
                               !.next = IF r + 1 < n THEN r + 1 ELSE NoSym]]

\* compact(), once the queue is empty.
Finish ==
    /\ pc = "merge"
    /\ out' = Kept(sym)
    /\ live' = Cardinality(DOMAIN out')
    /\ pc' = "done"
    /\ UNCHANGED <<word, merges, dropout, sym, heap, skipped>>

Compact == heap = {} /\ Finish

Terminating == pc = "done" /\ UNCHANGED vars

Next == EmptyWord \/ Seed \/ PopStale \/ PopDropped \/ PopMerge \/ Compact \/ Terminating

Spec == Init /\ [][Next]_vars

\* merge_all is one loop of one thread: it takes its next step as long as it has one.
FairSpec == Spec /\ WF_vars(Next)

-------------------------------------------------------------------------------
Live == {i \in DOMAIN sym : Alive(sym, i)}

Candidate == [pos : Nodes, rank : Nat, id : Id]

(***************************************************************************)
(* Types of merge_all's variables.                                         *)
(***************************************************************************)
TypeOK ==
    /\ word \in Words /\ merges \in MergeTables /\ dropout \in Dropouts
    /\ sym \in [Nodes -> [c : Id, prev : Nodes \cup {NoSym},
                          next : Nodes \cup {NoSym}, len : Nat]]
    /\ live \in Int
    /\ heap \in SUBSET Candidate /\ skipped \in SUBSET Candidate
    /\ pc \in {"seed", "merge", "done"}

NextOK(i) ==
    IF sym[i].next = NoSym
    THEN \A k \in Live : k <= i
    ELSE /\ sym[i].next \in Live /\ i < sym[i].next
         /\ sym[sym[i].next].prev = i
         /\ \A k \in Live : k <= i \/ sym[i].next <= k

PrevOK(i) ==
    IF sym[i].prev = NoSym
    THEN \A k \in Live : i <= k
    ELSE sym[i].prev \in Live /\ sym[sym[i].prev].next = i

(***************************************************************************)
(* The relinking of merge_all keeps the live symbols a doubly linked list  *)
(* in vector order that starts at index 0: neighbours in the list are      *)
(* neighbours among the live symbols, in both directions.                  *)
(***************************************************************************)
Linked == \A i \in Live : NextOK(i) /\ PrevOK(i)

EndOf(w, i) == w[i].at + w[i].len

LastNode(i) == \A k \in Nodes : k <= i

(***************************************************************************)
(* No merge loses or duplicates a byte: each live symbol starts where the  *)
(* symbol it was built from started, and ends where its right neighbour    *)
(* starts, the last one at the end of the word (the token offsets computed *)
(* by Word::offsets tile the word).                                        *)
(***************************************************************************)
Tiled ==
    \A i \in Live :
       IF sym[i].next = NoSym
       THEN \A k \in Nodes : LastNode(k) => word[i].at + sym[i].len = EndOf(word, k)
       ELSE word[i].at + sym[i].len = word[sym[i].next].at

(***************************************************************************)
(* Lazy invalidation never loses a merge: while the loop runs, each live   *)
(* adjacent pair with a rule has a candidate in the queue, or put aside by *)
(* dropout, that will pass validation with the pair's own rank.            *)
(***************************************************************************)
Covered ==
    pc # "seed" => \A i \in Live : Candidates(sym, i) \subseteq heap \cup skipped

(***************************************************************************)
(* The check of a popped candidate compares ids and not ranks, yet a       *)
(* candidate that passes it carries the rank of the pair it merges: the    *)
(* text under a position only grows, so an older pair at the same position *)
(* cannot have the same merged token.                                      *)
(***************************************************************************)
RankCurrent ==
    \A m \in heap \cup skipped :
       Valid(m) => merges[PairAt(sym, m.pos)].rank = m.rank

(***************************************************************************)
(* What merge_all returns is fully merged: without dropout no two          *)
(* neighbouring symbols have a rule, and with dropout every pair that has  *)
(* one was put aside after the last merge.                                 *)
(***************************************************************************)
Irreducible ==
    pc = "done" =>
       \A i \in Live : \A m \in Candidates(sym, i) : dropout # "none" /\ m \in skipped

(***************************************************************************)
(* live_count_ (what size() and the reserve of ids() use) is the number of *)
(* live symbols, and compact() leaves a dense list with the same ids whose *)
(* lengths add up to the word: ids() and offsets() agree with the merges.  *)
(***************************************************************************)
Compacted ==
    /\ live = Cardinality(Live)
    /\ pc = "done" =>
         /\ DOMAIN out = 0..(live - 1)
         /\ \A r \in DOMAIN out :
               LET i == Nth(Live, r)
               IN /\ out[r].c = sym[i].c /\ out[r].len = sym[i].len
                  /\ out[r].next = (IF sym[i].next = NoSym THEN NoSym ELSE r + 1)
                  /\ out[r].prev = r - 1

(***************************************************************************)
(* merge_all returns, whatever dropout decides.                            *)
(***************************************************************************)
Termination == <>(pc = "done")

Ref == INSTANCE BpeReference WITH
          seg  <- [i \in Live |-> sym[i].c],
          done <- pc = "done"

(***************************************************************************)
(* merge_all implements the reference: the segmentation of its live        *)
(* symbols evolves by merging the pair of lowest (rank, position).         *)
(***************************************************************************)
RefinesReference == Ref!RefSpec
===============================================================================
