-------------------------------- MODULE DHeap --------------------------------
(***************************************************************************)
(* d_heap of src/utils/dheap.h: a d-ary heap in an array.  push and pop    *)
(* change the array at one end and then sift one element, a swap at a time.*)
(* Each iteration of a sifting loop is a step, so that what holds in the   *)
(* middle of a sift can be stated.  Indices start at 1 (0 in the code).    *)
(***************************************************************************)
EXTENDS Integers, Sequences

CONSTANTS D,          \* the arity: 4 for encoding, 8 for training
          Cmp(_, _)   \* cmp_: the second argument should be nearer to the top

VARIABLES data,   \* data_
          mode,   \* "idle", or the loop that runs: "up" or "down"
          at      \* i in that loop (1 when idle)

heapVars == <<data, mode, at>>

Parent(i) == (i - 2) \div D + 1

Children(i) == (D * (i - 1) + 2)..(D * i + 1) \cap DOMAIN data

Swap(a, i, j) == [a EXCEPT ![i] = a[j], ![j] = a[i]]

HeapInit == data = <<>> /\ mode = "idle" /\ at = 1

\* push_back, and the start of sift_up
Push(v) ==
    /\ mode = "idle"
    /\ data' = Append(data, v)
    /\ mode' = "up" /\ at' = Len(data) + 1

\* The last element moves to the front and sift_down starts (nothing if empty).
Pop ==
    /\ mode = "idle" /\ data # <<>>
    /\ data' = SubSeq([data EXCEPT ![1] = data[Len(data)]], 1, Len(data) - 1)
    /\ mode' = (IF data' = <<>> THEN "idle" ELSE "down") /\ at' = 1

RisesAt(i) == i > 1 /\ Cmp(data[Parent(i)], data[i])

Rise ==
    /\ mode = "up" /\ RisesAt(at)
    /\ data' = Swap(data, Parent(at), at)
    /\ at' = Parent(at) /\ UNCHANGED mode

\* Mutant: the first child that is better, instead of the best one.
BestOfFirst(i) ==
    LET better == {c \in Children(i) : Cmp(data[i], data[c])}
    IN IF better = {} THEN i ELSE CHOOSE c \in better : \A e \in better : c <= e

\* The inner loop of sift_down: the best of i and its children, the first of equals.
BestOf(i) ==
    LET here == {i} \cup Children(i)
        best == {c \in here : \A e \in here : ~Cmp(data[c], data[e])}
    IN CHOOSE c \in best : \A e \in best : c <= e

Sink ==
    /\ mode = "down" /\ BestOf(at) # at
    /\ data' = Swap(data, at, BestOf(at))
    /\ at' = BestOf(at) /\ UNCHANGED mode

Settle ==
    /\ \/ mode = "up" /\ ~RisesAt(at)
       \/ mode = "down" /\ BestOf(at) = at
    /\ mode' = "idle" /\ at' = 1
    /\ UNCHANGED data

Sift == Rise \/ Sink \/ Settle

-------------------------------------------------------------------------------
(***************************************************************************)
(* Every element is in order with its parent, except where the element     *)
(* that is being sifted stands; and around that place the elements below   *)
(* are in order with the element above, so that swapping repairs the heap. *)
(***************************************************************************)
HeapButOne ==
    /\ \A k \in DOMAIN data : k > 1 =>
          \/ ~Cmp(data[Parent(k)], data[k])
          \/ mode = "up" /\ k = at
          \/ mode = "down" /\ Parent(k) = at
    /\ mode # "idle" /\ at > 1 =>
          \A k \in Children(at) : ~Cmp(data[Parent(at)], data[k])
===============================================================================
