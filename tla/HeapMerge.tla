------------------------------ MODULE HeapMerge ------------------------------
(***************************************************************************)
(* merge_all with its queue as the code has it: WordMerge composed with    *)
(* the d-ary heap of DHeap.  Where WordMerge adds a set of candidates to   *)
(* `heap' at once, here they are pushed one by one in the code's order     *)
(* (the left neighbour's pair, the merged symbol's, then those dropout put *)
(* aside), each sifted into place; and where WordMerge takes any least     *)
(* candidate, here it is the one at the front of the array.  `heap' is     *)
(* what the array holds and what is still to be pushed.                    *)
(***************************************************************************)
EXTENDS WordMerge, SequencesExt

CONSTANT Arity   \* D of d_heap

ASSUME ArityAssumption == Arity \in Nat /\ Arity >= 2

VARIABLES data, mode, at,   \* the heap of DHeap
          aside,            \* the vector of candidates dropout has skipped
          todo              \* pushes of the current step still to be made

\* std::greater<EncodeMerge>: the least candidate is on top.
After(a, b) == Before(b, a)

Queue == INSTANCE DHeap WITH D <- Arity, Cmp <- After

queueVars == <<data, mode, at>>
allVars   == <<vars, queueVars, aside, todo>>

HInit == Init /\ Queue!HeapInit /\ aside = <<>> /\ todo = <<>>

\* The code between two calls of the heap runs when no push or sift is left.
Ready == mode = "idle" /\ todo = <<>>

\* No candidate or one, as a sequence.
PushList(s, i) == SetToSeq(Candidates(s, i))

HEmptyWord == EmptyWord /\ UNCHANGED <<queueVars, aside, todo>>

HSeed ==
    /\ Seed
    /\ todo' = FlattenSeq([k \in 1..Cardinality(Nodes) |-> PushList(sym, k - 1)])
    /\ UNCHANGED <<queueVars, aside>>

\* top() and pop(): the candidate at the front leaves the queue.
TakeTop == Ready /\ Queue!Pop

\* Mutant: a stale candidate is pushed again.
HPopStaleRequeued ==
    /\ TakeTop /\ pc = "merge" /\ ~Valid(data[1])
    /\ todo' = <<data[1]>>
    /\ UNCHANGED <<vars, aside>>

HPopStale == TakeTop /\ DropStale(data[1]) /\ UNCHANGED <<aside, todo>>

HPopDropped ==
    /\ TakeTop /\ SetAside(data[1])
    /\ aside' = Append(aside, data[1])
    /\ UNCHANGED todo

\* Mutant: what dropout put aside is pushed again and stays put aside.
HPopMergeKeepsAside ==
    /\ TakeTop /\ Apply(data[1])
    /\ todo' = PushList(sym', sym'[data[1].pos].prev) \o PushList(sym', data[1].pos) \o aside
    /\ UNCHANGED aside

HPopMerge ==
    /\ TakeTop /\ Apply(data[1])
    /\ todo' = PushList(sym', sym'[data[1].pos].prev) \o PushList(sym', data[1].pos) \o aside
    /\ aside' = <<>>

HPush ==
    /\ mode = "idle" /\ todo # <<>>
    /\ Queue!Push(Head(todo)) /\ todo' = Tail(todo)
    /\ UNCHANGED <<vars, aside>>

HSift == Queue!Sift /\ UNCHANGED <<vars, aside, todo>>

\* The loop ends when the heap is empty.
HCompact == Ready /\ data = <<>> /\ Finish /\ UNCHANGED <<queueVars, aside, todo>>

HTerminating == Terminating /\ UNCHANGED <<queueVars, aside, todo>>

HNext == \/ HEmptyWord \/ HSeed \/ HPopStale \/ HPopDropped \/ HPopMerge
         \/ HPush \/ HSift \/ HCompact \/ HTerminating

HSpec == HInit /\ [][HNext]_allVars

\* One loop of one thread, as in WordMerge.
HFairSpec == HSpec /\ WF_allVars(HNext)

-------------------------------------------------------------------------------
(***************************************************************************)
(* The array and the pushes still to be made hold each candidate of `heap' *)
(* once: no sift loses or doubles a candidate and merge_all never pushes   *)
(* one that is queued already, so the queue stays bounded.  What dropout   *)
(* has put aside is in the vector, in the order it was popped.             *)
(***************************************************************************)
QueueExact ==
    /\ ToSet(data) \cup ToSet(todo) = heap
    /\ Len(data) + Len(todo) = Cardinality(heap)
    /\ ToSet(aside) = skipped /\ Len(aside) = Cardinality(skipped)
    /\ \A k \in 1..(Len(aside) - 1) : Before(aside[k], aside[k + 1])

(***************************************************************************)
(* Whenever merge_all looks at top(), the front of the array is a          *)
(* candidate of lowest rank, and the leftmost of that rank; in the middle  *)
(* of a sift the heap is in order but for one place.                       *)
(***************************************************************************)
TopIsLeast == /\ Queue!HeapButOne
              /\ Ready /\ data # <<>> => data[1] \in Tops
===============================================================================
