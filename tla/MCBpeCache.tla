------------------------------ MODULE MCBpeCache ------------------------------
(***************************************************************************)
(* BpeCache for TLC: two threads, two instances, two cacheable texts and   *)
(* one text of every other kind.  Threads are interchangeable.             *)
(***************************************************************************)
EXTENDS BpeCacheHistory, TLC

CONSTANTS a, b, long, bad, word

MCKeys == {a, b, long, bad, word}
MCKind == (a :> "plain") @@ (b :> "plain") @@ (long :> "long") @@ (bad :> "fails") @@ (word :> "whole")

TwoKeys == {a, b}
TwoKind == (a :> "plain") @@ (b :> "plain")

Symmetry == Permutations(Threads)
===============================================================================
