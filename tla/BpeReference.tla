----------------------------- MODULE BpeReference -----------------------------
(***************************************************************************)
(* What encoding one pre-token with a merge table promises, with no list,  *)
(* heap or lazy deletion: a segmentation of the word, and a step that      *)
(* merges two neighbouring segments.  Without dropout the step is forced:  *)
(* the pair of lowest rank, the leftmost of that rank, until none is left. *)
(* With BPE-dropout any mergeable pair may go next and any may be left.    *)
(*                                                                         *)
(* A segmentation is a function from the index of a segment's first symbol *)
(* to the segment's token id.                                              *)
(***************************************************************************)
EXTENDS Integers

VARIABLES merges,   \* [pairs of ids -> [rank, id]]
          dropout,  \* "none", "some" or "all"
          seg,      \* [set of start indices -> token id]
          done

refVars == <<merges, dropout, seg, done>>

\* j is the start of the segment right after the one that starts at i.
IsSucc(i, j) ==
    /\ i \in DOMAIN seg /\ j \in DOMAIN seg /\ i < j
    /\ \A k \in DOMAIN seg : k <= i \/ j <= k

\* The segments that start at i and j are neighbours with a merge rule.
Mergeable(i, j) == IsSucc(i, j) /\ <<seg[i], seg[j]>> \in DOMAIN merges

RankAt(i, j) == merges[<<seg[i], seg[j]>>].rank

\* No other mergeable pair comes first in the order (rank, position).
Best(i, j) ==
    /\ Mergeable(i, j)
    /\ \A k, l \in DOMAIN seg :
          Mergeable(k, l) => \/ RankAt(i, j) < RankAt(k, l)
                             \/ RankAt(i, j) = RankAt(k, l) /\ i <= k

Chosen(i, j) == CASE dropout = "none" -> Best(i, j)
                  [] dropout = "some" -> Mergeable(i, j)
                  [] OTHER            -> FALSE

MergePair ==
    /\ ~done
    /\ \E i, j \in DOMAIN seg :
          /\ Chosen(i, j)
          /\ seg' = [k \in DOMAIN seg \ {j} |->
                       IF k = i THEN merges[<<seg[i], seg[j]>>].id ELSE seg[k]]
    /\ UNCHANGED <<merges, dropout, done>>

Finish ==
    /\ ~done
    /\ dropout = "none" => \A i, j \in DOMAIN seg : ~Mergeable(i, j)
    /\ done' = TRUE
    /\ UNCHANGED <<merges, dropout, seg>>

RefNext == MergePair \/ Finish

RefSpec == ~done /\ [][RefNext]_refVars
===============================================================================
