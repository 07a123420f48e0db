--------------------------- MODULE BpeCacheHistory ---------------------------
(***************************************************************************)
(* BpeCache with a history variable: which threads have cleared a cache.   *)
(***************************************************************************)
EXTENDS BpeCache

VARIABLE clearers   \* the threads that have called clear_cache() or train()

HistoryInit == Init /\ clearers = {}

HistoryNext ==
    \/ /\ BuildRejected \/ \E i \in Instances : Construct(i) \/ Destroy(i)
       /\ UNCHANGED clearers
    \/ \E t \in Threads, i \in Instances :
          \/ /\ ClearCache(t, i) \/ Train(t, i)
             /\ clearers' = clearers \cup {t}
          \/ /\ \E k \in Keys : TokenizeHit(t, i, k) \/ TokenizeMiss(t, i, k)
             /\ UNCHANGED clearers

HistorySpec == HistoryInit /\ [][HistoryNext]_<<vars, clearers>>

-------------------------------------------------------------------------------
(***************************************************************************)
(* With one cache ever built, a thread that does all the clearing and      *)
(* training itself is never answered from an old model, whatever the other *)
(* threads have cached: clear() erases its own entries, and the ids it     *)
(* draws are the first id again and then new ones.                         *)
(***************************************************************************)
OwnClearsCurrent ==
    \A t \in Threads : ctorNext = 2 /\ clearers \subseteq {t} =>
       \A i \in alive : HasCache(i) =>
          \A k \in Entries(t, id[i]) : storage[t][id[i]][k] = content[i]
===============================================================================
