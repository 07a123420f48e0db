------------------------------- MODULE BpeCache -------------------------------
(***************************************************************************)
(* The encoding cache (src/models/bpe/cache.h, cache.cpp) and the calls of *)
(* BPE that use it: tokenize, train (through clear_cache) and clear_cache. *)
(* Each thread keeps [cache id -> [text -> word]]; an instance finds its   *)
(* entries under its current id.  The constructor and clear() each draw    *)
(* ids from a counter of their own, and both counters start at 1.          *)
(*                                                                         *)
(* A tokenize call touches only its own thread's storage and constant      *)
(* state of the model, so it is one step here.  The class has no lock: the *)
(* caller keeps train and clear_cache apart from other calls on the same   *)
(* instance, which makes them single steps too.                            *)
(***************************************************************************)
EXTENDS Integers, FiniteSets

CONSTANTS Threads, Instances, Keys,
          Kind,        \* [Keys -> {"plain", "long", "fails", "whole"}]
          Capacities,  \* the cache_capacity values instances are built with
          MaxIds,      \* bound: constructions and clears each draw at most this many
          MaxContents  \* bound: how many models are built or trained

Kinds == {"plain",  \* cacheable
          "long",   \* longer than kMaxLength: never cached
          "fails",  \* merge_word reports an error: no tokens, never cached
          "whole"}  \* in the vocabulary, with ignore_merges: answered before the cache

ASSUME KindAssumption == Kind \in [Keys -> Kinds]
ASSUME CapacityAssumption == Capacities \subseteq Nat /\ Capacities # {}
ASSUME BoundAssumption == MaxIds \in Nat /\ MaxContents \in Nat

None == 0

VARIABLES alive,      \* the BPE objects that exist
          content,    \* [instance -> which vocab and merges it holds]
          capacity,   \* [instance -> its capacity; 0: no cache object]
          id,         \* [instance -> id_]
          ctorNext,   \* next_id of the constructor
          clearNext,  \* next_id of clear()
          nextContent,
          storage,    \* [thread -> [id -> [key -> content it was computed with]]]
          answer      \* the last tokenize: who asked what, and the content the words came from

vars == <<alive, content, capacity, id, ctorNext, clearNext, nextContent, storage, answer>>

IdSet == 1..MaxIds

NoAnswer == [inst |-> None, key |-> None, from |-> None, cached |-> FALSE]

Init ==
    /\ alive = {}
    /\ content = [i \in Instances |-> None]
    /\ capacity = [i \in Instances |-> 0]
    /\ id = [i \in Instances |-> None]
    /\ ctorNext = 1 /\ clearNext = 1 /\ nextContent = 1
    /\ storage = [t \in Threads |-> [n \in IdSet |-> [k \in Keys |-> None]]]
    /\ answer = NoAnswer

Entries(t, n) == {k \in Keys : storage[t][n][k] # None}

\* Mutant: the constructor does not advance its counter.
ConstructSameId(i) ==
    /\ i \notin alive /\ nextContent <= MaxContents
    /\ alive' = alive \cup {i}
    /\ content' = [content EXCEPT ![i] = nextContent]
    /\ nextContent' = nextContent + 1
    /\ \E c \in Capacities :
          /\ capacity' = [capacity EXCEPT ![i] = c]
          /\ c > 0 => ctorNext <= MaxIds
          /\ id' = [id EXCEPT ![i] = IF c = 0 THEN None ELSE ctorNext]
    /\ UNCHANGED <<ctorNext, clearNext, storage, answer>>

\* build(): a new model, and a cache object unless the capacity is 0.
Construct(i) ==
    /\ i \notin alive /\ nextContent <= MaxContents
    /\ alive' = alive \cup {i}
    /\ content' = [content EXCEPT ![i] = nextContent]
    /\ nextContent' = nextContent + 1
    /\ \E c \in Capacities :
          /\ capacity' = [capacity EXCEPT ![i] = c]
          /\ IF c = 0
             THEN UNCHANGED <<id, ctorNext>>
             ELSE /\ ctorNext <= MaxIds
                  /\ id' = [id EXCEPT ![i] = ctorNext]
                  /\ ctorNext' = ctorNext + 1
    /\ UNCHANGED <<clearNext, storage, answer>>

\* build() checks dropout after it made the cache object: the id is lost.
BuildRejected ==
    /\ \E c \in Capacities : c > 0
    /\ ctorNext <= MaxIds
    /\ ctorNext' = ctorNext + 1
    /\ UNCHANGED <<alive, content, capacity, id, clearNext, nextContent, storage, answer>>

\* The destructor leaves the entries of every thread where they are.
Destroy(i) ==
    /\ i \in alive
    /\ alive' = alive \ {i}
    /\ content' = [content EXCEPT ![i] = None]
    /\ capacity' = [capacity EXCEPT ![i] = 0]
    /\ id' = [id EXCEPT ![i] = None]
    /\ UNCHANGED <<ctorNext, clearNext, nextContent, storage, answer>>

HasCache(i) == capacity[i] > 0

\* BpeCache::get
Hit(t, i, k) == HasCache(i) /\ Kind[k] # "whole" /\ storage[t][id[i]][k] # None

TokenizeHit(t, i, k) ==
    /\ i \in alive /\ Hit(t, i, k)
    /\ answer' = [inst |-> i, key |-> k, from |-> storage[t][id[i]][k], cached |-> TRUE]
    /\ UNCHANGED <<alive, content, capacity, id, ctorNext, clearNext, nextContent, storage>>

\* Mutant: one entry too many fits.
AdmitsOneMore(t, i, k) ==
    /\ HasCache(i) /\ Kind[k] = "plain"
    /\ Cardinality(Entries(t, id[i])) <= capacity[i]

\* BpeCache::put is reached, and the word is neither too long nor the map full.
Admits(t, i, k) ==
    /\ HasCache(i) /\ Kind[k] = "plain"
    /\ Cardinality(Entries(t, id[i])) < capacity[i]

\* No entry: the word is computed from the present vocab and merges, and cached.
TokenizeMiss(t, i, k) ==
    /\ i \in alive /\ ~Hit(t, i, k)
    /\ storage' = IF Admits(t, i, k)
                  THEN [storage EXCEPT ![t][id[i]][k] = content[i]] ELSE storage
    /\ answer' = [inst |-> i, key |-> k, from |-> content[i], cached |-> Admits(t, i, k)]
    /\ UNCHANGED <<alive, content, capacity, id, ctorNext, clearNext, nextContent>>

\* Mutant: the entries of the clearing thread stay.
ClearKeepsEntries(t, i) ==
    /\ clearNext <= MaxIds
    /\ id' = [id EXCEPT ![i] = clearNext]
    /\ clearNext' = clearNext + 1
    /\ UNCHANGED storage

\* Mutant: the id stays.
ClearKeepsId(t, i) ==
    /\ clearNext <= MaxIds
    /\ storage' = [storage EXCEPT ![t][id[i]] = [k \in Keys |-> None]]
    /\ clearNext' = clearNext + 1
    /\ UNCHANGED id

\* Mutant: ++next_id, so that the id drawn is the one after.
ClearPreIncrement(t, i) ==
    /\ clearNext <= MaxIds
    /\ storage' = [storage EXCEPT ![t][id[i]] = [k \in Keys |-> None]]
    /\ id' = [id EXCEPT ![i] = clearNext + 1]
    /\ clearNext' = clearNext + 1

\* BpeCache::clear, called on thread t: drop this thread's entries, draw a new id.
Clear(t, i) ==
    /\ clearNext <= MaxIds
    /\ storage' = [storage EXCEPT ![t][id[i]] = [k \in Keys |-> None]]
    /\ id' = [id EXCEPT ![i] = clearNext]
    /\ clearNext' = clearNext + 1

\* BPE::clear_cache does nothing without a cache object.
ClearIfCached(t, i) == IF HasCache(i) THEN Clear(t, i) ELSE UNCHANGED <<storage, id, clearNext>>

ClearCache(t, i) ==
    /\ i \in alive
    /\ ClearIfCached(t, i)
    /\ UNCHANGED <<alive, content, capacity, ctorNext, nextContent, answer>>

\* train(): new vocab and merges, then clear_cache on the training thread.
Train(t, i) ==
    /\ i \in alive /\ nextContent <= MaxContents
    /\ content' = [content EXCEPT ![i] = nextContent]
    /\ nextContent' = nextContent + 1
    /\ ClearIfCached(t, i)
    /\ UNCHANGED <<alive, capacity, ctorNext, answer>>

Next ==
    \/ BuildRejected
    \/ \E i \in Instances : Construct(i) \/ Destroy(i)
    \/ \E t \in Threads, i \in Instances :
          \/ ClearCache(t, i) \/ Train(t, i)
          \/ \E k \in Keys : TokenizeHit(t, i, k) \/ TokenizeMiss(t, i, k)

Spec == Init /\ [][Next]_vars

-------------------------------------------------------------------------------
Contents == 0..MaxContents

(***************************************************************************)
(* Types of the cache's variables.                                         *)
(***************************************************************************)
TypeOK ==
    /\ alive \subseteq Instances
    /\ content \in [Instances -> Contents] /\ capacity \in [Instances -> Nat]
    /\ id \in [Instances -> IdSet \cup {None}]
    /\ ctorNext \in 1..(MaxIds + 1) /\ clearNext \in 1..(MaxIds + 1)
    /\ nextContent \in 1..(MaxContents + 1)
    /\ storage \in [Threads -> [IdSet -> [Keys -> Contents]]]

(***************************************************************************)
(* How often an id has been given out, by either counter.                  *)
(***************************************************************************)
TimesIssued(n) == (IF n < ctorNext THEN 1 ELSE 0) + (IF n < clearNext THEN 1 ELSE 0)

(***************************************************************************)
(* The design's claim, under the condition it needs: an instance whose id  *)
(* was given out only once never meets an entry, in any thread, that was   *)
(* computed with a vocabulary and merges other than its present ones -     *)
(* whatever was trained, cleared or destroyed before.                      *)
(***************************************************************************)
CurrentWhereIdUnique ==
    \A t \in Threads : \A i \in alive :
       HasCache(i) /\ TimesIssued(id[i]) = 1 =>
          \A k \in Entries(t, id[i]) : storage[t][id[i]][k] = content[i]

(***************************************************************************)
(* As long as nothing is cleared or trained the cache is transparent.      *)
(***************************************************************************)
TransparentUntilCleared ==
    [][clearNext' = 1 /\ answer' # answer => answer'.from = content[answer'.inst]]_vars

(***************************************************************************)
(* A thread's map for an id never grows beyond the largest capacity, and   *)
(* holds only texts that may be cached.                                    *)
(***************************************************************************)
Bounded ==
    \A t \in Threads : \A n \in IdSet :
       /\ \A k \in Entries(t, n) : Kind[k] = "plain"
       /\ \E c \in Capacities : Cardinality(Entries(t, n)) <= c

(***************************************************************************)
(* "clear() draws a new id, so that the old entries of other threads are   *)
(* naturally invalid": the new id of a cleared instance has no entries in  *)
(* any thread.                                                             *)
(***************************************************************************)
OldEntriesInvalid ==
    [][\A i \in alive : clearNext' # clearNext /\ id'[i] = clearNext =>
          \A t \in Threads : \A k \in Keys : storage'[t][id'[i]][k] = None]_vars
===============================================================================
