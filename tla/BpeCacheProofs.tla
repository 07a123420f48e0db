---------------------------- MODULE BpeCacheProofs ----------------------------
(***************************************************************************)
(* Proofs about the cache for any number of threads, instances and texts.  *)
(* The claim of cache.h:4-7 - no stale words after a clear - needs ids that*)
(* are given out once; under that condition it holds.                      *)
(***************************************************************************)
EXTENDS BpeCacheHistory, TLAPS, FiniteSetTheorems

-------------------------------------------------------------------------------
(* The inductive invariant. *)

Issued(n) == n < ctorNext \/ n < clearNext

\* Only living instances have a cache, and its id was given out.
IdsIssued ==
    \A i \in Instances : HasCache(i) => i \in alive /\ id[i] \in IdSet /\ Issued(id[i])

\* Nothing is stored under an id that was never given out.
UnissuedEmpty ==
    \A t \in Threads : \A n \in IdSet : \A k \in Keys : ~Issued(n) => storage[t][n][k] = None

\* An id given out once has one owner.
OneOwner ==
    \A i, j \in Instances :
       HasCache(i) /\ HasCache(j) /\ id[i] = id[j] /\ TimesIssued(id[i]) = 1 => i = j

\* CurrentWhereIdUnique entry by entry, over all instances.
EntriesCurrent ==
    \A t \in Threads, i \in Instances, k \in Keys :
       HasCache(i) /\ TimesIssued(id[i]) = 1 /\ storage[t][id[i]][k] # None
       => storage[t][id[i]][k] = content[i]

CInv == TypeOK /\ IdsIssued /\ UnissuedEmpty /\ OneOwner /\ EntriesCurrent

\* The invariant gives the property: under an id issued once the entries are current.
LEMMA CInvCurrent == ASSUME CInv PROVE CurrentWhereIdUnique
BY DEF CInv, TypeOK, EntriesCurrent, CurrentWhereIdUnique, Entries

\* TimesIssued without counting.
LEMMA IssuedOnce ==
    ASSUME TypeOK, NEW n \in IdSet
    PROVE  TimesIssued(n) = 1 <=> Issued(n) /\ ~(n < ctorNext /\ n < clearNext)
BY DEF TimesIssued, Issued, TypeOK, IdSet

\* Before any instance is built the invariant holds.
LEMMA InitCInv == ASSUME Init PROVE CInv
<1> USE DEF Init
<1>1. TypeOK
  BY BoundAssumption DEF TypeOK, IdSet, None, Contents
<1>2. \A i \in Instances : ~HasCache(i)
  BY DEF HasCache
<1> QED
  BY <1>1, <1>2 DEF CInv, IdsIssued, UnissuedEmpty, OneOwner, EntriesCurrent

-------------------------------------------------------------------------------
(* One lemma per action, one step per conjunct the action can disturb. *)

\* An id given out once after the constructor or clear() drew from its counter
\* was given out at most once before, and is new if it is the one drawn.
LEMMA DrawnOnce ==
    ASSUME TypeOK, NEW n \in IdSet, TimesIssued(n)' = 1,
           \/ ctorNext' = ctorNext + 1 /\ clearNext' = clearNext
           \/ ctorNext' = ctorNext /\ clearNext' = clearNext + 1
    PROVE  /\ Issued(n) => TimesIssued(n) = 1
           /\ ctorNext' # ctorNext /\ n = ctorNext => ~Issued(n)
           /\ clearNext' # clearNext /\ n = clearNext => ~Issued(n)
BY DEF TypeOK, TimesIssued, Issued, IdSet

\* With a cache, the new instance's id is the constructor's next one: if it is
\* given out once after the step, it was unissued before.
LEMMA ConstructStep == ASSUME CInv, NEW i \in Instances, Construct(i) PROVE CInv'
<1> USE DEF CInv
<1>0. UNCHANGED <<clearNext, storage>> /\ i \notin alive /\ alive' = alive \cup {i}
  BY DEF Construct
<1>1. PICK c \in Capacities :
        /\ capacity' = [capacity EXCEPT ![i] = c]
        /\ IF c = 0
           THEN UNCHANGED <<id, ctorNext>>
           ELSE /\ ctorNext <= MaxIds
                /\ id' = [id EXCEPT ![i] = ctorNext]
                /\ ctorNext' = ctorNext + 1
  BY DEF Construct
<1>2. c \in Nat
  BY CapacityAssumption
<1>3. TypeOK'
  <2>1. capacity' \in [Instances -> Nat] /\ id' \in [Instances -> IdSet \cup {None}]
        /\ ctorNext' \in 1..(MaxIds + 1)
    BY <1>1, <1>2, BoundAssumption DEF TypeOK, IdSet
  <2>2. content' \in [Instances -> Contents] /\ nextContent' \in 1..(MaxContents + 1)
    BY BoundAssumption DEF TypeOK, Contents, Construct
  <2> QED
    BY <1>0, <2>1, <2>2 DEF TypeOK
<1>4. \A j \in Instances : j # i => HasCache(j)' = HasCache(j) /\ id'[j] = id[j] /\ content'[j] = content[j]
  BY <1>1 DEF TypeOK, HasCache, Construct
<1>5. HasCache(i)' => id'[i] = ctorNext /\ ctorNext \in IdSet /\ ctorNext' = ctorNext + 1
  BY <1>1, <1>2 DEF TypeOK, HasCache, IdSet
<1>6. ctorNext' = ctorNext \/ ctorNext' = ctorNext + 1
  BY <1>1
<1>7. \A n \in IdSet : Issued(n) => Issued(n)'
  BY <1>0, <1>6 DEF TypeOK, Issued, IdSet
<1>8. IdsIssued'
  BY <1>0, <1>4, <1>5, <1>7 DEF IdsIssued, Issued, TypeOK, IdSet
<1>9. UnissuedEmpty'
  BY <1>0, <1>7 DEF UnissuedEmpty
<1>10. \A n \in IdSet : TimesIssued(n)' = 1 /\ Issued(n) => TimesIssued(n) = 1
  <2>1. ASSUME ctorNext' = ctorNext
        PROVE  \A n \in IdSet : TimesIssued(n)' = TimesIssued(n)
    BY <1>0, <2>1 DEF TimesIssued
  <2> QED
    BY <1>0, <1>6, <2>1, DrawnOnce
<1>11. HasCache(i)' /\ TimesIssued(id[i])' = 1 => ~Issued(id'[i])
  <2>1. ASSUME HasCache(i)', TimesIssued(id[i])' = 1
        PROVE  ~Issued(id'[i])
    BY <1>0, <1>5, <2>1 DEF TypeOK, TimesIssued, Issued, IdSet
  <2> QED
    BY <2>1
<1>12. \A j \in Instances : j # i /\ HasCache(j)' => id'[j] \in IdSet /\ Issued(id'[j])
  BY <1>4 DEF IdsIssued
<1>13. \A j \in Instances : j # i /\ HasCache(j)' /\ TimesIssued(id[j])' = 1
           => TimesIssued(id[j]) = 1
  BY <1>4, <1>10, <1>12 DEF TimesIssued
<1>14. OneOwner'
  <2> SUFFICES ASSUME NEW j \in Instances, NEW k \in Instances,
                      HasCache(j)', HasCache(k)', id'[j] = id'[k], TimesIssued(id[j])' = 1
               PROVE  j = k
    BY DEF OneOwner
  <2>1. TimesIssued(id[k])' = 1
    BY DEF TimesIssued
  <2>2. j = i <=> k = i
    BY <2>1, <1>11, <1>12
  <2> QED
    BY <2>1, <2>2, <1>4, <1>13 DEF OneOwner
<1>15. EntriesCurrent'
  <2> SUFFICES ASSUME NEW t \in Threads, NEW j \in Instances, NEW k \in Keys,
                      HasCache(j)', TimesIssued(id[j])' = 1, storage'[t][id'[j]][k] # None
               PROVE  storage'[t][id'[j]][k] = content'[j]
    BY DEF EntriesCurrent
  <2>1. id'[j] \in IdSet /\ Issued(id'[j])
    BY <1>0, <1>8 DEF IdsIssued, UnissuedEmpty
  <2>2. j # i
    BY <1>11, <2>1
  <2> QED
    BY <1>0, <1>4, <1>13, <2>2 DEF EntriesCurrent
<1> QED
  BY <1>3, <1>8, <1>9, <1>14, <1>15

\* A rejected build takes an id that nobody owns and nothing is stored under.
LEMMA RejectedStep == ASSUME CInv, BuildRejected PROVE CInv'
<1> USE DEF CInv
<1>1. /\ UNCHANGED <<alive, content, capacity, id, clearNext, nextContent, storage>>
      /\ ctorNext <= MaxIds /\ ctorNext' = ctorNext + 1
  BY DEF BuildRejected
<1>2. TypeOK'
  BY <1>1, BoundAssumption DEF TypeOK, IdSet, Contents
<1>3. \A i \in Instances : HasCache(i)' <=> HasCache(i)
  BY <1>1 DEF HasCache
<1>4. \A n \in IdSet : Issued(n) => Issued(n)'
  BY <1>1 DEF Issued, TypeOK, IdSet
<1>5. IdsIssued' /\ UnissuedEmpty'
  BY <1>1, <1>3, <1>4 DEF IdsIssued, UnissuedEmpty
<1>6. \A i \in Instances :
         HasCache(i) /\ TimesIssued(id[i])' = 1 => TimesIssued(id[i]) = 1
  BY <1>1, DrawnOnce DEF IdsIssued
<1>7. OneOwner'
  BY <1>1, <1>3, <1>6 DEF OneOwner
<1>8. EntriesCurrent'
  BY <1>1, <1>3, <1>6 DEF EntriesCurrent
<1> QED
  BY <1>2, <1>5, <1>7, <1>8

\* The destructor frees an id's owner and leaves its entries, which is harmless.
LEMMA DestroyStep == ASSUME CInv, NEW i \in Instances, Destroy(i) PROVE CInv'
<1> USE DEF CInv
<1>1. TypeOK'
  BY BoundAssumption DEF Destroy, TypeOK, IdSet, Contents, None
<1>2. /\ UNCHANGED <<ctorNext, clearNext, storage>> /\ alive' = alive \ {i}
      /\ \A j \in Instances : HasCache(j)' => /\ j # i /\ HasCache(j)
                                            /\ id'[j] = id[j] /\ content'[j] = content[j]
  BY DEF Destroy, TypeOK, HasCache
<1>3. IdsIssued' /\ UnissuedEmpty'
  BY <1>2 DEF IdsIssued, UnissuedEmpty, Issued
<1>4. OneOwner'
  BY <1>2 DEF OneOwner, TimesIssued
<1>5. EntriesCurrent'
  BY <1>2 DEF EntriesCurrent, TimesIssued
<1> QED
  BY <1>1, <1>3, <1>4, <1>5

\* A hit changes the answer only.
LEMMA HitStep ==
    ASSUME CInv, NEW t \in Threads, NEW i \in Instances, NEW k \in Keys, TokenizeHit(t, i, k)
    PROVE  CInv'
BY DEF CInv, TokenizeHit, TypeOK, IdsIssued, Issued, HasCache, UnissuedEmpty, OneOwner,
       EntriesCurrent, TimesIssued

\* What a miss stores is current for the only owner of the id it is stored under.
LEMMA MissStep ==
    ASSUME CInv, NEW t \in Threads, NEW i \in Instances, NEW k \in Keys, TokenizeMiss(t, i, k)
    PROVE  CInv'
<1> USE DEF CInv
<1>1. UNCHANGED <<alive, content, capacity, id, ctorNext, clearNext, nextContent>> /\ i \in alive
  BY DEF TokenizeMiss
<1>2. \/ UNCHANGED storage
      \/ HasCache(i) /\ storage' = [storage EXCEPT ![t][id[i]][k] = content[i]]
  BY DEF TokenizeMiss, Admits
<1>3. /\ storage' \in [Threads -> [IdSet -> [Keys -> Contents]]]
      /\ \A u \in Threads, n \in IdSet, l \in Keys :
            \/ storage'[u][n][l] = storage[u][n][l]
            \/ HasCache(i) /\ n = id[i] /\ storage'[u][n][l] = content[i]
  <2>1. CASE UNCHANGED storage
    BY <2>1 DEF TypeOK
  <2>2. CASE HasCache(i) /\ storage' = [storage EXCEPT ![t][id[i]][k] = content[i]]
    <3>1. id[i] \in IdSet /\ content[i] \in Contents
      BY <2>2 DEF IdsIssued, TypeOK
    <3>2. [storage[t][id[i]] EXCEPT ![k] = content[i]] \in [Keys -> Contents]
      BY <3>1 DEF TypeOK
    <3>3. [storage[t] EXCEPT ![id[i]] = [storage[t][id[i]] EXCEPT ![k] = content[i]]]
             \in [IdSet -> [Keys -> Contents]]
      BY <3>1, <3>2 DEF TypeOK
    <3>4. storage' = [storage EXCEPT ![t] =
             [storage[t] EXCEPT ![id[i]] = [storage[t][id[i]] EXCEPT ![k] = content[i]]]]
      BY <2>2 DEF TypeOK
    <3> QED
      BY <2>2, <3>1, <3>2, <3>3, <3>4 DEF TypeOK
  <2> QED
    BY <1>2, <2>1, <2>2
<1>4. TypeOK' /\ IdsIssued' /\ OneOwner'
  BY <1>1, <1>3 DEF TypeOK, IdsIssued, OneOwner, HasCache, Issued, TimesIssued
<1>5. UnissuedEmpty'
  BY <1>1, <1>3 DEF UnissuedEmpty, IdsIssued, Issued, TypeOK
<1>6. EntriesCurrent'
  <2> SUFFICES ASSUME NEW u \in Threads, NEW j \in Instances, NEW l \in Keys,
                      HasCache(j), TimesIssued(id[j]) = 1, storage'[u][id[j]][l] # None
               PROVE  storage'[u][id[j]][l] = content[j]
    BY <1>1 DEF EntriesCurrent, HasCache, TimesIssued
  <2>1. id[j] \in IdSet
    BY DEF IdsIssued
  <2>2. CASE storage'[u][id[j]][l] = storage[u][id[j]][l]
    BY <2>2 DEF EntriesCurrent
  <2>3. CASE storage'[u][id[j]][l] # storage[u][id[j]][l]
    <3>1. HasCache(i) /\ id[i] = id[j] /\ storage'[u][id[j]][l] = content[i]
      BY <1>3, <2>1, <2>3
    <3> QED
      BY <3>1 DEF OneOwner
  <2> QED
    BY <2>2, <2>3
<1> QED
  BY <1>4, <1>5, <1>6

\* clear_cache, whatever happens to the content of the cleared instance: if the
\* id drawn is given out once after the step, it was unissued and has no entries.
LEMMA ClearedStep ==
    ASSUME CInv, NEW t \in Threads, NEW i \in Instances, i \in alive, ClearIfCached(t, i),
           UNCHANGED <<alive, capacity, ctorNext>>,
           content' \in [Instances -> Contents], nextContent' \in 1..(MaxContents + 1),
           \A j \in Instances : j # i => content'[j] = content[j],
           HasCache(i) \/ UNCHANGED <<storage, id, clearNext>>
    PROVE  CInv'
<1> USE DEF CInv
<1>1. CASE ~HasCache(i)
  <2>1. UNCHANGED <<storage, id, clearNext>>
    BY <1>1
  <2>2. TypeOK' /\ IdsIssued' /\ UnissuedEmpty' /\ OneOwner'
    BY <2>1 DEF TypeOK, IdsIssued, Issued, HasCache, UnissuedEmpty, OneOwner, TimesIssued
  <2>3. EntriesCurrent'
    BY <1>1, <2>1 DEF EntriesCurrent, HasCache, TimesIssued
  <2> QED
    BY <2>2, <2>3
<1>2. CASE HasCache(i)
  <2>1. /\ clearNext <= MaxIds /\ clearNext' = clearNext + 1
        /\ id' = [id EXCEPT ![i] = clearNext]
        /\ storage' = [storage EXCEPT ![t][id[i]] = [k \in Keys |-> None]]
    BY <1>2 DEF ClearIfCached, Clear
  <2>2. clearNext \in IdSet /\ clearNext' \in 1..(MaxIds + 1) /\ id[i] \in IdSet
    BY <1>2, <2>1, BoundAssumption DEF TypeOK, IdSet, IdsIssued
  <2>3. storage' \in [Threads -> [IdSet -> [Keys -> Contents]]]
    <3>1. [k \in Keys |-> None] \in [Keys -> Contents]
      BY BoundAssumption DEF None, Contents
    <3> QED
      BY <2>1, <2>2, <3>1 DEF TypeOK
  <2>4. TypeOK'
    BY <2>1, <2>2, <2>3 DEF TypeOK
  <2>5. \A j \in Instances : HasCache(j)' = HasCache(j) /\ (j # i => id'[j] = id[j])
    BY <2>1 DEF HasCache, TypeOK
  <2>6. id'[i] = clearNext
    BY <2>1 DEF TypeOK
  <2>7. \A n \in IdSet : Issued(n) => Issued(n)'
    BY <2>1 DEF Issued, TypeOK, IdSet
  <2>8. IdsIssued'
    BY <2>1, <2>2, <2>5, <2>6, <2>7 DEF IdsIssued, Issued, TypeOK, IdSet
  <2>9. \A u \in Threads, n \in IdSet, k \in Keys :
           storage'[u][n][k] = storage[u][n][k] \/ storage'[u][n][k] = None
    BY <2>1, <2>2 DEF TypeOK
  <2>10. UnissuedEmpty'
    BY <2>7, <2>9 DEF UnissuedEmpty
  <2>11. \A n \in IdSet : TimesIssued(n)' = 1 /\ Issued(n) => TimesIssued(n) = 1
    BY <2>1, DrawnOnce
  <2>12. TimesIssued(id[i])' = 1 => ~Issued(id'[i])
    BY <2>1, <2>2, <2>6 DEF TimesIssued, Issued, TypeOK, IdSet
  <2>13. \A j \in Instances : HasCache(j)' /\ j # i =>
            /\ id'[j] \in IdSet /\ Issued(id'[j])
            /\ TimesIssued(id[j])' = 1 => TimesIssued(id[j]) = 1
    BY <2>5, <2>11 DEF IdsIssued, TimesIssued
  <2>14. OneOwner'
    <3> SUFFICES ASSUME NEW j \in Instances, NEW k \in Instances,
                        HasCache(j)', HasCache(k)', id'[j] = id'[k], TimesIssued(id[j])' = 1
                 PROVE  j = k
      BY DEF OneOwner
    <3>1. TimesIssued(id[k])' = 1
      BY DEF TimesIssued
    <3>2. j = i <=> k = i
      BY <3>1, <2>12, <2>13
    <3> QED
      BY <3>1, <3>2, <2>5, <2>13 DEF OneOwner
  <2>15. EntriesCurrent'
    <3> SUFFICES ASSUME NEW u \in Threads, NEW j \in Instances, NEW k \in Keys,
                        HasCache(j)', TimesIssued(id[j])' = 1, storage'[u][id'[j]][k] # None
                 PROVE  storage'[u][id'[j]][k] = content'[j]
      BY DEF EntriesCurrent
    <3>1. id'[j] \in IdSet /\ storage'[u][id'[j]][k] = storage[u][id'[j]][k]
      BY <2>8, <2>9 DEF IdsIssued
    <3>2. j # i
      BY <2>12, <3>1 DEF UnissuedEmpty
    <3> QED
      BY <2>5, <2>13, <3>1, <3>2 DEF EntriesCurrent
  <2> QED
    BY <2>4, <2>8, <2>10, <2>14, <2>15
<1> QED
  BY <1>1, <1>2

\* clear_cache keeps the invariant.
LEMMA ClearCacheStep ==
    ASSUME CInv, NEW t \in Threads, NEW i \in Instances, ClearCache(t, i) PROVE CInv'
BY ClearedStep DEF ClearCache, ClearIfCached, CInv, TypeOK

\* train(), which changes the content and then clears, keeps the invariant.
LEMMA TrainStep ==
    ASSUME CInv, NEW t \in Threads, NEW i \in Instances, Train(t, i) PROVE CInv'
<1>1. /\ content' \in [Instances -> Contents] /\ nextContent' \in 1..(MaxContents + 1)
      /\ \A j \in Instances : j # i => content'[j] = content[j]
  BY BoundAssumption DEF Train, CInv, TypeOK, Contents
<1> QED
  BY <1>1, ClearedStep DEF Train, ClearIfCached

\* Every call keeps the invariant.
LEMMA NextCInv == CInv /\ [Next]_vars => CInv'
<1> SUFFICES ASSUME CInv, [Next]_vars PROVE CInv'
  OBVIOUS
<1>1. CASE \E i \in Instances : Construct(i) \/ Destroy(i)
  BY <1>1, ConstructStep, DestroyStep
<1>2. CASE \E t \in Threads, i \in Instances : ClearCache(t, i) \/ Train(t, i)
  BY <1>2, ClearCacheStep, TrainStep
<1>3. CASE \E t \in Threads, i \in Instances, k \in Keys :
              TokenizeHit(t, i, k) \/ TokenizeMiss(t, i, k)
  BY <1>3, HitStep, MissStep
<1>4. CASE UNCHANGED vars
  BY <1>4 DEF vars, CInv, TypeOK, IdsIssued, Issued, HasCache, UnissuedEmpty, OneOwner,
             EntriesCurrent, TimesIssued
<1>5. CASE BuildRejected
  BY <1>5, RejectedStep
<1> QED
  BY <1>1, <1>2, <1>3, <1>4, <1>5 DEF Next

\* The invariant holds in every state of the cache.
LEMMA CInvAlways == Spec => []CInv
BY InitCInv, NextCInv, PTL DEF Spec

-------------------------------------------------------------------------------
(* The results. *)

(***************************************************************************)
(* Every reachable state of the cache is well typed (cache.h:55-56).       *)
(***************************************************************************)
THEOREM CacheTypeCorrect == Spec => []TypeOK
<1>1. CInv => TypeOK
  BY DEF CInv
<1> QED
  BY <1>1, CInvAlways, PTL

(***************************************************************************)
(* No stale word is found under an id that was given out once: what        *)
(* cache.h:5-7 says of clear() holds for any number of threads, instances, *)
(* trainings and destructions wherever the two counters have not met.      *)
(***************************************************************************)
THEOREM UniqueIdsAreCurrent == Spec => []CurrentWhereIdUnique
<1>1. CInv => CurrentWhereIdUnique
  BY CInvCurrent
<1> QED
  BY <1>1, CInvAlways, PTL

(***************************************************************************)
(* Until the first clear or training the cache is transparent: every       *)
(* tokenize is answered from the instance's present model                  *)
(* (bpe_impl.cpp:131-170), hit or miss.                                    *)
(***************************************************************************)
THEOREM TransparentBeforeClears == Spec => TransparentUntilCleared
<1>1. ASSUME CInv, [Next]_vars, clearNext' = 1, answer' # answer
      PROVE  answer'.from = content[answer'.inst]
  <2>1. PICK t \in Threads, i \in Instances, k \in Keys :
           TokenizeHit(t, i, k) \/ TokenizeMiss(t, i, k)
    BY <1>1 DEF Next, vars, BuildRejected, Construct, Destroy, ClearCache, Train
  <2>2. CASE TokenizeMiss(t, i, k)
    BY <2>2 DEF TokenizeMiss
  <2>3. CASE TokenizeHit(t, i, k)
    <3>1. HasCache(i) /\ clearNext = 1
      BY <1>1, <2>3 DEF TokenizeHit, Hit
    <3>2. id[i] \in IdSet /\ TimesIssued(id[i]) = 1
      BY <1>1, <3>1 DEF CInv, TypeOK, IdsIssued, Issued, TimesIssued, IdSet
    <3>3. storage[t][id[i]][k] = content[i]
      BY <1>1, <2>3, <3>1, <3>2 DEF CInv, EntriesCurrent, TokenizeHit, Hit
    <3> QED
      BY <2>3, <3>3 DEF TokenizeHit
  <2> QED
    BY <2>1, <2>2, <2>3
<1>2. CInv /\ [Next]_vars =>
        [clearNext' = 1 /\ answer' # answer => answer'.from = content[answer'.inst]]_vars
  BY <1>1
<1> QED
  BY <1>2, CInvAlways, PTL DEF Spec, TransparentUntilCleared

-------------------------------------------------------------------------------
(* How many entries a thread keeps. *)

\* Few texts, all of them cacheable: what a thread's map for an id holds.
FewPlain(E) ==
    /\ IsFiniteSet(E) /\ \A k \in E : Kind[k] = "plain"
    /\ \E c \in Capacities : Cardinality(E) <= c

MapBounded(t, n) == FewPlain(Entries(t, n))

CapacityGiven == \A i \in Instances : HasCache(i) => capacity[i] \in Capacities

BInv == CapacityGiven /\ \A t \in Threads, n \in IdSet : MapBounded(t, n)

\* An empty map is within every capacity.
LEMMA EmptyBounded == FewPlain({})
<1>1. IsFiniteSet({}) /\ Cardinality({}) = 0
  BY FS_EmptySet
<1>2. PICK c \in Capacities : c \in Nat
  BY CapacityAssumption
<1>3. Cardinality({}) <= c
  BY <1>1, <1>2
<1> QED
  BY <1>1, <1>3 DEF FewPlain

\* A map that a step leaves alone, or empties, stays bounded.
LEMMA MapsFrame ==
    ASSUME BInv,
           \A t \in Threads, n \in IdSet : \/ storage'[t][n] = storage[t][n]
                                           \/ \A k \in Keys : storage'[t][n][k] = None
    PROVE  \A t \in Threads, n \in IdSet : MapBounded(t, n)'
<1> SUFFICES ASSUME NEW t \in Threads, NEW n \in IdSet PROVE MapBounded(t, n)'
  OBVIOUS
<1>1. CASE storage'[t][n] = storage[t][n]
  <2>1. Entries(t, n)' = Entries(t, n)
    BY <1>1 DEF Entries
  <2> QED
    BY <2>1 DEF MapBounded, BInv
<1>2. CASE \A k \in Keys : storage'[t][n][k] = None
  <2>1. Entries(t, n)' = {}
    BY <1>2 DEF Entries
  <2> QED
    BY <2>1, EmptyBounded DEF MapBounded
<1> QED
  BY <1>1, <1>2

\* The steps that put nothing into a map.
LEMMA QuietBounded ==
    ASSUME CInv, BInv,
           \/ BuildRejected
           \/ \E i \in Instances : Construct(i) \/ Destroy(i)
           \/ \E t \in Threads, i \in Instances : ClearCache(t, i) \/ Train(t, i)
           \/ \E t \in Threads, i \in Instances, k \in Keys : TokenizeHit(t, i, k)
           \/ UNCHANGED vars
    PROVE  BInv'
<1>1. CASE UNCHANGED storage /\ UNCHANGED capacity
  BY <1>1, MapsFrame DEF BInv, CapacityGiven, HasCache
<1>2. ASSUME NEW i \in Instances, Construct(i) PROVE BInv'
  BY <1>2, MapsFrame DEF Construct, BInv, CapacityGiven, HasCache, CInv, TypeOK
<1>3. ASSUME NEW i \in Instances, Destroy(i) PROVE BInv'
  BY <1>3, MapsFrame DEF Destroy, BInv, CapacityGiven, HasCache, CInv, TypeOK
<1>4. ASSUME NEW t \in Threads, NEW i \in Instances, ClearCache(t, i) \/ Train(t, i) PROVE BInv'
  <2>1. UNCHANGED capacity /\ ClearIfCached(t, i)
    BY <1>4 DEF ClearCache, Train
  <2>2. ASSUME NEW u \in Threads, NEW n \in IdSet
        PROVE  \/ storage'[u][n] = storage[u][n]
               \/ \A k \in Keys : storage'[u][n][k] = None
    <3>1. CASE ~HasCache(i)
      BY <2>1, <3>1 DEF ClearIfCached
    <3>2. CASE HasCache(i)
      <4>1. storage' = [storage EXCEPT ![t][id[i]] = [k \in Keys |-> None]]
        BY <2>1, <3>2 DEF ClearIfCached, Clear
      <4>2. storage \in [Threads -> [IdSet -> [Keys -> Contents]]] /\ id[i] \in IdSet
        BY <3>2 DEF CInv, TypeOK, IdsIssued
      <4>3. CASE u = t /\ n = id[i]
        BY <4>1, <4>2, <4>3
      <4>4. CASE ~(u = t /\ n = id[i])
        BY <4>1, <4>2, <4>4
      <4> QED
        BY <4>3, <4>4
    <3> QED
      BY <3>1, <3>2
  <2> QED
    BY <2>1, <2>2, MapsFrame DEF BInv, CapacityGiven, HasCache
<1> QED
  BY <1>1, <1>2, <1>3, <1>4 DEF BuildRejected, TokenizeHit, vars

\* A miss puts one text into a map that is not full.
LEMMA MissBounded ==
    ASSUME CInv, BInv, NEW t \in Threads, NEW i \in Instances, NEW k \in Keys,
           TokenizeMiss(t, i, k)
    PROVE  BInv'
<1>1. UNCHANGED capacity
  BY DEF TokenizeMiss
<1>2. CASE ~Admits(t, i, k)
  BY <1>1, <1>2, MapsFrame DEF TokenizeMiss, BInv, CapacityGiven, HasCache
<1>3. CASE Admits(t, i, k)
  <2> DEFINE E == Entries(t, id[i])
             F == Entries(t, id[i])'
  <2>1. /\ storage' = [storage EXCEPT ![t][id[i]][k] = content[i]]
        /\ Kind[k] = "plain" /\ Cardinality(E) < capacity[i]
        /\ capacity[i] \in Capacities /\ id[i] \in IdSet
    BY <1>3 DEF TokenizeMiss, Admits, BInv, CapacityGiven, CInv, IdsIssued
  <2>2. UNCHANGED id
    BY DEF TokenizeMiss
  <2>3. MapBounded(t, id[i])
    BY <2>1 DEF BInv
  <2>4. F \in SUBSET (E \cup {k})
    BY <2>1, <2>2 DEF Entries, CInv, TypeOK
  <2>5. \A u \in Threads, n \in IdSet : u # t \/ n # id[i] => Entries(u, n)' = Entries(u, n)
    BY <2>1 DEF Entries, CInv, TypeOK
  <2>6. IsFiniteSet(F) /\ Cardinality(F) <= capacity[i]
    <3>1. IsFiniteSet(E) /\ Cardinality(E) \in Nat
      BY <2>3, FS_CardinalityType DEF MapBounded, FewPlain
    <3>2. capacity[i] \in Nat
      BY <2>1, CapacityAssumption
    <3> HIDE DEF E, F
    <3>3. IsFiniteSet(E \cup {k}) /\ Cardinality(E \cup {k}) <= capacity[i]
      <4>1. Cardinality(E) < capacity[i]
        BY <2>1
      <4>0. /\ IsFiniteSet(E \cup {k})
            /\ Cardinality(E \cup {k}) = IF k \in E THEN Cardinality(E) ELSE Cardinality(E) + 1
        BY <3>1, FS_AddElement
      <4>2. IsFiniteSet(E \cup {k}) /\ Cardinality(E \cup {k}) <= Cardinality(E) + 1
        BY <3>1, <4>0
      <4>3. Cardinality(E \cup {k}) \in Nat
        BY <4>2, FS_CardinalityType
      <4> QED
        BY <3>1, <3>2, <4>1, <4>2, <4>3
    <3>4. IsFiniteSet(F) /\ Cardinality(F) <= Cardinality(E \cup {k})
      BY <2>4, <3>3, FS_Subset
    <3>5. Cardinality(F) \in Nat /\ Cardinality(E \cup {k}) \in Nat
      BY <3>3, <3>4, FS_CardinalityType
    <3> QED
      BY <3>2, <3>3, <3>4, <3>5
  <2>7. MapBounded(t, id[i])'
    <3>1. \A l \in F : Kind[l] = "plain"
      BY <2>1, <2>3, <2>4 DEF MapBounded, FewPlain
    <3> QED
      BY <2>1, <2>2, <2>6, <3>1 DEF MapBounded, FewPlain
  <2>8. ASSUME NEW u \in Threads, NEW n \in IdSet PROVE MapBounded(u, n)'
    <3>1. CASE u = t /\ n = id[i]
      BY <2>2, <2>7, <3>1
    <3>2. CASE u # t \/ n # id[i]
      BY <2>5, <3>2 DEF MapBounded, BInv
    <3> QED
      BY <3>1, <3>2
  <2> QED
    BY <1>1, <2>8 DEF BInv, CapacityGiven, HasCache
<1> QED
  BY <1>2, <1>3

(***************************************************************************)
(* No thread's map for an id outgrows the largest capacity, however the    *)
(* instances that share it were built, and no text is in it that is too    *)
(* long, failed, or is answered before the cache (cache.cpp).              *)
(***************************************************************************)
THEOREM MapsStayBounded == Spec => []Bounded
<1>1. Init => BInv
  <2> SUFFICES ASSUME Init PROVE BInv
    OBVIOUS
  <2>1. \A t \in Threads, n \in IdSet : Entries(t, n) = {}
    BY DEF Init, Entries
  <2> QED
    <3>1. CapacityGiven
      BY DEF Init, CapacityGiven, HasCache
    <3>2. \A t \in Threads, n \in IdSet : MapBounded(t, n)
      BY <2>1, EmptyBounded DEF MapBounded
    <3> QED
      BY <3>1, <3>2 DEF BInv
<1>2. CInv /\ BInv /\ [Next]_vars => BInv'
  BY QuietBounded, MissBounded DEF Next
<1>3. BInv => Bounded
  BY DEF BInv, MapBounded, FewPlain, Bounded
<1> QED
  BY <1>1, <1>2, <1>3, CInvAlways, PTL DEF Spec

-------------------------------------------------------------------------------
(* One cache, cleared by one thread. *)

\* What that thread finds under the present id of a cache.
OwnCurrent(t) ==
    \A i \in Instances : HasCache(i) =>
       \A k \in Keys : storage[t][id[i]][k] # None => storage[t][id[i]][k] = content[i]

\* The one cache has the first id, or the last that clear() has drawn.
LatestId == \A i \in Instances : HasCache(i) => id[i] = IF clearNext = 1 THEN 1 ELSE clearNext - 1

OneCache == \A i, j \in Instances : HasCache(i) /\ HasCache(j) => i = j

OwnInv ==
    /\ ctorNext = 1 => clearNext = 1 /\ \A i \in Instances : ~HasCache(i)
    /\ ctorNext = 2 => /\ OneCache /\ LatestId
                       /\ \A t \in Threads : clearers \subseteq {t} => OwnCurrent(t)

\* An id that nobody has drawn has no entries.
LEMMA FreshIdEmpty ==
    ASSUME CInv, NEW n \in IdSet, ~(n < ctorNext), ~(n < clearNext)
    PROVE  \A t \in Threads : \A k \in Keys : storage[t][n][k] = None
BY DEF CInv, UnissuedEmpty, Issued

\* The constructor and the rejected build.
LEMMA BuildOwn ==
    ASSUME CInv, OwnInv, UNCHANGED clearers,
           BuildRejected \/ \E i \in Instances : Construct(i)
    PROVE  OwnInv'
<1>1. /\ ctorNext \in Nat /\ ctorNext >= 1 /\ ctorNext' \in {ctorNext, ctorNext + 1}
      /\ UNCHANGED <<clearNext, storage>>
  BY DEF BuildRejected, Construct, CInv, TypeOK
<1>2. CASE BuildRejected
  BY <1>1, <1>2 DEF BuildRejected, OwnInv, OneCache, LatestId, OwnCurrent, HasCache
<1>3. ASSUME NEW i \in Instances, Construct(i) PROVE OwnInv'
  <2>1. PICK c \in Capacities :
          /\ capacity' = [capacity EXCEPT ![i] = c]
          /\ IF c = 0
             THEN UNCHANGED <<id, ctorNext>>
             ELSE /\ ctorNext <= MaxIds
                  /\ id' = [id EXCEPT ![i] = ctorNext]
                  /\ ctorNext' = ctorNext + 1
    BY <1>3 DEF Construct
  <2>2. /\ c \in Nat /\ i \notin alive /\ content' = [content EXCEPT ![i] = nextContent]
        /\ capacity \in [Instances -> Nat] /\ content \in [Instances -> Contents]
        /\ id \in [Instances -> IdSet \cup {None}]
    BY <1>3, CapacityAssumption DEF Construct, CInv, TypeOK
  <2>3. CASE c = 0
    <3>1. \A j \in Instances : /\ HasCache(j)' <=> HasCache(j) /\ j # i
                               /\ j # i => id'[j] = id[j] /\ content'[j] = content[j]
      BY <2>1, <2>2, <2>3 DEF HasCache
    <3>2. ctorNext' = ctorNext
      BY <2>1, <2>3
    <3> QED
      BY <1>1, <3>1, <3>2 DEF OwnInv, OneCache, LatestId, OwnCurrent
  <2>4. CASE c # 0
    <3>1. /\ ctorNext' = ctorNext + 1 /\ id'[i] = ctorNext /\ ctorNext \in IdSet
          /\ \A j \in Instances : HasCache(j)' <=> HasCache(j) \/ j = i
      BY <1>1, <2>1, <2>2, <2>4, BoundAssumption DEF HasCache, IdSet
    <3>2. CASE ctorNext = 1
      <4>1. clearNext = 1 /\ \A j \in Instances : HasCache(j)' <=> j = i
        BY <3>1, <3>2 DEF OwnInv
      <4>2. \A t \in Threads : \A k \in Keys : storage[t][1][k] = None
        BY <3>1, <3>2, <4>1, FreshIdEmpty
      <4> QED
        BY <1>1, <3>1, <3>2, <4>1, <4>2 DEF OwnInv, OneCache, LatestId, OwnCurrent
    <3>3. CASE ctorNext # 1
      BY <1>1, <3>1, <3>3 DEF OwnInv
    <3> QED
      BY <3>2, <3>3
  <2> QED
    BY <2>3, <2>4
<1> QED
  BY <1>2, <1>3

\* The destructor and the calls of tokenize.
LEMMA CallOwn ==
    ASSUME CInv, OwnInv, UNCHANGED clearers,
           \/ \E i \in Instances : Destroy(i)
           \/ \E t \in Threads, i \in Instances, k \in Keys :
                 TokenizeHit(t, i, k) \/ TokenizeMiss(t, i, k)
           \/ UNCHANGED vars
    PROVE  OwnInv'
<1>1. CASE UNCHANGED <<ctorNext, clearNext, capacity, id, content, storage>>
  BY <1>1 DEF OwnInv, OneCache, LatestId, OwnCurrent, HasCache
<1>2. ASSUME NEW i \in Instances, Destroy(i) PROVE OwnInv'
  <2>1. /\ UNCHANGED <<ctorNext, clearNext, storage>>
        /\ \A j \in Instances : /\ HasCache(j)' => HasCache(j) /\ j # i
                                /\ j # i => id'[j] = id[j] /\ content'[j] = content[j]
    BY <1>2 DEF Destroy, HasCache, CInv, TypeOK
  <2> QED
    BY <2>1 DEF OwnInv, OneCache, LatestId, OwnCurrent
<1>3. ASSUME NEW t \in Threads, NEW i \in Instances, NEW k \in Keys, TokenizeMiss(t, i, k),
             Admits(t, i, k)
      PROVE  OwnInv'
  <2>1. /\ UNCHANGED <<ctorNext, clearNext, capacity, id, content>>
        /\ storage' = [storage EXCEPT ![t][id[i]][k] = content[i]]
        /\ HasCache(i) /\ id[i] \in IdSet
    BY <1>3 DEF TokenizeMiss, Admits, CInv, IdsIssued
  <2>2. ASSUME ctorNext = 2, NEW u \in Threads, OwnCurrent(u) PROVE OwnCurrent(u)'
    <3> SUFFICES ASSUME NEW j \in Instances, HasCache(j), NEW l \in Keys,
                        storage'[u][id[j]][l] # None
                 PROVE  storage'[u][id[j]][l] = content[j]
      BY <2>1 DEF OwnCurrent, HasCache
    <3>1. j = i
      BY <2>1, <2>2 DEF OwnInv, OneCache
    <3> QED
      BY <2>1, <2>2, <3>1 DEF OwnCurrent, CInv, TypeOK
  <2> QED
    BY <2>1, <2>2 DEF OwnInv, OneCache, LatestId, HasCache
<1> QED
  BY ZenonT(30), <1>1, <1>2, <1>3 DEF TokenizeHit, TokenizeMiss, vars

\* The clearing thread erases its entries and leaves the cache a fresh id, or the first.
LEMMA ClearOwn ==
    ASSUME CInv, OwnInv, NEW t \in Threads, NEW i \in Instances,
           ClearCache(t, i) \/ Train(t, i), clearers' = clearers \cup {t}
    PROVE  OwnInv'
<1>1. /\ ClearIfCached(t, i) /\ UNCHANGED <<capacity, ctorNext>>
      /\ \A j \in Instances : j # i => content'[j] = content[j]
  BY DEF ClearCache, Train, CInv, TypeOK
<1>2. \A j \in Instances : HasCache(j)' <=> HasCache(j)
  BY <1>1 DEF HasCache
<1>3. CASE ~HasCache(i)
  <2>1. UNCHANGED <<storage, id, clearNext>>
    BY <1>1, <1>3 DEF ClearIfCached
  <2>2. \A u \in Threads : clearers' \subseteq {u} => clearers \subseteq {u}
    OBVIOUS
  <2> QED
    BY <1>1, <1>2, <1>3, <2>1, <2>2 DEF OwnInv, OneCache, LatestId, OwnCurrent
<1>4. CASE HasCache(i) /\ ctorNext = 2
  <2>1. /\ clearNext \in IdSet /\ clearNext' = clearNext + 1 /\ id' = [id EXCEPT ![i] = clearNext]
        /\ storage' = [storage EXCEPT ![t][id[i]] = [k \in Keys |-> None]]
        /\ clearNext \in Nat /\ clearNext >= 1 /\ id'[i] = clearNext
    BY <1>1, <1>4, BoundAssumption DEF ClearIfCached, Clear, CInv, TypeOK, IdSet
  <2>2. \A j \in Instances : HasCache(j) => j = i
    BY <1>4 DEF OwnInv, OneCache
  <2>3. id[i] = (IF clearNext = 1 THEN 1 ELSE clearNext - 1) /\ id[i] \in IdSet
    BY <1>4 DEF OwnInv, LatestId, CInv, IdsIssued
  <2>4. \A k \in Keys : storage'[t][clearNext][k] = None
    <3>1. CASE clearNext = 1
      BY <2>1, <2>3, <3>1 DEF CInv, TypeOK
    <3>2. CASE clearNext # 1
      <4>1. ~(clearNext < ctorNext) /\ ~(clearNext < clearNext) /\ clearNext # id[i]
        BY <1>4, <2>1, <2>3, <3>2
      <4>2. \A k \in Keys : storage[t][clearNext][k] = None
        BY <2>1, <4>1, FreshIdEmpty
      <4> QED
        BY <2>1, <2>3, <4>1, <4>2 DEF CInv, TypeOK
    <3> QED
      BY <3>1, <3>2
  <2>5. OwnCurrent(t)'
    BY <1>2, <2>1, <2>2, <2>4 DEF OwnCurrent
  <2>6. \A u \in Threads : clearers' \subseteq {u} => u = t
    OBVIOUS
  <2>7. OneCache' /\ LatestId'
    BY <1>2, <2>1, <2>2 DEF OneCache, LatestId
  <2> QED
    BY <1>1, <1>4, <2>5, <2>6, <2>7 DEF OwnInv
<1>5. CASE HasCache(i) /\ ctorNext # 2
  BY <1>1, <1>5 DEF OwnInv
<1> QED
  BY <1>3, <1>4, <1>5

\* The calls with the history are calls of the cache.
LEMMA HistoryIsNext ==
    ASSUME [HistoryNext]_<<vars, clearers>> PROVE [Next]_vars
BY DEF HistoryNext, Next

\* Every call keeps the invariant of the history.
LEMMA HistoryStep ==
    ASSUME CInv, OwnInv, [HistoryNext]_<<vars, clearers>> PROVE OwnInv'
BY BuildOwn, CallOwn, ClearOwn DEF HistoryNext

(***************************************************************************)
(* With one cache ever built, the thread that does all clearing and        *)
(* training is never answered from an old model: clear() erases what it    *)
(* has cached itself, and the id it draws is the first one again or new.   *)
(***************************************************************************)
THEOREM OwnClearsSuffice == HistorySpec => []OwnClearsCurrent
<1>1. HistoryInit => CInv /\ OwnInv
  BY InitCInv DEF HistoryInit, Init, OwnInv, HasCache
<1>2. CInv /\ OwnInv /\ [HistoryNext]_<<vars, clearers>> => CInv' /\ OwnInv'
  BY NextCInv, HistoryIsNext, HistoryStep
<1>3. CInv /\ OwnInv => OwnClearsCurrent
  BY DEF CInv, TypeOK, OwnInv, OwnCurrent, OwnClearsCurrent, Entries
<1> QED
  BY <1>1, <1>2, <1>3, PTL DEF HistorySpec
===============================================================================
