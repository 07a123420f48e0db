---------------------------- MODULE SequenceLemmas ----------------------------
(***************************************************************************)
(* Facts about numbers, sequences and divisions that the proofs share.     *)
(***************************************************************************)
EXTENDS Selections, SequencesExt, TLAPS, FiniteSetTheorems, SequenceTheorems

-------------------------------------------------------------------------------
(* Least numbers: the induction principle of these proofs. *)

\* A non-empty set of natural numbers has a least element.
LEMMA LeastNat ==
    ASSUME NEW T \in SUBSET Nat, T # {}
    PROVE  \E x \in T : \A y \in T : x <= y
<1> DEFINE R == {p \in Nat \X Nat : p[1] < p[2]}
<1>1. IsWellFoundedOn(R, Nat)
  <2>1. R = OpToRel(<, Nat)
    BY DEF OpToRel
  <2> QED
    BY <2>1, NatLessThanWellFounded
<1>2. PICK x \in T : \A y \in T : ~ (<<y, x>> \in R)
  <2> HIDE DEF R
  <2> QED
    BY <1>1, WFMin
<1>3. \A y \in T : ~ (y < x)
  BY <1>2
<1>4. x \in Nat /\ \A y \in T : y \in Nat
  OBVIOUS
<1>5. \A y \in T : x <= y
  <2> HIDE DEF R
  <2> QED
    BY <1>3, <1>4
<1> QED
  BY <1>5

\* A non-empty set of integers with a lower bound has a least element.
LEMMA LeastInt ==
    ASSUME NEW T \in SUBSET Int, T # {}, NEW lo \in Int, \A x \in T : lo <= x
    PROVE  \E x \in T : \A y \in T : x <= y
<1> DEFINE U == {n \in Nat : lo + n \in T}
<1>1. PICK t \in T : TRUE
  OBVIOUS
<1>2. t - lo \in U
  BY <1>1
<1>3. PICK n \in U : \A k \in U : n <= k
  <2>1. U \in SUBSET Nat /\ U # {}
    BY <1>2
  <2> HIDE DEF U
  <2> QED
    BY <2>1, LeastNat
<1>4. \A y \in T : y - lo \in U
  OBVIOUS
<1>5. lo + n \in T /\ \A y \in T : lo + n <= y
  BY <1>3, <1>4
<1> QED
  BY <1>5

\* Induction up to n, over a set of numbers.
LEMMA InductUpto ==
    ASSUME NEW n \in Nat, NEW T, 0 \in T, \A k \in 1..n : k - 1 \in T => k \in T
    PROVE  \A k \in 0..n : k \in T
<1> DEFINE Bad == {k \in 0..n : k \notin T}
<1>1. CASE Bad = {}
  BY <1>1
<1>2. CASE Bad # {}
  <2>1. PICK k \in Bad : \A l \in Bad : k <= l
    <3>1. Bad \in SUBSET Nat
      OBVIOUS
    <3> HIDE DEF Bad
    <3> QED
      BY <1>2, <3>1, LeastNat
  <2>2. k \in 1..n /\ k - 1 \in 0..n /\ k - 1 < k
    OBVIOUS
  <2>3. k - 1 \notin Bad
    <3> HIDE DEF Bad
    <3> QED
      BY <2>1, <2>2
  <2> QED
    BY <2>2, <2>3
<1> QED
  BY <1>1, <1>2

-------------------------------------------------------------------------------
(* Sequences without repetition. *)

\* Two sequences with the same elements, in any order.
LEMMA SameToSet ==
    ASSUME NEW s, NEW t, \A k \in DOMAIN s : \E l \in DOMAIN t : s[k] = t[l]
    PROVE  ToSet(s) \subseteq ToSet(t)
BY DEF ToSet

Once(s) == \A j, k \in DOMAIN s : s[j] = s[k] => j = k

\* A sequence without repetition has as many elements as places.
LEMMA OnceCardinality ==
    ASSUME NEW S, NEW s \in Seq(S), Once(s)
    PROVE  IsFiniteSet(ToSet(s)) /\ Cardinality(ToSet(s)) = Len(s)
<1>1. Len(s) \in Nat /\ DOMAIN s = 1..Len(s) /\ s \in [1..Len(s) -> ToSet(s)]
  BY DEF ToSet
<1>2. s \in Bijection(1..Len(s), ToSet(s))
  BY <1>1 DEF Once, ToSet, Bijection, Injection, Surjection, IsInjective
<1>3. ExistsBijection(1..Len(s), ToSet(s))
  BY <1>2 DEF ExistsBijection
<1> QED
  BY <1>1, <1>3, FS_NatBijection, FS_CountingElements

\* The size of a disjoint union.
LEMMA DisjointCardinality ==
    ASSUME NEW S, NEW T, IsFiniteSet(S), IsFiniteSet(T), S \cap T = {}
    PROVE  /\ IsFiniteSet(S \cup T)
           /\ Cardinality(S \cup T) = Cardinality(S) + Cardinality(T)
<1>1. /\ IsFiniteSet(S \cup T)
      /\ Cardinality(S \cup T) = Cardinality(S) + Cardinality(T) - Cardinality(S \cap T)
  BY FS_Union
<1>2. Cardinality(S \cap T) = 0 /\ Cardinality(S) \in Nat /\ Cardinality(T) \in Nat
  BY FS_EmptySet, FS_CardinalityType
<1> QED
  BY <1>1, <1>2

\* Appending an element.
LEMMA AppendOnce ==
    ASSUME NEW S, NEW s \in Seq(S), NEW x \in S
    PROVE  /\ Append(s, x) \in Seq(S) /\ Len(Append(s, x)) = Len(s) + 1
           /\ ToSet(Append(s, x)) = ToSet(s) \cup {x}
           /\ Once(s) /\ x \notin ToSet(s) => Once(Append(s, x))
<1>1. /\ Append(s, x) \in Seq(S) /\ DOMAIN Append(s, x) = 1..(Len(s) + 1)
      /\ Len(s) \in Nat /\ DOMAIN s = 1..Len(s) /\ Len(Append(s, x)) = Len(s) + 1
      /\ \A k \in 1..Len(s) : Append(s, x)[k] = s[k]
      /\ Append(s, x)[Len(s) + 1] = x
  BY AppendProperties
<1>2. ToSet(Append(s, x)) = ToSet(s) \cup {x}
  <2>1. 1..(Len(s) + 1) = 1..Len(s) \cup {Len(s) + 1}
    BY <1>1
  <2> QED
    BY <1>1, <2>1 DEF ToSet
<1> QED
  BY <1>1, <1>2 DEF Once, ToSet

\* Concatenating two sequences.
LEMMA ConcatOnce ==
    ASSUME NEW S, NEW s \in Seq(S), NEW t \in Seq(S)
    PROVE  /\ s \o t \in Seq(S) /\ Len(s \o t) = Len(s) + Len(t)
           /\ ToSet(s \o t) = ToSet(s) \cup ToSet(t)
           /\ Once(s) /\ Once(t) /\ ToSet(s) \cap ToSet(t) = {} => Once(s \o t)
<1> DEFINE c == s \o t
<1>1. /\ c \in Seq(S) /\ Len(c) = Len(s) + Len(t) /\ DOMAIN c = 1..(Len(s) + Len(t))
      /\ Len(s) \in Nat /\ Len(t) \in Nat /\ DOMAIN s = 1..Len(s) /\ DOMAIN t = 1..Len(t)
      /\ \A k \in 1..Len(s) : c[k] = s[k]
      /\ \A k \in 1..Len(t) : c[Len(s) + k] = t[k]
      /\ \A k \in 1..(Len(s) + Len(t)) : c[k] = IF k <= Len(s) THEN s[k] ELSE t[k - Len(s)]
  BY ConcatProperties
<1> HIDE DEF c
<1>2. ToSet(c) = ToSet(s) \cup ToSet(t)
  <2>1. ASSUME NEW k \in 1..(Len(s) + Len(t)) PROVE c[k] \in ToSet(s) \cup ToSet(t)
    <3>1. CASE k <= Len(s)
      BY <1>1, <3>1 DEF ToSet
    <3>2. CASE k > Len(s)
      <4>1. k - Len(s) \in 1..Len(t)
        BY <1>1, <3>2
      <4>2. c[k] = t[k - Len(s)]
        BY <1>1, <3>2
      <4> QED
        BY <1>1, <4>1, <4>2 DEF ToSet
    <3> QED
      BY <1>1, <3>1, <3>2
  <2>2. \A k \in 1..Len(s) : s[k] \in ToSet(c)
    <3>1. \A k \in 1..Len(s) : k \in DOMAIN c
      BY <1>1
    <3> QED
      BY <1>1, <3>1 DEF ToSet
  <2>3. \A k \in 1..Len(t) : t[k] \in ToSet(c)
    <3>1. \A k \in 1..Len(t) : Len(s) + k \in DOMAIN c
      BY <1>1
    <3> QED
      BY <1>1, <3>1 DEF ToSet
  <2> QED
    BY <1>1, <2>1, <2>2, <2>3 DEF ToSet
<1>3. ASSUME Once(s), Once(t), ToSet(s) \cap ToSet(t) = {} PROVE Once(c)
  <2> SUFFICES ASSUME NEW j \in DOMAIN c, NEW k \in DOMAIN c, c[j] = c[k], j < k PROVE FALSE
    BY <1>1 DEF Once
  <2>1. CASE k <= Len(s)
    BY <1>1, <1>3, <2>1 DEF Once
  <2>2. CASE j > Len(s)
    <3>1. j - Len(s) \in DOMAIN t /\ k - Len(s) \in DOMAIN t
      BY <1>1, <2>2
    <3>2. t[j - Len(s)] = t[k - Len(s)]
      BY <1>1, <2>2
    <3> QED
      BY <1>1, <1>3, <3>1, <3>2 DEF Once
  <2>3. CASE j <= Len(s) /\ k > Len(s)
    <3>1. j \in DOMAIN s /\ k - Len(s) \in DOMAIN t
      BY <1>1, <2>3
    <3>2. s[j] = t[k - Len(s)]
      BY <1>1, <2>3
    <3> QED
      BY <1>3, <3>1, <3>2 DEF ToSet
  <2> QED
    BY <1>1, <2>1, <2>2, <2>3
<1> QED
  BY <1>1, <1>2, <1>3 DEF c

\* Exchanging two elements.
LEMMA SwapOnce ==
    ASSUME NEW S, NEW s \in Seq(S), NEW i \in DOMAIN s, NEW j \in DOMAIN s,
           NEW w \in Seq(S), Len(w) = Len(s), w[i] = s[j], w[j] = s[i],
           \A k \in DOMAIN s \ {i, j} : w[k] = s[k]
    PROVE  /\ DOMAIN w = DOMAIN s /\ ToSet(w) = ToSet(s)
           /\ Once(s) => Once(w)
<1>1. DOMAIN w = DOMAIN s
  BY LenProperties
<1>2. \A k \in DOMAIN s : \E l \in DOMAIN w : s[k] = w[l]
  BY <1>1
<1>3. \A k \in DOMAIN w : \E l \in DOMAIN s : w[k] = s[l]
  BY <1>1
<1>4. ToSet(w) = ToSet(s)
  <2>1. ToSet(w) \subseteq ToSet(s)
    BY <1>3, SameToSet
  <2>2. ToSet(s) \subseteq ToSet(w)
    BY <1>2, SameToSet
  <2> QED
    BY <2>1, <2>2
<1>5. Once(s) => Once(w)
  BY <1>1 DEF Once
<1> QED
  BY <1>1, <1>4, <1>5

\* Taking the first element.
LEMMA TailOnce ==
    ASSUME NEW S, NEW s \in Seq(S), s # <<>>, Once(s)
    PROVE  /\ Head(s) \in S /\ Tail(s) \in Seq(S) /\ Once(Tail(s))
           /\ Len(Tail(s)) = Len(s) - 1
           /\ Head(s) \in ToSet(s) /\ ToSet(Tail(s)) = ToSet(s) \ {Head(s)}
<1>1. /\ Head(s) = s[1] /\ Head(s) \in S /\ Tail(s) \in Seq(S)
      /\ Len(s) \in Nat \ {0} /\ DOMAIN s = 1..Len(s) /\ Len(Tail(s)) = Len(s) - 1
      /\ DOMAIN Tail(s) = 1..(Len(s) - 1)
      /\ \A k \in 1..(Len(s) - 1) : Tail(s)[k] = s[k + 1]
  BY HeadTailProperties, EmptySeq
<1>2. \A k \in 1..(Len(s) - 1) : Tail(s)[k] \in ToSet(s) /\ Tail(s)[k] # s[1]
  BY <1>1 DEF Once, ToSet
<1>3. \A k \in 1..Len(s) : k # 1 => k - 1 \in DOMAIN Tail(s) /\ s[k] = Tail(s)[k - 1]
  BY <1>1
<1>4. ToSet(Tail(s)) = ToSet(s) \ {Head(s)}
  <2>1. \A e \in ToSet(Tail(s)) : e \in ToSet(s) /\ e # s[1]
    BY <1>1, <1>2 DEF ToSet
  <2>2. ASSUME NEW e \in ToSet(s), e # s[1] PROVE e \in ToSet(Tail(s))
    <3>1. PICK k \in DOMAIN s : e = s[k]
      BY DEF ToSet
    <3>2. k - 1 \in DOMAIN Tail(s) /\ e = Tail(s)[k - 1]
      BY <1>1, <1>3, <2>2, <3>1
    <3> QED
      BY <3>2 DEF ToSet
  <2> QED
    BY <1>1, <2>1, <2>2
<1>5. Once(Tail(s))
  <2> SUFFICES ASSUME NEW j \in 1..(Len(s) - 1), NEW k \in 1..(Len(s) - 1),
                      Tail(s)[j] = Tail(s)[k]
               PROVE  j = k
    BY <1>1 DEF Once
  <2>1. s[j + 1] = s[k + 1] /\ j + 1 \in DOMAIN s /\ k + 1 \in DOMAIN s
    BY <1>1
  <2>2. j + 1 = k + 1
    BY <2>1 DEF Once
  <2> QED
    BY <1>1, <2>2
<1> QED
  BY <1>1, <1>4, <1>5 DEF ToSet

\* Moving the last element to the front, in place of the first.
LEMMA LastToFrontOnce ==
    ASSUME NEW S, NEW s \in Seq(S), s # <<>>, Once(s),
           NEW w \in Seq(S), Len(w) = Len(s) - 1,
           \A k \in 1..(Len(s) - 1) : w[k] = IF k = 1 THEN s[Len(s)] ELSE s[k]
    PROVE  /\ Once(w) /\ s[1] \in ToSet(s) /\ ToSet(w) = ToSet(s) \ {s[1]}
<1>1. Len(s) \in Nat \ {0} /\ DOMAIN s = 1..Len(s) /\ DOMAIN w = 1..(Len(s) - 1)
  BY EmptySeq, LenProperties
<1>2. Once(w)
  BY <1>1 DEF Once
<1>3. \A k \in 1..(Len(s) - 1) : w[k] \in ToSet(s) /\ w[k] # s[1]
  <2>1. \A k \in 2..Len(s) : s[k] \in ToSet(s) /\ s[k] # s[1]
    BY <1>1 DEF Once, ToSet
  <2> QED
    BY <1>1, <2>1
<1>4. \A k \in 2..Len(s) : s[k] \in ToSet(w)
  <2>1. \A k \in 2..(Len(s) - 1) : s[k] \in ToSet(w)
    BY <1>1 DEF ToSet
  <2>2. Len(s) > 1 => s[Len(s)] \in ToSet(w)
    <3>1. Len(s) > 1 => 1 \in DOMAIN w /\ w[1] = s[Len(s)]
      BY <1>1
    <3> QED
      BY <3>1 DEF ToSet
  <2>3. \A k \in 2..Len(s) : k \in 2..(Len(s) - 1) \/ (k = Len(s) /\ Len(s) > 1)
    BY <1>1
  <2> QED
    BY <2>1, <2>2, <2>3
<1>5. ToSet(w) = ToSet(s) \ {s[1]}
  <2>1. \A e \in ToSet(s) \ {s[1]} : \E k \in 2..Len(s) : e = s[k]
    BY <1>1 DEF ToSet
  <2>2. \A e \in ToSet(w) : e \in ToSet(s) /\ e # s[1]
    BY <1>1, <1>3 DEF ToSet
  <2> QED
    BY <1>4, <2>1, <2>2
<1>6. s[1] \in ToSet(s)
  BY <1>1 DEF ToSet
<1> QED
  BY <1>2, <1>5, <1>6

\* A finite set as a sequence.
LEMMA SetToSeqFacts ==
    ASSUME NEW S, IsFiniteSet(S)
    PROVE  SetToSeq(S) \in Seq(S) /\ Once(SetToSeq(S)) /\ ToSet(SetToSeq(S)) = S
<1> DEFINE n == Cardinality(S)
           q == SetToSeq(S)
<1>1. n \in Nat /\ ExistsBijection(1..n, S)
  BY FS_CardinalityType
<1>2. PICK f \in [1..n -> S] : IsInjective(f)
  BY <1>1 DEF ExistsBijection, Bijection, Injection
<1>3. q \in [1..n -> S] /\ IsInjective(q)
  BY <1>2 DEF SetToSeq
<1> HIDE DEF q
<1>4. q \in Injection(1..n, S)
  BY <1>3 DEF Injection
<1>5. IsFiniteSet(1..n) /\ Cardinality(1..n) = n
  BY <1>1, FS_Interval
<1>6. q \in Surjection(1..n, S)
  BY <1>4, <1>5, FS_Injection
<1>7. q \in Seq(S) /\ DOMAIN q = 1..n
  BY <1>1, <1>3
<1>8. ToSet(q) = S
  BY <1>3, <1>6, <1>7 DEF ToSet, Surjection
<1>9. Once(q)
  BY <1>3 DEF Once, IsInjective
<1> QED
  BY <1>7, <1>8, <1>9 DEF q

-------------------------------------------------------------------------------
(* FlattenSeq. *)

\* The recursive function of FlattenSeq: it exists.
FlattenFcn(f, ss) == f = [i \in 1..Len(ss) |-> IF i = 1 THEN ss[i] ELSE f[i - 1] \o ss[i]]

LEMMA FlattenExists ==
    ASSUME NEW ss, Len(ss) \in Nat \ {0}
    PROVE  \E f : FlattenFcn(f, ss) /\ FlattenSeq(ss) = f[Len(ss)]
<1> DEFINE n == Len(ss)
           Upto(g, m) == /\ g = [i \in 1..m |-> g[i]]
                         /\ \A i \in 1..m : g[i] = IF i = 1 THEN ss[i] ELSE g[i - 1] \o ss[i]
           Bad == {m \in Nat : ~ \E g : Upto(g, m)}
<1>1. Bad = {}
  <2> SUFFICES ASSUME Bad # {} PROVE FALSE
    OBVIOUS
  <2>1. PICK m \in Bad : \A k \in Bad : m <= k
    <3>1. Bad \in SUBSET Nat
      OBVIOUS
    <3> HIDE DEF Bad
    <3> QED
      BY <3>1, LeastNat
  <2>2. m # 0
    <3>1. Upto([i \in 1..0 |-> 0], 0)
      OBVIOUS
    <3> QED
      BY <3>1
  <2>3. PICK g : Upto(g, m - 1)
    <3>1. m - 1 \in Nat /\ m - 1 \notin Bad
      BY <2>1, <2>2
    <3> QED
      BY <3>1
  <2> DEFINE h == [i \in 1..m |-> IF i < m THEN g[i]
                                  ELSE IF i = 1 THEN ss[i] ELSE g[i - 1] \o ss[i]]
  <2>4. h = [i \in 1..m |-> h[i]]
    OBVIOUS
  <2>5. ASSUME NEW i \in 1..m
        PROVE  h[i] = IF i = 1 THEN ss[i] ELSE h[i - 1] \o ss[i]
    <3>1. i - 1 \in Int /\ i - 1 < m /\ (i # 1 => i - 1 \in 1..m)
      OBVIOUS
    <3>2. i # 1 => h[i - 1] = g[i - 1]
      BY <3>1
    <3>3. i < m => i \in 1..(m - 1)
      OBVIOUS
    <3>4. h[i] = IF i < m THEN g[i] ELSE IF i = 1 THEN ss[i] ELSE g[i - 1] \o ss[i]
      OBVIOUS
    <3>5. i < m => g[i] = IF i = 1 THEN ss[i] ELSE g[i - 1] \o ss[i]
      BY <2>3, <3>3
    <3> HIDE DEF h
    <3> QED
      BY <3>2, <3>4, <3>5
  <2>6. Upto(h, m)
    BY <2>4, <2>5
  <2> QED
    BY <2>1, <2>6
<1>2. PICK g : Upto(g, n)
  BY <1>1
<1>3. FlattenFcn(g, ss)
  BY <1>2 DEF FlattenFcn
<1> DEFINE f == CHOOSE f : FlattenFcn(f, ss)
<1>4. FlattenFcn(f, ss)
  <2> HIDE DEF f
  <2> QED
  BY <1>3 DEF f
<1>5. FlattenSeq(ss) = f[n]
  BY DEF FlattenSeq, FlattenFcn
<1> QED
  BY <1>4, <1>5

\* Flattening sequences without repetition that share no element.
LEMMA FlattenOnce ==
    ASSUME NEW S, NEW ss, Len(ss) \in Nat \ {0},
           \A i \in 1..Len(ss) : ss[i] \in Seq(S) /\ Once(ss[i]),
           \A i, j \in 1..Len(ss) : i # j => ToSet(ss[i]) \cap ToSet(ss[j]) = {}
    PROVE  /\ FlattenSeq(ss) \in Seq(S) /\ Once(FlattenSeq(ss))
           /\ ToSet(FlattenSeq(ss)) = UNION {ToSet(ss[i]) : i \in 1..Len(ss)}
<1> DEFINE n == Len(ss)
<1>1. PICK f : FlattenFcn(f, ss) /\ FlattenSeq(ss) = f[n]
  BY FlattenExists
<1>2. \A i \in 1..n : f[i] = IF i = 1 THEN ss[i] ELSE f[i - 1] \o ss[i]
  BY <1>1 DEF FlattenFcn
<1> DEFINE Fine(m) == /\ f[m] \in Seq(S) /\ Once(f[m])
                      /\ ToSet(f[m]) = UNION {ToSet(ss[i]) : i \in 1..m}
           Bad == {m \in 1..n : ~ Fine(m)}
<1>3. Bad = {}
  <2> SUFFICES ASSUME Bad # {} PROVE FALSE
    OBVIOUS
  <2>1. PICK m \in Bad : \A k \in Bad : m <= k
    <3>1. Bad \in SUBSET Nat
      OBVIOUS
    <3> HIDE DEF Bad
    <3> QED
      BY <3>1, LeastNat
  <2>2. CASE m = 1
    <3>1. f[m] = ss[1] /\ 1..m = {1}
      BY <1>2, <2>2
    <3>2. Fine(m)
      BY <3>1
    <3> QED
      BY <2>1, <3>2
  <2>3. CASE m # 1
    <3>1. m - 1 \in 1..n /\ m \in 1..n /\ 1..m = 1..(m - 1) \cup {m}
      BY <2>1, <2>3
    <3>2. Fine(m - 1)
      <4>1. m - 1 \notin Bad
        <5> HIDE DEF Bad
        <5> QED
          BY <2>1, <3>1
      <4> QED
        BY <3>1, <4>1
    <3>3. f[m] = f[m - 1] \o ss[m]
      BY <1>2, <2>3, <3>1
    <3>4. ToSet(f[m - 1]) \cap ToSet(ss[m]) = {}
      <4>1. \A i \in 1..(m - 1) : i \in 1..n /\ i # m
        BY <3>1
      <4>2. \A i \in 1..(m - 1) : ToSet(ss[i]) \cap ToSet(ss[m]) = {}
        BY <3>1, <4>1
      <4> QED
        BY <3>2, <4>2
    <3>5. /\ f[m] \in Seq(S) /\ Once(f[m]) /\ ToSet(f[m]) = ToSet(f[m - 1]) \cup ToSet(ss[m])
      BY <3>1, <3>2, <3>3, <3>4, ConcatOnce
    <3>6. ToSet(f[m]) = UNION {ToSet(ss[i]) : i \in 1..m}
      BY <3>1, <3>2, <3>5
    <3> QED
      BY <2>1, <3>5, <3>6
  <2> QED
    BY <2>2, <2>3
<1>4. Fine(n)
  <2>1. n \in 1..n
    OBVIOUS
  <2> HIDE DEF Fine
  <2> QED
    BY <1>3, <2>1
<1> QED
  BY <1>1, <1>4

-------------------------------------------------------------------------------
(* Greatest numbers, and folds over sequences. *)

\* A non-empty set of integers with an upper bound has a greatest element, Max.
LEMMA MaxFacts ==
    ASSUME NEW T \in SUBSET Int, T # {}, NEW hi \in Int, \A x \in T : x <= hi
    PROVE  Max(T) \in T /\ \A y \in T : y <= Max(T)
<1> DEFINE U == {n \in Nat : hi - n \in T}
<1>1. PICK t \in T : TRUE
  OBVIOUS
<1>2. hi - t \in U
  BY <1>1
<1>3. PICK n \in U : \A k \in U : n <= k
  <2>1. U \in SUBSET Nat /\ U # {}
    BY <1>2
  <2> HIDE DEF U
  <2> QED
    BY <2>1, LeastNat
<1>4. \A y \in T : hi - y \in U
  OBVIOUS
<1>5. hi - n \in T /\ \A y \in T : hi - n >= y
  <2>1. \A y \in T : n <= hi - y
    <3> HIDE DEF U
    <3> QED
      BY <1>3, <1>4
  <2> QED
    BY <1>3, <2>1
<1> QED
  BY <1>5 DEF Max

\* The greatest number of a non-empty part of 1..n.
LEMMA MaxWithin ==
    ASSUME NEW n \in Nat, NEW s \in SUBSET (1..n), s # {}
    PROVE  Max(s) \in s /\ Max(s) \in 1..n /\ \A y \in s : y <= Max(s)
<1>1. s \in SUBSET Int /\ n \in Int /\ \A x \in s : x <= n
  OBVIOUS
<1> QED
  BY <1>1, MaxFacts

\* The recursive function inside FoldLeft over 1..n, when the step at i is a
\* function of the values so far.
FoldFcn(it, base, H, n) ==
    it = [s \in SUBSET (1..n) |->
            IF s = {} THEN base ELSE H[<<Max(s), it[s \ {Max(s)}]>>]]

\* It exists if the steps stay within a set of values.
LEMMA FoldExists ==
    ASSUME NEW V, NEW n \in Nat, NEW base \in V, NEW H \in [(1..n) \X V -> V]
    PROVE  \E it \in [SUBSET (1..n) -> V] : FoldFcn(it, base, H, n)
<1> DEFINE Fits(it, m) == /\ it \in [SUBSET (1..m) -> V]
                          /\ \A s \in SUBSET (1..m) :
                                it[s] = IF s = {} THEN base
                                        ELSE H[<<Max(s), it[s \ {Max(s)}]>>]
           Bad == {m \in 0..n : ~ \E it : Fits(it, m)}
<1>1. Bad = {}
  <2> SUFFICES ASSUME Bad # {} PROVE FALSE
    OBVIOUS
  <2>1. PICK m \in Bad : \A k \in Bad : m <= k
    <3>1. Bad \in SUBSET Nat
      OBVIOUS
    <3> HIDE DEF Bad
    <3> QED
      BY <3>1, LeastNat
  <2>2. m \in 0..n /\ ~ \E it : Fits(it, m)
    <3> HIDE DEF Fits
    <3> QED
      OBVIOUS
  <2>3. m # 0
    <3>1. Fits([s \in SUBSET (1..0) |-> base], 0)
      OBVIOUS
    <3> HIDE DEF Fits
    <3> QED
      BY <2>2, <3>1
  <2>4. PICK it : Fits(it, m - 1)
    <3>1. m - 1 \in 0..n /\ m - 1 < m /\ m \in Int
      BY <2>3
    <3>2. m - 1 \notin Bad
      <4> HIDE DEF Bad
      <4> QED
        BY <2>1, <3>1
    <3> HIDE DEF Fits
    <3> QED
      BY <3>1, <3>2
  <2> DEFINE next == [s \in SUBSET (1..m) |->
                        IF m \in s THEN H[<<m, it[s \ {m}]>>] ELSE it[s]]
  <2>5. m \in 1..n /\ \A s \in SUBSET (1..m) : s \ {m} \in SUBSET (1..(m - 1))
    BY <2>3
  <2>6. next \in [SUBSET (1..m) -> V]
    <3>1. ASSUME NEW s \in SUBSET (1..m)
          PROVE  (IF m \in s THEN H[<<m, it[s \ {m}]>>] ELSE it[s]) \in V
      <4>1. it[s \ {m}] \in V
        BY <2>4, <2>5
      <4>2. m \notin s => s = s \ {m}
        OBVIOUS
      <4> QED
        BY <2>5, <4>1, <4>2
    <3> QED
      BY <3>1
  <2>7. ASSUME NEW s \in SUBSET (1..m)
        PROVE  next[s] = IF s = {} THEN base ELSE H[<<Max(s), next[s \ {Max(s)}]>>]
    <3>1. next[s] = IF m \in s THEN H[<<m, it[s \ {m}]>>] ELSE it[s]
      OBVIOUS
    <3>2. s # {} => Max(s) \in s /\ \A y \in s : y <= Max(s)
      <4>1. s \in SUBSET Int /\ m \in Int /\ \A x \in s : x <= m
        OBVIOUS
      <4> QED
        BY <4>1, MaxFacts
    <3>3. CASE m \in s
      <4>1. Max(s) = m
        <5>1. Max(s) \in 1..m /\ m <= Max(s)
          BY <3>2, <3>3
        <5> QED
          BY <5>1
      <4>2. next[s \ {m}] = it[s \ {m}]
        BY <2>5
      <4> HIDE DEF next
      <4> QED
        BY <3>1, <3>3, <4>1, <4>2
    <3>4. CASE m \notin s
      <4>1. s \in SUBSET (1..(m - 1))
        BY <2>5, <3>4
      <4>2. it[s] = IF s = {} THEN base ELSE H[<<Max(s), it[s \ {Max(s)}]>>]
        BY <2>4, <4>1
      <4>3. next[s \ {Max(s)}] = it[s \ {Max(s)}]
        BY <3>4
      <4> HIDE DEF next
      <4> QED
        BY <3>1, <3>4, <4>2, <4>3
    <3> QED
      BY <3>3, <3>4
  <2>8. Fits(next, m)
    <3> HIDE DEF next
    <3> QED
      BY <2>6, <2>7
  <2> HIDE DEF Fits
  <2> QED
    BY <2>2, <2>8
<1>2. PICK it : Fits(it, n)
  <2>1. n \in 0..n
    OBVIOUS
  <2> QED
    BY <1>1, <2>1
<1>3. FoldFcn(it, base, H, n)
  BY <1>2 DEF FoldFcn
<1> QED
  BY <1>2, <1>3

\* What a fold over 1..k takes last, and what it leaves.
LEMMA IntervalMax ==
    ASSUME NEW k \in Nat \ {0}
    PROVE  1..k # {} /\ Max(1..k) = k /\ (1..k) \ {Max(1..k)} = 1..(k - 1)
<1>1. 1..k # {} /\ (1..k) \ {k} = 1..(k - 1)
  OBVIOUS
<1>2. Max(1..k) = k
  <2>1. 1..k \in SUBSET Int /\ k \in Int /\ \A x \in 1..k : x <= k
    OBVIOUS
  <2>2. Max(1..k) \in 1..k /\ \A y \in 1..k : y <= Max(1..k)
    BY <1>1, <2>1, MaxFacts
  <2> QED
    BY <2>2
<1> QED
  BY <1>1, <1>2

\* The values a fold over 1..n goes through begin in V, and no step leaves V.
Follows(it, V, n) ==
    it[1..0] \in V /\ \A k \in 1..n : it[1..(k - 1)] \in V => it[1..k] \in V

\* Then it ends in V.
LEMMA FoldWithin ==
    ASSUME NEW V, NEW n \in Nat, NEW it, Follows(it, V, n)
    PROVE  \A k \in 0..n : it[1..k] \in V
<1> DEFINE T == {k \in 0..n : it[1..k] \in V}
<1>1. 0 \in T
  BY DEF Follows
<1>2. ASSUME NEW k \in 1..n, k - 1 \in T PROVE k \in T
  <2>1. it[1..(k - 1)] \in V /\ k \in 0..n
    BY <1>2
  <2> QED
    BY <2>1 DEF Follows
<1>3. \A k \in 0..n : k \in T
  <2> HIDE DEF T
  <2> QED
    BY <1>1, <1>2, InductUpto
<1> QED
  BY <1>3

\* Flattening sequences over a set gives a sequence over it.
LEMMA FlattenTyped ==
    ASSUME NEW S, NEW ss \in Seq(Seq(S))
    PROVE  FlattenSeq(ss) \in Seq(S)
<1> DEFINE n == Len(ss)
<1>1. CASE n = 0
  BY <1>1 DEF FlattenSeq
<1>2. CASE n # 0
  <2>1. n \in Nat \ {0} /\ \A i \in 1..n : ss[i] \in Seq(S)
    BY <1>2
  <2>2. PICK f : FlattenFcn(f, ss) /\ FlattenSeq(ss) = f[n]
    BY <2>1, FlattenExists
  <2>3. \A i \in 1..n : f[i] = IF i = 1 THEN ss[i] ELSE f[i - 1] \o ss[i]
    BY <2>2 DEF FlattenFcn
  <2> DEFINE Bad == {m \in 1..n : f[m] \notin Seq(S)}
  <2>4. Bad = {}
    <3> SUFFICES ASSUME Bad # {} PROVE FALSE
      OBVIOUS
    <3>1. PICK m \in Bad : \A k \in Bad : m <= k
      <4>1. Bad \in SUBSET Nat
        OBVIOUS
      <4> HIDE DEF Bad
      <4> QED
        BY <4>1, LeastNat
    <3>2. m \in 1..n /\ ss[m] \in Seq(S)
      BY <2>1
    <3>3. m # 1 => m - 1 \in 1..n /\ m - 1 < m
      BY <3>2
    <3>4. m # 1 => f[m - 1] \in Seq(S)
      BY <3>1, <3>3
    <3>5. f[m] = IF m = 1 THEN ss[m] ELSE f[m - 1] \o ss[m]
      BY <2>3, <3>2
    <3>6. f[m] \in Seq(S)
      BY <3>2, <3>4, <3>5
    <3> QED
      BY <3>1, <3>6
  <2>5. n \in 1..n
    BY <2>1
  <2> QED
    BY <2>2, <2>4, <2>5
<1> QED
  BY <1>1, <1>2

-------------------------------------------------------------------------------
(* Division, where a divisor is a constant nobody has fixed. *)

\* Quotient and remainder.
LEMMA Quotient ==
    ASSUME NEW d \in Nat \ {0}, NEW a \in Nat
    PROVE  a \div d \in Nat /\ d * (a \div d) <= a /\ a < d * (a \div d) + d
OBVIOUS

LEMMA Monotone ==
    ASSUME NEW d \in Nat, NEW a \in Int, NEW b \in Int, a <= b
    PROVE  d * a \in Int /\ d * b \in Int /\ d * a <= d * b
OBVIOUS

LEMMA Distribute ==
    ASSUME NEW d \in Int, NEW a \in Int
    PROVE  d * a \in Int /\ d * (a - 1) = d * a - d /\ d * (a + 1) = d * a + d
OBVIOUS

\* A number is in the i-th block of d numbers iff i is its quotient.
LEMMA Block ==
    ASSUME NEW d \in Nat \ {0}, NEW a \in Nat, NEW i \in Int
    PROVE  a \div d = i <=> d * i <= a /\ a < d * i + d
<1> DEFINE q == a \div d
<1>1. q \in Nat /\ d * q <= a /\ a < d * q + d
  BY Quotient
<1> HIDE DEF q
<1>2. CASE i = q
  BY <1>1, <1>2 DEF q
<1>3. CASE i + 1 <= q
  <2>1. d * (i + 1) <= d * q
    BY <1>1, <1>3, Monotone
  <2>2. d * (i + 1) = d * i + d /\ d * i \in Int
    BY Distribute
  <2>3. d * i + d <= d * q /\ d * q \in Int
    BY <1>1, <2>1, <2>2
  <2> QED
    BY <1>1, <1>3, <2>2, <2>3 DEF q
<1>4. CASE q + 1 <= i
  <2>1. d * (q + 1) <= d * i
    BY <1>1, <1>4, Monotone
  <2>2. d * (q + 1) = d * q + d /\ d * q \in Int /\ d * i \in Int
    BY <1>1, Distribute
  <2> QED
    BY <1>1, <1>4, <2>1, <2>2 DEF q
<1> QED
  BY <1>1, <1>2, <1>3, <1>4

-------------------------------------------------------------------------------
(* The order numbers of a set of numbers. *)

Below(S, i) == {k \in S : k < i}

\* Of n numbers, exactly one has r below it, for each r from 0 to n-1.
LEMMA RankFacts ==
    ASSUME NEW S \in SUBSET Int, IsFiniteSet(S)
    PROVE  /\ \A i \in S : Cardinality(Below(S, i)) \in 0..(Cardinality(S) - 1)
           /\ \A i, j \in S : i < j => Cardinality(Below(S, i)) < Cardinality(Below(S, j))
           /\ \A i, j \in S : Cardinality(Below(S, i)) = Cardinality(Below(S, j)) => i = j
           /\ \A r \in 0..(Cardinality(S) - 1) : \E i \in S : Cardinality(Below(S, i)) = r
<1> DEFINE n == Cardinality(S)
           f == [i \in S |-> Cardinality(Below(S, i))]
<1>1. n \in Nat
  BY FS_CardinalityType
<1>2. \A i \in S : IsFiniteSet(Below(S, i)) /\ f[i] \in 0..(n - 1)
  <2> SUFFICES ASSUME NEW i \in S PROVE IsFiniteSet(Below(S, i)) /\ f[i] \in 0..(n - 1)
    OBVIOUS
  <2>1. Below(S, i) \in SUBSET S /\ Below(S, i) # S
    BY DEF Below
  <2> DEFINE B == Below(S, i)
  <2>2. f[i] = Cardinality(B)
    OBVIOUS
  <2> HIDE DEF B, f, n
  <2>3. IsFiniteSet(B) /\ Cardinality(B) <= n /\ n # Cardinality(B)
    BY <2>1, FS_Subset DEF n, B
  <2>4. Cardinality(B) \in Nat
    BY <2>3, FS_CardinalityType
  <2> QED
    BY <1>1, <2>2, <2>3, <2>4 DEF B
<1>3. ASSUME NEW i \in S, NEW j \in S, i < j PROVE f[i] < f[j]
  <2> DEFINE B == Below(S, i)
             C == Below(S, j)
  <2>1. B \in SUBSET C /\ B # C /\ IsFiniteSet(B) /\ IsFiniteSet(C)
    <3>1. \A k \in S : k \in Int /\ (k < i => k < j) /\ ~(i < i)
      BY <1>3
    <3>2. i \in C /\ i \notin B /\ B \subseteq C
      BY <1>3, <3>1 DEF Below
    <3> QED
      BY <1>2, <3>2
  <2>2. f[i] = Cardinality(B) /\ f[j] = Cardinality(C)
    OBVIOUS
  <2> HIDE DEF B, C, f
  <2>3. Cardinality(B) <= Cardinality(C) /\ Cardinality(C) # Cardinality(B)
    BY <2>1, FS_Subset
  <2>4. Cardinality(B) \in Nat /\ Cardinality(C) \in Nat
    BY <2>1, FS_CardinalityType
  <2> QED
    BY <2>2, <2>3, <2>4
<1>4. DOMAIN f = S /\ f = [i \in S |-> f[i]]
  OBVIOUS
<1> HIDE DEF f, n
<1>5. f \in Injection(S, 0..(n - 1))
  <2>1. f \in [S -> 0..(n - 1)]
    BY <1>2, <1>4
  <2>2. \A i, j \in S : f[i] = f[j] => i = j
    <3> SUFFICES ASSUME NEW i \in S, NEW j \in S, i # j PROVE f[i] # f[j]
      OBVIOUS
    <3>1. f[i] \in Int /\ f[j] \in Int /\ (i < j \/ j < i)
      BY <1>2
    <3> QED
      BY <1>3, <3>1
  <2> QED
    BY <2>1, <2>2 DEF Injection, IsInjective
<1>6. f \in Surjection(S, 0..(n - 1))
  <2>1. IsFiniteSet(0..(n - 1)) /\ Cardinality(0..(n - 1)) = n
    BY <1>1, FS_Interval
  <2> QED
    BY <1>5, <2>1, FS_Injection DEF n
<1>7. \A i, j \in S : f[i] = f[j] => i = j
  BY <1>5 DEF Injection, IsInjective
<1>8. \A r \in 0..(n - 1) : \E i \in S : f[i] = r
  BY <1>6 DEF Surjection
<1>9. \A i \in S : f[i] = Cardinality(Below(S, i))
  BY DEF f
<1> QED
  BY <1>2, <1>3, <1>7, <1>8, <1>9 DEF n

\* The sequences FlattenSeq goes through.
FlattenRun(g, S, ss) ==
    /\ g \in [0..Len(ss) -> Seq(S)]
    /\ g[0] = <<>>
    /\ \A k \in 1..Len(ss) : g[k] = g[k - 1] \o ss[k]
    /\ FlattenSeq(ss) = g[Len(ss)]

LEMMA FlattenTrace ==
    ASSUME NEW S, NEW ss, Len(ss) \in Nat, \A k \in 1..Len(ss) : ss[k] \in Seq(S)
    PROVE  \E g : FlattenRun(g, S, ss)
<1> DEFINE n == Len(ss)
<1>1. CASE n = 0
  <2> DEFINE g == [k \in 0..n |-> <<>>]
  <2>1. FlattenSeq(ss) = <<>>
    BY <1>1 DEF FlattenSeq
  <2>2. g \in [0..n -> Seq(S)] /\ g[0] = <<>> /\ g[n] = <<>>
    BY <1>1
  <2>3. 1..n = {}
    BY <1>1
  <2> HIDE DEF g
  <2>4. FlattenRun(g, S, ss)
    BY <2>1, <2>2, <2>3 DEF FlattenRun
  <2> QED
    BY <2>4
<1>2. CASE n # 0
  <2>1. n \in Nat \ {0}
    BY <1>2
  <2>2. PICK f : FlattenFcn(f, ss) /\ FlattenSeq(ss) = f[n]
    BY <2>1, FlattenExists
  <2>3. \A i \in 1..n : f[i] = IF i = 1 THEN ss[i] ELSE f[i - 1] \o ss[i]
    BY <2>2 DEF FlattenFcn
  <2> DEFINE g == [k \in 0..n |-> IF k = 0 THEN <<>> ELSE f[k]]
             T == {k \in 0..n : g[k] \in Seq(S)}
  <2> HIDE DEF n
  <2>4. g[0] = <<>> /\ \A k \in 1..n : g[k] = f[k]
    BY <2>1
  <2>5. \A k \in 1..n : ss[k] \in Seq(S)
    BY DEF n
  <2>6. \A k \in 1..n : k # 1 => k - 1 \in 1..n
    BY <2>1
  <2>7. \A s \in Seq(S) : <<>> \o s = s
    OBVIOUS
  <2>8. \A k \in 1..n : g[k] = g[k - 1] \o ss[k]
    <3>1. ASSUME NEW k \in 1..n PROVE g[k] = g[k - 1] \o ss[k]
      <4>1. CASE k = 1
        <5>1. g[k] = ss[k] /\ g[k - 1] = <<>>
          BY <2>3, <2>4, <4>1
        <5> HIDE DEF g
        <5> QED
          BY <2>5, <2>7, <5>1
      <4>2. CASE k # 1
        <5>1. g[k] = f[k - 1] \o ss[k] /\ g[k - 1] = f[k - 1]
          BY <2>3, <2>4, <2>6, <4>2
        <5> HIDE DEF g
        <5> QED
          BY <5>1
      <4> QED
        BY <4>1, <4>2
    <3> QED
      BY <3>1
  <2>9. 0 \in T
    BY <2>1, <2>4
  <2>10. ASSUME NEW k \in 1..n, k - 1 \in T PROVE k \in T
    <3>1. g[k - 1] \in Seq(S) /\ k \in 0..n
      BY <2>1, <2>10
    <3> HIDE DEF g
    <3>2. g[k - 1] \o ss[k] \in Seq(S)
      BY <2>5, <3>1
    <3>3. g[k] \in Seq(S)
      BY <2>8, <3>2
    <3> QED
      BY <3>1, <3>3
  <2>11. \A k \in 0..n : k \in T
    <3> HIDE DEF T
    <3> QED
      BY <2>1, <2>9, <2>10, InductUpto
  <2>12. g \in [0..n -> Seq(S)]
    <3>1. \A k \in 0..n : g[k] \in Seq(S)
      BY <2>11
    <3>2. g = [k \in 0..n |-> g[k]]
      OBVIOUS
    <3> HIDE DEF g
    <3> QED
      BY <3>1, <3>2
  <2>13. FlattenSeq(ss) = g[n]
    BY <2>1, <2>2, <2>4
  <2> HIDE DEF g, T
  <2>14. FlattenRun(g, S, ss)
    BY <2>4, <2>8, <2>12, <2>13 DEF FlattenRun, n
  <2> QED
    BY <2>14
<1> QED
  BY <1>1, <1>2

-------------------------------------------------------------------------------
(* The lesser and the greater of two numbers. *)

LEMMA MinOfTwo ==
    ASSUME NEW a \in Int, NEW b \in Int
    PROVE  Min({a, b}) \in {a, b} /\ Min({a, b}) <= a /\ Min({a, b}) <= b
<1>1. \E x \in {a, b} : \A y \in {a, b} : x <= y
  OBVIOUS
<1>2. Min({a, b}) \in {a, b} /\ \A y \in {a, b} : Min({a, b}) <= y
  BY <1>1 DEF Min
<1> QED
  BY <1>2

LEMMA MaxOfTwo ==
    ASSUME NEW a \in Int, NEW b \in Int
    PROVE  Max({a, b}) \in {a, b} /\ a <= Max({a, b}) /\ b <= Max({a, b})
<1>1. \E x \in {a, b} : \A y \in {a, b} : x >= y
  OBVIOUS
<1>2. Max({a, b}) \in {a, b} /\ \A y \in {a, b} : Max({a, b}) >= y
  BY <1>1 DEF Max
<1> QED
  BY <1>2
===============================================================================
