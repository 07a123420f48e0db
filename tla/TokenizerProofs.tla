---------------------------- MODULE TokenizerProofs ----------------------------
(***************************************************************************)
(* Proofs about Tokenizer: what a model is worth whatever way it came      *)
(* about, what a batch of encodings looks like, that decoding undoes it,   *)
(* and that a tokenizer.json gives back the encoder it was written from.   *)
(***************************************************************************)
EXTENDS Tokenizer, SequenceLemmas

-------------------------------------------------------------------------------
(* Sums and byte lengths. *)

\* The sums of the beginnings of a sequence of numbers.
SumRun(g, n, f) ==
    /\ g \in [0..n -> Nat] /\ g[0] = 0 /\ Sum(f) = g[n]
    /\ \A k \in 1..n : g[k] = g[k - 1] + f[k]

LEMMA SumTrace ==
    ASSUME NEW n \in Nat, NEW f \in [1..n -> Nat]
    PROVE  \E g : SumRun(g, n, f)
<1> DEFINE H == [x \in (1..n) \X Nat |-> x[2] + f[x[1]]]
<1>1. H \in [(1..n) \X Nat -> Nat]
  OBVIOUS
<1>2. \E it \in [SUBSET (1..n) -> Nat] : FoldFcn(it, 0, H, n)
  <2> HIDE DEF H
  <2> QED
    BY <1>1, FoldExists
<1> DEFINE Step(it) == it = [s \in SUBSET (1..n) |->
                               IF s = {} THEN 0 ELSE it[s \ {Max(s)}] + f[Max(s)]]
<1> DEFINE it == CHOOSE it : Step(it)
<1>3. Step(it)
  <2>1. PICK g \in [SUBSET (1..n) -> Nat] : FoldFcn(g, 0, H, n)
    BY <1>2
  <2>2. ASSUME NEW s \in SUBSET (1..n)
        PROVE  g[s] = IF s = {} THEN 0 ELSE g[s \ {Max(s)}] + f[Max(s)]
    <3>1. s # {} => Max(s) \in 1..n
      BY MaxWithin
    <3>2. g[s] = IF s = {} THEN 0 ELSE H[<<Max(s), g[s \ {Max(s)}]>>]
      BY <2>1 DEF FoldFcn
    <3> QED
      BY <3>1, <3>2
  <2>3. Step(g)
    <3>1. g = [s \in SUBSET (1..n) |-> g[s]]
      OBVIOUS
    <3> QED
      BY <2>2, <3>1
  <2> HIDE DEF Step
  <2> QED
    BY <2>3
<1>4. Sum(f) = it[1..n]
  BY DEF Sum, FoldLeft, MapThenFoldSet
<1>5. it[1..0] = 0 /\ \A k \in 1..n : it[1..k] = it[1..(k - 1)] + f[k]
  <2>1. it[1..0] = 0
    <3> HIDE DEF it
    <3> QED
      BY <1>3
  <2>2. ASSUME NEW k \in 1..n PROVE it[1..k] = it[1..(k - 1)] + f[k]
    <3>1. k \in Nat \ {0} /\ 1..k \in SUBSET (1..n)
      OBVIOUS
    <3> HIDE DEF it
    <3>2. 1..k # {} /\ Max(1..k) = k /\ (1..k) \ {Max(1..k)} = 1..(k - 1)
      BY <3>1, IntervalMax
    <3> QED
      BY <1>3, <3>1, <3>2
  <2> HIDE DEF it
  <2> QED
    BY <2>1, <2>2
<1> HIDE DEF it
<1>6. Follows(it, Nat, n)
  BY <1>5 DEF Follows
<1>7. \A k \in 0..n : it[1..k] \in Nat
  BY <1>6, FoldWithin
<1> DEFINE g == [k \in 0..n |-> it[1..k]]
<1>8. g \in [0..n -> Nat] /\ \A k \in 0..n : g[k] = it[1..k]
  BY <1>7
<1>9. 0 \in 0..n /\ n \in 0..n /\ \A k \in 1..n : k \in 0..n /\ k - 1 \in 0..n
  OBVIOUS
<1> HIDE DEF g
<1>10. SumRun(g, n, f)
  BY <1>4, <1>5, <1>8, <1>9 DEF SumRun
<1> QED
  BY <1>10

\* The sum of natural numbers is one.
LEMMA SumNat ==
    ASSUME NEW n \in Nat, NEW f \in [1..n -> Nat]
    PROVE  Sum(f) \in Nat
<1>1. PICK g : SumRun(g, n, f)
  BY SumTrace
<1> QED
  BY <1>1 DEF SumRun

\* The bytes of a text.
LEMMA BytesNat == ASSUME NEW text \in Seq(DOMAIN Utf8) PROVE Bytes(text) \in Nat
<1> DEFINE n == Len(text)
           f == [k \in DOMAIN text |-> Len(Utf8[text[k]])]
<1>1. n \in Nat /\ DOMAIN text = 1..n /\ \A k \in 1..n : text[k] \in DOMAIN Utf8
  OBVIOUS
<1>2. \A k \in 1..n : Len(Utf8[text[k]]) \in Nat
  <2>1. \A c \in DOMAIN Utf8 : Len(Utf8[c]) \in Nat
    BY Utf8Assumption
  <2> QED
    BY <1>1, <2>1
<1>3. f \in [1..n -> Nat]
  BY <1>1, <1>2
<1>4. Sum(f) \in Nat
  <2> HIDE DEF n, f
  <2> QED
    BY <1>1, <1>3, SumNat
<1> QED
  BY <1>4 DEF Bytes

\* The offset of a pre-token, and that of the next one.
LEMMA OffsetNat ==
    ASSUME NEW text \in Seq(Seq(DOMAIN Utf8)), NEW k \in 1..(Len(text) + 1)
    PROVE  Offset(text, k) \in Nat
<1> DEFINE f == [j \in 1..(k - 1) |-> Bytes(text[j])]
<1>1. k - 1 \in Nat /\ \A j \in 1..(k - 1) : text[j] \in Seq(DOMAIN Utf8)
  OBVIOUS
<1>2. f \in [1..(k - 1) -> Nat]
  BY <1>1, BytesNat
<1>3. Sum(f) \in Nat
  <2> HIDE DEF f
  <2> QED
    BY <1>1, <1>2, SumNat
<1> QED
  BY <1>3 DEF Offset

-------------------------------------------------------------------------------
(* merge_word: the symbols of a word. *)

Symbols(ids) == [id : ids, len : Nat]

\* A token's id, or one that is not in the vocabulary.
LEMMA IdOrTyped ==
    ASSUME NEW v, NEW t, NEW else
    PROVE  IdOr(v, t, else) \in Ids(v) \cup {else}
BY DEF IdOr, Ids

\* What an unknown character is written as.
LEMMA UnknownTyped ==
    ASSUME NEW m, NEW c \in DOMAIN Utf8
    PROVE  Unknown(m, c) \in Seq(Symbols(Ids(m.vocab) \cup {None}))
<1> DEFINE S == Symbols(Ids(m.vocab) \cup {None})
<1>1. Len(Utf8[c]) \in Nat /\ DOMAIN Utf8[c] = 1..Len(Utf8[c])
  BY Utf8Assumption
<1>2. UnkId(m) \in Ids(m.vocab) \cup {None}
  BY IdOrTyped DEF UnkId
<1>3. \A id \in Ids(m.vocab) \cup {None}, n \in Nat : Symbol(id, n) \in S
  BY DEF Symbol, Symbols
<1>4. \A j : Symbol(IdOr(m.vocab, ByteToken(Utf8[c][j]), UnkId(m)), 1) \in S
  <2>1. \A j : IdOr(m.vocab, ByteToken(Utf8[c][j]), UnkId(m)) \in Ids(m.vocab) \cup {None}
    BY <1>2, IdOrTyped
  <2> HIDE DEF S
  <2> QED
    BY <1>3, <2>1
<1>5. ByteSymbols(m, c) \in Seq(S)
  <2> HIDE DEF S
  <2> QED
    BY <1>1, <1>4 DEF ByteSymbols
<1>6. <<Symbol(UnkId(m), Len(Utf8[c]))>> \in Seq(S)
  <2> HIDE DEF S
  <2> QED
    BY <1>1, <1>2, <1>3
<1> QED
  BY <1>5, <1>6 DEF Unknown

\* What merge_word's loop has written after some characters.
Written(ids) == [syms : Seq(Symbols(ids)), unk : BOOLEAN]

LEMMA AddTyped ==
    ASSUME NEW m, NEW text \in Seq(DOMAIN Utf8), NEW k \in 1..Len(text),
           NEW acc \in Written(Ids(m.vocab) \cup {None})
    PROVE  AddCharacter(m, text, acc, k) \in Written(Ids(m.vocab) \cup {None})
<1> DEFINE S == Symbols(Ids(m.vocab) \cup {None})
           key   == Key(m.opts, text, k)
           width == Len(Utf8[text[k]])
           known == key \in DOMAIN m.vocab
           fused == [acc.syms EXCEPT ![Len(acc.syms)].len = @ + width]
<1>1. text[k] \in DOMAIN Utf8
  OBVIOUS
<1>2. width \in Nat
  BY <1>1, Utf8Assumption
<1>3. acc.syms \in Seq(S)
  BY DEF Written
<1>4. known => Append(acc.syms, Symbol(m.vocab[key], width)) \in Seq(S)
  <2>1. known => Symbol(m.vocab[key], width) \in S
    BY <1>2 DEF Symbol, Symbols, Ids
  <2> HIDE DEF S, known
  <2> QED
    BY <1>3, <2>1
<1>5. fused \in Seq(S)
  <2>1. ASSUME NEW s \in S PROVE [s EXCEPT !.len = @ + width] \in S
    <3> HIDE DEF width
    <3>1. s.id \in Ids(m.vocab) \cup {None} /\ s.len + width \in Nat
      BY <1>2 DEF Symbols
    <3>2. [s EXCEPT !.len = @ + width] = [id |-> s.id, len |-> s.len + width]
      BY DEF Symbols
    <3> QED
      BY <3>1, <3>2 DEF Symbols
  <2> DEFINE q == acc.syms
             l == Len(acc.syms)
  <2>2. l \in Nat /\ q \in [1..l -> S]
    <3> HIDE DEF S
    <3> QED
      BY <1>3
  <2>3. l \in 1..l => [q[l] EXCEPT !.len = @ + width] \in S
    <3> HIDE DEF S, width, l, q
    <3> QED
      BY <2>1, <2>2
  <2>4. [q EXCEPT ![l] = [q[l] EXCEPT !.len = @ + width]] \in [1..l -> S]
    <3> HIDE DEF S, width, l, q
    <3> QED
      BY <2>2, <2>3
  <2> HIDE DEF S, width
  <2> QED
    BY <2>2, <2>4, SMTT(30)
<1>6. acc.syms \o Unknown(m, text[k]) \in Seq(S)
  <2>1. Unknown(m, text[k]) \in Seq(S)
    BY <1>1, UnknownTyped
  <2> HIDE DEF S
  <2> QED
    BY <1>3, <2>1
<1>7. EndsInUnk(m, known, acc.unk) \in BOOLEAN
  BY DEF EndsInUnk
<1> HIDE DEF S, fused, width
<1> QED
  BY <1>4, <1>5, <1>6, <1>7 DEF AddCharacter, Written, fused, width, S

\* The symbols after k characters.
ExpandRun(g, m, text) ==
    /\ g \in [0..Len(text) -> Written(Ids(m.vocab) \cup {None})]
    /\ g[0] = [syms |-> <<>>, unk |-> FALSE]
    /\ \A k \in 1..Len(text) : g[k] = AddCharacter(m, text, g[k - 1], k)
    /\ Expand(m, text) = g[Len(text)].syms

LEMMA ExpandTrace ==
    ASSUME NEW m, NEW text \in Seq(DOMAIN Utf8)
    PROVE  \E g : ExpandRun(g, m, text)
<1> DEFINE n == Len(text)
           V == Written(Ids(m.vocab) \cup {None})
           first == [syms |-> <<>>, unk |-> FALSE]
           H == [x \in (1..n) \X V |-> AddCharacter(m, text, x[2], x[1])]
           seq == [k \in DOMAIN text |-> k]
           Step(it) == it = [s \in SUBSET DOMAIN seq |->
                               IF s = {} THEN first
                               ELSE AddCharacter(m, text, it[s \ {Max(s)}], seq[Max(s)])]
           it == CHOOSE it : Step(it)
<1>1. n \in Nat /\ DOMAIN text = 1..n /\ DOMAIN seq = 1..n /\ \A k \in 1..n : seq[k] = k
  OBVIOUS
<1>2. first \in V
  BY DEF Written
<1>3. H \in [(1..n) \X V -> V]
  BY AddTyped
<1>4. \E g \in [SUBSET (1..n) -> V] : FoldFcn(g, first, H, n)
  <2> HIDE DEF H, V, first, n
  <2> QED
    BY <1>1, <1>2, <1>3, FoldExists
<1>5. Step(it)
  <2>1. PICK g \in [SUBSET (1..n) -> V] : FoldFcn(g, first, H, n)
    BY <1>4
  <2> HIDE DEF first, V
  <2>2. ASSUME NEW s \in SUBSET (1..n)
        PROVE  g[s] = IF s = {} THEN first
                      ELSE AddCharacter(m, text, g[s \ {Max(s)}], seq[Max(s)])
    <3>1. s # {} => Max(s) \in 1..n
      BY <1>1, MaxWithin
    <3>2. g[s] = IF s = {} THEN first ELSE H[<<Max(s), g[s \ {Max(s)}]>>]
      BY <2>1 DEF FoldFcn
    <3>3. g[s \ {Max(s)}] \in V
      OBVIOUS
    <3> QED
      BY <1>1, <3>1, <3>2, <3>3
  <2> HIDE DEF seq
  <2>3. Step(g)
    <3>1. g = [s \in SUBSET DOMAIN seq |-> g[s]]
      BY <1>1
    <3> QED
      BY <1>1, <2>2, <3>1
  <2> HIDE DEF Step
  <2> QED
    BY <2>3
<1>6. Expand(m, text) = it[DOMAIN seq].syms
  BY DEF Expand, FoldLeft, MapThenFoldSet
<1>7. it[1..0] = first /\ \A k \in 1..n : it[1..k] = AddCharacter(m, text, it[1..(k - 1)], k)
  <2> HIDE DEF it, seq, V, first
  <2>1. it[1..0] = first
    BY <1>1, <1>5
  <2>2. ASSUME NEW k \in 1..n PROVE it[1..k] = AddCharacter(m, text, it[1..(k - 1)], k)
    <3>1. k \in Nat \ {0} /\ 1..k \in SUBSET (1..n)
      OBVIOUS
    <3>2. 1..k # {} /\ Max(1..k) = k /\ (1..k) \ {Max(1..k)} = 1..(k - 1)
      BY <3>1, IntervalMax
    <3>3. it[1..k] = AddCharacter(m, text, it[(1..k) \ {Max(1..k)}], seq[Max(1..k)])
      BY <1>1, <1>5, <3>1, <3>2
    <3> HIDE DEF Step
    <3> QED
      BY <1>1, <3>2, <3>3
  <2> QED
    BY <2>1, <2>2
<1>8. \A k \in 0..n : it[1..k] \in V
  <2> HIDE DEF it, V
  <2>1. Follows(it, V, n)
    <3>1. \A k \in 1..n : it[1..(k - 1)] \in V => it[1..k] \in V
      <4> TAKE k \in 1..n
      <4> HAVE it[1..(k - 1)] \in V
      <4>1. it[1..k] = AddCharacter(m, text, it[1..(k - 1)], k)
        BY <1>7
      <4> HIDE DEF n
      <4> QED
        BY <4>1, AddTyped DEF V, n
    <3> QED
      BY <1>2, <1>7, <3>1 DEF Follows
  <2> QED
    BY <1>1, <2>1, FoldWithin
<1> DEFINE g == [k \in 0..n |-> it[1..k]]
<1>9. ExpandRun(g, m, text)
  <2> HIDE DEF it, seq, V, first, n
  <2>1. g \in [0..n -> V] /\ g[0] = first /\ \A k \in 0..n : g[k] = it[1..k]
    <3>1. 0 \in 0..n
      BY <1>1
    <3>2. g \in [0..n -> V] /\ \A k \in 0..n : g[k] = it[1..k]
      BY <1>8
    <3>3. g[0] = it[1..0]
      BY <3>1, <3>2
    <3> QED
      BY <1>7, <3>2, <3>3
  <2>2. \A k \in 1..n : k \in 0..n /\ k - 1 \in 0..n
    BY <1>1
  <2> HIDE DEF g
  <2>3. \A k \in 1..n : g[k] = AddCharacter(m, text, g[k - 1], k)
    BY <1>7, <2>1, <2>2
  <2>4. Expand(m, text) = g[n].syms
    BY <1>1, <1>6, <2>1
  <2> QED
    BY <2>1, <2>3, <2>4 DEF ExpandRun, n, V, first
<1> QED
  BY <1>9

\* The symbols of a text: ids of the vocabulary, or None where there is none to use.
LEMMA ExpandTyped ==
    ASSUME NEW m, NEW text \in Seq(DOMAIN Utf8)
    PROVE  Expand(m, text) \in Seq(Symbols(Ids(m.vocab) \cup {None}))
<1>1. PICK g : ExpandRun(g, m, text)
  BY ExpandTrace
<1>2. Len(text) \in 0..Len(text)
  OBVIOUS
<1> QED
  BY <1>1, <1>2 DEF ExpandRun, Written

-------------------------------------------------------------------------------
(* merge_all: the symbols after merging. *)

PairIn(syms, i) == <<syms[i].id, syms[i + 1].id>>

Points(syms, merges) == {i \in 1..(Len(syms) - 1) : PairIn(syms, i) \in DOMAIN merges}

Comes(syms, merges, i, j) ==
    \/ merges[PairIn(syms, i)].rank < merges[PairIn(syms, j)].rank
    \/ merges[PairIn(syms, i)].rank = merges[PairIn(syms, j)].rank /\ i <= j

First(syms, merges) ==
    CHOOSE i \in Points(syms, merges) :
       \A j \in Points(syms, merges) : Comes(syms, merges, i, j)

Joint(syms, merges, i) ==
    SubSeq(syms, 1, i - 1)
      \o <<Symbol(merges[PairIn(syms, i)].id, syms[i].len + syms[i + 1].len)>>
      \o SubSeq(syms, i + 2, Len(syms))

\* MergeOnce, with names for its parts.
LEMMA MergeOnceIs ==
    ASSUME NEW syms, NEW merges
    PROVE  MergeOnce(syms, merges) =
              IF Points(syms, merges) = {} THEN syms
              ELSE Joint(syms, merges, First(syms, merges))
BY DEF MergeOnce, Points, First, Comes, Joint, PairIn

\* There is a pair of lowest rank, and a leftmost one of that rank.
LEMMA FirstExists ==
    ASSUME NEW syms, Len(syms) \in Nat, NEW merges,
           \A p \in DOMAIN merges : merges[p].rank \in Nat,
           Points(syms, merges) # {}
    PROVE  /\ First(syms, merges) \in Points(syms, merges)
           /\ \A j \in Points(syms, merges) : Comes(syms, merges, First(syms, merges), j)
<1> DEFINE P == Points(syms, merges)
           rank(i) == merges[PairIn(syms, i)].rank
           Ranks == {rank(i) : i \in P}
<1>1. P \in SUBSET Nat /\ \A i \in P : rank(i) \in Nat
  BY DEF Points
<1>2. PICK r \in Ranks : \A q \in Ranks : r <= q
  <2>1. Ranks \in SUBSET Nat /\ Ranks # {}
    BY <1>1
  <2> HIDE DEF Ranks
  <2> QED
    BY <2>1, LeastNat
<1> DEFINE Lowest == {i \in P : rank(i) = r}
<1>3. PICK i \in Lowest : \A j \in Lowest : i <= j
  <2>1. Lowest \in SUBSET Nat /\ Lowest # {}
    BY <1>1
  <2> HIDE DEF Lowest
  <2> QED
    BY <2>1, LeastNat
<1>4. ASSUME NEW j \in P PROVE Comes(syms, merges, i, j)
  <2>1. rank(i) = r /\ r <= rank(j) /\ rank(j) \in Nat /\ r \in Nat
    BY <1>1, <1>2, <1>3
  <2>2. rank(j) = r => i <= j
    BY <1>3
  <2> QED
    BY <2>1, <2>2 DEF Comes
<1> HIDE DEF P
<1>5. i \in P
  BY <1>3
<1> QED
  BY <1>4, <1>5 DEF First, P

\* A merge leaves symbols with ids of the vocabulary.
LEMMA MergeOnceTyped ==
    ASSUME NEW ids, NEW merges,
           \A p \in DOMAIN merges : merges[p].rank \in Nat /\ merges[p].id \in ids,
           NEW syms \in Seq(Symbols(ids))
    PROVE  MergeOnce(syms, merges) \in Seq(Symbols(ids))
<1> DEFINE S == Symbols(ids)
<1>1. CASE Points(syms, merges) = {}
  BY <1>1, MergeOnceIs
<1>2. CASE Points(syms, merges) # {}
  <2> DEFINE i == First(syms, merges)
             n == Len(syms)
  <2>1. n \in Nat /\ \A k \in 1..n : syms[k] \in S
    OBVIOUS
  <2>2. i \in 1..(n - 1) /\ PairIn(syms, i) \in DOMAIN merges
    <3>1. i \in Points(syms, merges)
      BY <1>2, <2>1, FirstExists
    <3> HIDE DEF i
    <3> QED
      BY <3>1 DEF Points
  <2> HIDE DEF i, S
  <2>3. syms[i] \in S /\ syms[i + 1] \in S
    BY <2>1, <2>2
  <2>4. Symbol(merges[PairIn(syms, i)].id, syms[i].len + syms[i + 1].len) \in S
    BY <2>2, <2>3 DEF Symbol, Symbols, S
  <2>5. SubSeq(syms, 1, i - 1) \in Seq(S)
    BY <2>2 DEF S
  <2>6. SubSeq(syms, i + 2, n) \in Seq(S)
    BY <2>2 DEF S
  <2>7. Joint(syms, merges, i) \in Seq(S)
    BY <2>4, <2>5, <2>6 DEF Joint
  <2> QED
    BY <1>2, <2>7, MergeOnceIs DEF i, S
<1> QED
  BY <1>1, <1>2

\* The symbols after k merges.
MergeTrace(f, syms, merges) ==
    f[0] = syms /\ \A k \in 1..Len(syms) : f[k] = MergeOnce(f[k - 1], merges)

\* So does merge_all, which merges once for each symbol.
LEMMA MergeAllTrace ==
    ASSUME NEW m, NEW ids,
           \A p \in DOMAIN m.merges : m.merges[p].rank \in Nat /\ m.merges[p].id \in ids,
           NEW syms \in Seq(Symbols(ids))
    PROVE  \E f : /\ MergeTrace(f, syms, m.merges)
                  /\ \A k \in 0..Len(syms) : f[k] \in Seq(Symbols(ids))
                  /\ MergeAll(m, syms) =
                        IF m.opts.dropout = "all" THEN syms ELSE f[Len(syms)]
<1> DEFINE n == Len(syms)
           V == Seq(Symbols(ids))
           H == [x \in (1..n) \X V |-> MergeOnce(x[2], m.merges)]
           seq == [k \in DOMAIN syms |-> k]
           Step(it) == it = [s \in SUBSET DOMAIN seq |->
                               IF s = {} THEN syms
                               ELSE MergeOnce(it[s \ {Max(s)}], m.merges)]
           it == CHOOSE it : Step(it)
<1>1. n \in Nat /\ DOMAIN seq = 1..n
  OBVIOUS
<1>2. \A s \in V : MergeOnce(s, m.merges) \in V
  BY MergeOnceTyped
<1>3. H \in [(1..n) \X V -> V]
  <2> HIDE DEF V
  <2> QED
    BY <1>2
<1>4. \E g \in [SUBSET (1..n) -> V] : FoldFcn(g, syms, H, n)
  <2>1. syms \in V
    OBVIOUS
  <2> HIDE DEF H, V, n
  <2> QED
    BY <1>1, <1>3, <2>1, FoldExists
<1>5. Step(it)
  <2> HIDE DEF V
  <2>1. PICK g \in [SUBSET (1..n) -> V] : FoldFcn(g, syms, H, n)
    BY <1>4
  <2>2. ASSUME NEW s \in SUBSET (1..n)
        PROVE  g[s] = IF s = {} THEN syms ELSE MergeOnce(g[s \ {Max(s)}], m.merges)
    <3>1. s # {} => Max(s) \in 1..n
      BY <1>1, MaxWithin
    <3>2. g[s] = IF s = {} THEN syms ELSE H[<<Max(s), g[s \ {Max(s)}]>>]
      BY <2>1 DEF FoldFcn
    <3>3. g[s \ {Max(s)}] \in V
      OBVIOUS
    <3> QED
      BY <3>1, <3>2, <3>3
  <2> HIDE DEF seq
  <2>3. Step(g)
    <3>1. g = [s \in SUBSET DOMAIN seq |-> g[s]]
      BY <1>1
    <3> QED
      BY <1>1, <2>2, <3>1
  <2> HIDE DEF Step
  <2> QED
    BY <2>3
<1>6. MergeAll(m, syms) = IF m.opts.dropout = "all" THEN syms ELSE it[DOMAIN seq]
  BY DEF MergeAll, FoldLeft, MapThenFoldSet
<1> HIDE DEF V
<1>7. it[1..0] = syms /\ \A k \in 1..n : it[1..k] = MergeOnce(it[1..(k - 1)], m.merges)
  <2> HIDE DEF it, seq
  <2>1. it[1..0] = syms
    BY <1>1, <1>5
  <2>2. ASSUME NEW k \in 1..n
        PROVE  it[1..k] = MergeOnce(it[1..(k - 1)], m.merges)
    <3>1. k \in Nat \ {0} /\ 1..k \in SUBSET (1..n)
      OBVIOUS
    <3>2. 1..k # {} /\ Max(1..k) = k /\ (1..k) \ {Max(1..k)} = 1..(k - 1)
      BY <3>1, IntervalMax
    <3>3. it[1..k] = MergeOnce(it[(1..k) \ {Max(1..k)}], m.merges)
      BY <1>1, <1>5, <3>1, <3>2
    <3> HIDE DEF Step
    <3> QED
      BY <3>2, <3>3
  <2> QED
    BY <2>1, <2>2
<1>8. \A k \in 0..n : it[1..k] \in V
  <2>1. syms \in V
    BY DEF V
  <2> HIDE DEF it
  <2>2. Follows(it, V, n)
    BY <1>2, <1>7, <2>1 DEF Follows
  <2> QED
    BY <1>1, <2>2, FoldWithin
<1> HIDE DEF it, seq
<1> DEFINE f == [k \in 0..n |-> it[1..k]]
<1>9. f[0] = syms /\ f[n] = it[1..n] /\ \A k \in 0..n : f[k] = it[1..k]
  BY <1>1, <1>7
<1>10. \A k \in 1..n : k \in 0..n /\ k - 1 \in 0..n
  BY <1>1
<1> HIDE DEF f
<1>11. MergeTrace(f, syms, m.merges)
  BY <1>7, <1>9, <1>10 DEF MergeTrace
<1> QED
  BY <1>1, <1>6, <1>8, <1>9, <1>11 DEF V

LEMMA MergeAllTyped ==
    ASSUME NEW m, NEW ids,
           \A p \in DOMAIN m.merges : m.merges[p].rank \in Nat /\ m.merges[p].id \in ids,
           NEW syms \in Seq(Symbols(ids))
    PROVE  MergeAll(m, syms) \in Seq(Symbols(ids))
<1>1. PICK f : /\ \A k \in 0..Len(syms) : f[k] \in Seq(Symbols(ids))
               /\ MergeAll(m, syms) = IF m.opts.dropout = "all" THEN syms ELSE f[Len(syms)]
  BY MergeAllTrace
<1>2. Len(syms) \in 0..Len(syms)
  OBVIOUS
<1> QED
  BY <1>1, <1>2

-------------------------------------------------------------------------------
(* BPE::tokenize: the tokens of a text. *)

Tokens(values) ==
    {t \in [id : Nat, value : values, first : Nat, last : Nat] : t.first <= t.last}

\* vocab_r has a token for each id of the vocabulary.
LEMMA TokenOfTyped ==
    ASSUME NEW v, NEW id \in Ids(v)
    PROVE  TokenOf(v, id) \in DOMAIN v /\ v[TokenOf(v, id)] = id
<1>1. \E t \in DOMAIN v : v[t] = id
  BY DEF Ids
<1> QED
  BY <1>1 DEF TokenOf

LEMMA WordToTokensTyped ==
    ASSUME NEW m, IsVocab(m.vocab), NEW syms \in Seq(Symbols(Ids(m.vocab)))
    PROVE  WordToTokens(m, syms) \in Seq(Tokens(DOMAIN m.vocab))
<1> DEFINE n == Len(syms)
           first(k) == Sum([j \in 1..(k - 1) |-> syms[j].len])
           token(k) == [id |-> syms[k].id, value |-> TokenOf(m.vocab, syms[k].id),
                        first |-> first(k), last |-> first(k) + syms[k].len]
<1>1. n \in Nat /\ \A k \in 1..n : syms[k].id \in Ids(m.vocab) /\ syms[k].len \in Nat
  <2>1. n \in Nat /\ \A k \in 1..n : syms[k] \in Symbols(Ids(m.vocab))
    OBVIOUS
  <2> HIDE DEF n
  <2> QED
    BY <2>1 DEF Symbols
<1>2. ASSUME NEW k \in 1..n PROVE token(k) \in Tokens(DOMAIN m.vocab)
  <2>1. first(k) \in Nat
    <3> DEFINE f == [j \in 1..(k - 1) |-> syms[j].len]
    <3>1. k - 1 \in Nat /\ f \in [1..(k - 1) -> Nat]
      BY <1>1
    <3> HIDE DEF f
    <3> QED
      BY <3>1, SumNat DEF f
  <2>2. syms[k].id \in Nat
    BY <1>1 DEF Ids, IsVocab
  <2>3. TokenOf(m.vocab, syms[k].id) \in DOMAIN m.vocab
    BY <1>1, TokenOfTyped
  <2>4. first(k) + syms[k].len \in Nat /\ first(k) <= first(k) + syms[k].len
    <3> HIDE DEF first
    <3> QED
      BY <1>1, <2>1
  <2> HIDE DEF first
  <2> QED
    BY <2>1, <2>2, <2>3, <2>4 DEF Tokens
<1>3. WordToTokens(m, syms) = [k \in 1..n |-> token(k)]
  BY DEF WordToTokens
<1> HIDE DEF token, n
<1> QED
  BY <1>1, <1>2, <1>3

\* If merge_word succeeds, each symbol has an id of the vocabulary.
LEMMA ExpandComplete ==
    ASSUME NEW m, NEW text \in Seq(DOMAIN Utf8), ~Incomplete(Expand(m, text))
    PROVE  Expand(m, text) \in Seq(Symbols(Ids(m.vocab)))
<1> DEFINE syms == Expand(m, text)
<1>1. ~Incomplete(syms) => syms \in Seq(Symbols(Ids(m.vocab)))
  <2> DEFINE n == Len(syms)
             Some == Symbols(Ids(m.vocab) \cup {None})
             All == Symbols(Ids(m.vocab))
  <2>1. syms \in Seq(Some)
    BY ExpandTyped
  <2>2. n \in Nat /\ DOMAIN syms = 1..n /\ syms = [k \in 1..n |-> syms[k]]
        /\ \A k \in 1..n : syms[k] \in Some
    <3> HIDE DEF syms, Some
    <3> QED
      BY <2>1
  <2>3. \A s \in Some : s.id # None => s \in All
    BY DEF Symbols
  <2> HIDE DEF syms, Some, All, n
  <2>4. ~Incomplete(syms) => \A k \in 1..n : syms[k] \in All
    BY <2>2, <2>3 DEF Incomplete
  <2>5. ~Incomplete(syms) => syms \in Seq(All)
    BY <2>2, <2>4
  <2> QED
    BY <2>5 DEF All
<1> QED
  BY <1>1

LEMMA TokenizeTyped ==
    ASSUME NEW m, IsModel(m), IsSound(m), NEW text \in Seq(DOMAIN Utf8)
    PROVE  Tokenize(m, text) \in Seq(Tokens(DOMAIN m.vocab))
<1> DEFINE syms == Expand(m, text)
           whole == m.opts.ignore /\ text \in DOMAIN m.vocab
           T == Tokens(DOMAIN m.vocab)
<1>1. text \in DOMAIN m.vocab => <<Whole(m, text)>> \in Seq(T)
  <2>1. ASSUME text \in DOMAIN m.vocab PROVE Whole(m, text) \in T
    <3>1. Bytes(text) \in Nat /\ m.vocab[text] \in Nat
      BY <2>1, BytesNat DEF IsModel, IsVocab
    <3> QED
      BY <2>1, <3>1 DEF Whole, Tokens
  <2> HIDE DEF T
  <2> QED
    BY <2>1
<1>2. ~Incomplete(syms) => syms \in Seq(Symbols(Ids(m.vocab)))
  BY ExpandComplete
<1>3. ASSUME syms \in Seq(Symbols(Ids(m.vocab)))
      PROVE  WordToTokens(m, MergeAll(m, syms)) \in Seq(T)
  <2>1. \A p \in DOMAIN m.merges : m.merges[p].rank \in Nat /\ m.merges[p].id \in Ids(m.vocab)
    BY DEF IsModel, IsSound
  <2> HIDE DEF syms
  <2>2. MergeAll(m, syms) \in Seq(Symbols(Ids(m.vocab)))
    BY <1>3, <2>1, MergeAllTyped
  <2> QED
    BY <2>2, WordToTokensTyped DEF IsModel
<1>4. <<>> \in Seq(T)
  OBVIOUS
<1> HIDE DEF T
<1>5. Tokenize(m, text) =
        IF text = <<>> THEN <<>>
        ELSE IF whole THEN <<Whole(m, text)>>
        ELSE IF Incomplete(syms) THEN <<>>
        ELSE WordToTokens(m, MergeAll(m, syms))
  BY DEF Tokenize
<1> HIDE DEF syms
<1> QED
  BY <1>1, <1>2, <1>3, <1>4, <1>5 DEF T

-------------------------------------------------------------------------------
(* encode_batch: rows of tokens. *)

\* A token moved to the place of its pre-token is one.
LEMMA ShiftTyped ==
    ASSUME NEW values, NEW found \in Seq(Tokens(values)), NEW offset \in Nat
    PROVE  [i \in DOMAIN found |-> [found[i] EXCEPT !.first = @ + offset, !.last = @ + offset]]
              \in Seq(Tokens(values))
<1> DEFINE n == Len(found)
<1>1. n \in Nat /\ DOMAIN found = 1..n /\ \A i \in 1..n : found[i] \in Tokens(values)
  OBVIOUS
<1>2. ASSUME NEW t \in Tokens(values)
      PROVE  [t EXCEPT !.first = @ + offset, !.last = @ + offset] \in Tokens(values)
  <2>1. t.id \in Nat /\ t.value \in values /\ t.first + offset \in Nat /\ t.last + offset \in Nat
        /\ t.first + offset <= t.last + offset
    BY DEF Tokens
  <2>2. [t EXCEPT !.first = @ + offset, !.last = @ + offset] =
          [id |-> t.id, value |-> t.value, first |-> t.first + offset, last |-> t.last + offset]
    <3>1. t \in [id : Nat, value : values, first : Nat, last : Nat]
      BY DEF Tokens
    <3> DEFINE u == [t EXCEPT !.first = t.first + offset]
    <3>2. u = [id |-> t.id, value |-> t.value, first |-> t.first + offset, last |-> t.last]
      BY <3>1
    <3>3. [u EXCEPT !.last = t.last + offset] =
            [id |-> t.id, value |-> t.value, first |-> t.first + offset, last |-> t.last + offset]
      <4> HIDE DEF u
      <4> QED
        BY <3>2
    <3>4. [t EXCEPT !.first = @ + offset, !.last = @ + offset] = [u EXCEPT !.last = t.last + offset]
      OBVIOUS
    <3> QED
      BY <3>3, <3>4
  <2> QED
    BY <2>1, <2>2 DEF Tokens
<1> DEFINE moved(t) == [t EXCEPT !.first = @ + offset, !.last = @ + offset]
           T == Tokens(values)
<1>3. [i \in 1..n |-> moved(found[i])] \in Seq(T)
  <2>1. \A i \in 1..n : moved(found[i]) \in T
    BY <1>1, <1>2
  <2> HIDE DEF n, moved, T
  <2> QED
    BY <1>1, <2>1
<1> HIDE DEF n
<1> QED
  BY <1>1, <1>3

LEMMA TokensOfTyped ==
    ASSUME NEW m, IsModel(m), IsSound(m), NEW text \in Seq(Seq(DOMAIN Utf8))
    PROVE  TokensOf(m, text) \in Seq(Tokens(DOMAIN m.vocab))
<1> DEFINE n == Len(text)
           T == Tokens(DOMAIN m.vocab)
           moved(k) == LET found == Tokenize(m, text[k])
                       IN [i \in DOMAIN found |-> [found[i] EXCEPT !.first = @ + Offset(text, k),
                                                                   !.last  = @ + Offset(text, k)]]
<1>1. n \in Nat /\ DOMAIN text = 1..n /\ \A k \in 1..n : text[k] \in Seq(DOMAIN Utf8)
  OBVIOUS
<1>2. ASSUME NEW k \in 1..n PROVE moved(k) \in Seq(T)
  <2>1. Tokenize(m, text[k]) \in Seq(T)
    BY <1>1, TokenizeTyped
  <2>2. k \in 1..(n + 1)
    BY <1>1
  <2>3. Offset(text, k) \in Nat
    BY <2>2, OffsetNat
  <2> QED
    BY <2>1, <2>3, ShiftTyped
<1>3. TokensOf(m, text) = FlattenSeq([k \in 1..n |-> moved(k)])
  BY <1>1 DEF TokensOf
<1> HIDE DEF moved, n, T
<1>4. [k \in 1..n |-> moved(k)] \in Seq(Seq(T))
  BY <1>1, <1>2
<1>5. FlattenSeq([k \in 1..n |-> moved(k)]) \in Seq(T)
  BY <1>4, FlattenTyped
<1> QED
  BY <1>3, <1>5 DEF T

LEMMA TruncatedTyped ==
    ASSUME NEW T, NEW tokens \in Seq(T), NEW trunc,
           trunc # None /\ trunc.max # None => trunc.max \in Nat
    PROVE  /\ Truncated(tokens, trunc) \in Seq(T)
           /\ trunc # None /\ trunc.max # None => Len(Truncated(tokens, trunc)) <= trunc.max
<1>1. CASE trunc = None \/ trunc.max = None
  BY <1>1 DEF Truncated
<1>2. CASE trunc # None /\ trunc.max # None
  <2> DEFINE n == Len(tokens)
             max == trunc.max
  <2>1. n \in Nat /\ max \in Nat
    BY <1>2
  <2>2. CASE n <= max
    BY <2>2 DEF Truncated
  <2>3. CASE ~(n <= max)
    <3>1. SubSeq(tokens, 1, max) \in Seq(T) /\ Len(SubSeq(tokens, 1, max)) = max
      BY <2>1, <2>3
    <3>2. /\ SubSeq(tokens, n - max + 1, n) \in Seq(T)
          /\ Len(SubSeq(tokens, n - max + 1, n)) = max
      BY <2>1, <2>3
    <3>3. Truncated(tokens, trunc) =
            IF trunc.fromEnd THEN SubSeq(tokens, n - max + 1, n) ELSE SubSeq(tokens, 1, max)
      BY <1>2, <2>3 DEF Truncated
    <3> HIDE DEF n, max
    <3> QED
      BY <2>1, <3>1, <3>2, <3>3 DEF max
  <2> QED
    BY <2>2, <2>3
<1> QED
  BY <1>1, <1>2

\* The tokens a text has on its own.
LEMMA RowTyped ==
    ASSUME AreRowOptions(tok), HasBpe => IsModel(tok.model) /\ IsSound(tok.model),
           tok.model # Foreign, NEW text \in Seq(Seq(DOMAIN Utf8))
    PROVE  /\ Row(text) = RowOf(Row(text).tokens)
           /\ \E values : Row(text).tokens \in Seq(Tokens(values))
           /\ tok.trunc # None /\ tok.trunc.max # None => Len(Row(text).tokens) <= tok.trunc.max
<1>1. CASE tok.model = None
  <2> DEFINE own == <<>>
  <2>1. Row(text) = RowOf(own) /\ Row(text).tokens = own
    BY <1>1 DEF Row, RowOf
  <2>2. own \in Seq(Tokens({})) /\ Len(own) = 0
    OBVIOUS
  <2>3. tok.trunc # None /\ tok.trunc.max # None => Len(own) <= tok.trunc.max
    BY <2>2 DEF AreRowOptions
  <2> HIDE DEF own
  <2> QED
    BY <2>1, <2>2, <2>3
<1>2. CASE tok.model # None
  <2> DEFINE T == Tokens(DOMAIN tok.model.vocab)
             own == Truncated(TokensOf(tok.model, text), tok.trunc)
  <2>1. Row(text) = RowOf(own) /\ Row(text).tokens = own
    BY <1>2 DEF Row, RowOf
  <2>2. TokensOf(tok.model, text) \in Seq(T)
    BY <1>2, TokensOfTyped DEF HasBpe
  <2>3. own \in Seq(T) /\ (tok.trunc # None /\ tok.trunc.max # None => Len(own) <= tok.trunc.max)
    <3> HIDE DEF T
    <3> QED
      BY <2>2, TruncatedTyped DEF AreRowOptions
  <2> QED
    BY <2>1, <2>3
<1> QED
  BY <1>1, <1>2

-------------------------------------------------------------------------------
(* Models that are built from a vocabulary and a list of merges. *)

\* The vocabulary has one token per id, and vocab_r has it.
LEMMA TokenOfVocab ==
    ASSUME NEW v, IsVocab(v), NEW t \in DOMAIN v
    PROVE  v[t] \in Ids(v) /\ TokenOf(v, v[t]) = t
<1>1. v[t] \in Ids(v)
  BY DEF Ids
<1> QED
  BY <1>1, TokenOfTyped DEF IsVocab

\* A merge of the table comes from the last of its lines in the list.
LEMMA MergeMapFacts ==
    ASSUME NEW v, NEW list, IsList(list), NEW p \in DOMAIN MergeMap(v, list)
    PROVE  \E k \in DOMAIN list :
              /\ k - 1 \in Nat /\ Usable(v, list[k]) /\ PairOf(v, list[k]) = p
              /\ MergeMap(v, list)[p] = [rank |-> k - 1, id |-> v[MergedText(list[k])]]
<1> DEFINE n    == Len(list)
           used == {k \in DOMAIN list : Usable(v, list[k])}
           mine == {k \in used : PairOf(v, list[k]) = p}
<1>1. n \in Nat /\ DOMAIN list = 1..n
  BY DEF IsList
<1>2. p \in {PairOf(v, list[k]) : k \in used}
  BY DEF MergeMap
<1>3. MergeMap(v, list)[p] = [rank |-> Max(mine) - 1, id |-> v[MergedText(list[Max(mine)])]]
  BY <1>2 DEF MergeMap
<1>4. mine \in SUBSET (1..n) /\ mine # {}
  <2> HIDE DEF n
  <2> QED
    BY <1>1, <1>2
<1>5. Max(mine) \in mine /\ Max(mine) \in 1..n
  <2> HIDE DEF mine, n
  <2> QED
    BY <1>1, <1>4, MaxWithin
<1>6. Max(mine) - 1 \in Nat
  <2> HIDE DEF mine
  <2> QED
    BY <1>1, <1>5
<1>7. Usable(v, list[Max(mine)]) /\ PairOf(v, list[Max(mine)]) = p
  <2> DEFINE k == Max(mine)
  <2>1. k \in mine
    BY <1>5
  <2> HIDE DEF k
  <2> QED
    BY <2>1 DEF k
<1> HIDE DEF mine, used
<1> QED
  BY <1>1, <1>3, <1>5, <1>6, <1>7

LEMMA MergeMapFinite ==
    ASSUME NEW v, IsVocab(v), NEW list, IsList(list)
    PROVE  /\ IsFiniteSet(DOMAIN MergeMap(v, list))
           /\ DOMAIN MergeMap(v, list) \subseteq Nat \X Nat
<1> DEFINE n    == Len(list)
           used == {k \in DOMAIN list : Usable(v, list[k])}
<1>1. n \in Nat /\ DOMAIN list = 1..n
  BY DEF IsList
<1>2. DOMAIN MergeMap(v, list) = {PairOf(v, list[k]) : k \in used}
  BY DEF MergeMap
<1>3. IsFiniteSet(used)
  <2>1. IsFiniteSet(1..n)
    BY <1>1, FS_Interval
  <2>2. used \subseteq 1..n
    BY <1>1
  <2> QED
    BY <2>1, <2>2, FS_Subset
<1>4. IsFiniteSet({PairOf(v, list[k]) : k \in used})
  <2> DEFINE f == [k \in used |-> PairOf(v, list[k])]
             S == {PairOf(v, list[k]) : k \in used}
  <2>1. f \in Surjection(used, S)
    BY DEF Surjection
  <2> HIDE DEF used, f, S
  <2>2. IsFiniteSet(S)
    BY <1>3, <2>1, FS_Surjection
  <2> QED
    BY <2>2 DEF S
<1>5. \A k \in used : PairOf(v, list[k]) \in Nat \X Nat
  BY DEF PairOf, Usable, IsVocab
<1> QED
  BY <1>2, <1>4, <1>5

\* build(): the merges of the table join tokens of the vocabulary into tokens of it.
LEMMA BuiltSound ==
    ASSUME NEW v, IsVocab(v), NEW list, IsList(list),
           NEW opts, DOMAIN opts = DOMAIN NoOptions, opts.dropout # "bad"
    PROVE  LET m == [vocab |-> v, merges |-> MergeMap(v, list), opts |-> opts]
           IN IsModel(m) /\ IsSound(m)
<1> DEFINE table == MergeMap(v, list)
           m == [vocab |-> v, merges |-> table, opts |-> opts]
<1>1. ASSUME NEW p \in DOMAIN table
      PROVE  /\ table[p].rank \in Nat /\ {p[1], p[2], table[p].id} \subseteq Ids(v)
             /\ TokenOf(v, table[p].id) \in Joined(m, p)
             /\ \A q \in DOMAIN table : table[q].rank = table[p].rank => p = q
  <2>1. PICK k \in DOMAIN list :
           /\ k - 1 \in Nat /\ Usable(v, list[k]) /\ PairOf(v, list[k]) = p
           /\ table[p] = [rank |-> k - 1, id |-> v[MergedText(list[k])]]
    <3> HIDE DEF m
    <3> QED
      BY MergeMapFacts
  <2> HIDE DEF table
  <2>2. /\ list[k][1] \in DOMAIN v /\ list[k][2] \in DOMAIN v /\ MergedText(list[k]) \in DOMAIN v
        /\ p[1] = v[list[k][1]] /\ p[2] = v[list[k][2]]
        /\ table[p].rank = k - 1 /\ table[p].id = v[MergedText(list[k])]
    BY <2>1 DEF Usable, PairOf
  <2>3. {p[1], p[2], table[p].id} \subseteq Ids(v)
    BY <2>2, TokenOfVocab
  <2>4. /\ TokenOf(v, p[1]) = list[k][1] /\ TokenOf(v, p[2]) = list[k][2]
        /\ TokenOf(v, table[p].id) = MergedText(list[k])
    BY <2>2, TokenOfVocab
  <2>5. TokenOf(v, table[p].id) \in Joined(m, p)
    BY <2>4 DEF Joined, MergedText
  <2>6. ASSUME NEW q \in DOMAIN table, table[q].rank = table[p].rank PROVE p = q
    <3>1. PICK l \in DOMAIN list :
             /\ l - 1 \in Nat /\ Usable(v, list[l]) /\ PairOf(v, list[l]) = q
             /\ table[q] = [rank |-> l - 1, id |-> v[MergedText(list[l])]]
      BY MergeMapFacts DEF table
    <3>2. l - 1 = k - 1 /\ l \in Int /\ k \in Int
      BY <2>1, <2>2, <2>6, <3>1 DEF IsList
    <3>3. l = k
      BY <3>2
    <3> QED
      BY <2>1, <3>1, <3>3
  <2> QED
    BY <2>1, <2>2, <2>3, <2>5, <2>6
<1>2. IsFiniteSet(DOMAIN table) /\ DOMAIN table \subseteq Nat \X Nat
  BY MergeMapFinite
<1> HIDE DEF table
<1>3. IsModel(m)
  BY <1>1, <1>2 DEF IsModel
<1>4. IsSound(m)
  BY <1>1 DEF IsSound
<1> QED
  BY <1>3, <1>4 DEF table

\* What is a sequence of anything is a list.
LEMMA SeqIsList == ASSUME NEW S, NEW s \in Seq(S) PROVE IsList(s)
<1> DEFINE n == Len(s)
<1>1. n \in Nat /\ DOMAIN s = 1..n /\ s = [k \in 1..n |-> s[k]]
  OBVIOUS
<1>2. \A k \in 1..n : s[k] \in ToSet(s)
  BY <1>1 DEF ToSet
<1> DEFINE T == ToSet(s)
<1>3. s \in Seq(T)
  <2> HIDE DEF n, T
  <2> QED
    BY <1>1, <1>2 DEF T
<1> QED
  BY <1>3 DEF IsList

\* The lines of merges.txt without the comments are a list.
LEMMA ReadMergesTyped ==
    ASSUME NEW lines, IsList(lines)
    PROVE  IsList(ReadMerges(lines))
<1> DEFINE n == Len(lines)
           V == Seq(ToSet(lines))
           add(read, mr) == IF mr[1][1] = "#" THEN read ELSE Append(read, mr)
           H == [x \in (1..n) \X V |-> add(x[2], lines[x[1]])]
           Step(it) == it = [s \in SUBSET DOMAIN lines |->
                               IF s = {} THEN <<>>
                               ELSE add(it[s \ {Max(s)}], lines[Max(s)])]
           it == CHOOSE it : Step(it)
<1>1. n \in Nat /\ DOMAIN lines = 1..n
  BY DEF IsList
<1>2. <<>> \in V
  OBVIOUS
<1>3. \A k \in 1..n, read \in V : add(read, lines[k]) \in V
  <2>1. \A k \in 1..n : lines[k] \in ToSet(lines)
    BY <1>1 DEF ToSet
  <2> QED
    BY <2>1
<1> HIDE DEF add, V
<1>4. H \in [(1..n) \X V -> V]
  BY <1>3
<1>5. \E g \in [SUBSET (1..n) -> V] : FoldFcn(g, <<>>, H, n)
  <2> HIDE DEF H, n
  <2> QED
    BY <1>1, <1>2, <1>4, FoldExists
<1>6. Step(it)
  <2>1. PICK g \in [SUBSET (1..n) -> V] : FoldFcn(g, <<>>, H, n)
    BY <1>5
  <2>2. ASSUME NEW s \in SUBSET (1..n)
        PROVE  g[s] = IF s = {} THEN <<>> ELSE add(g[s \ {Max(s)}], lines[Max(s)])
    <3>1. s # {} => Max(s) \in 1..n
      BY <1>1, MaxWithin
    <3>2. g[s] = IF s = {} THEN <<>> ELSE H[<<Max(s), g[s \ {Max(s)}]>>]
      BY <2>1 DEF FoldFcn
    <3>3. g[s \ {Max(s)}] \in V
      OBVIOUS
    <3> QED
      BY <3>1, <3>2, <3>3
  <2>3. Step(g)
    <3>1. g = [s \in SUBSET DOMAIN lines |-> g[s]]
      BY <1>1
    <3> QED
      BY <1>1, <2>2, <3>1
  <2> HIDE DEF Step
  <2> QED
    BY <2>3
<1>7. ReadMerges(lines) = it[DOMAIN lines]
  BY DEF ReadMerges, FoldLeft, MapThenFoldSet, add
<1>8. Follows(it, V, n)
  <2> HIDE DEF it
  <2>1. it[1..0] = <<>>
    BY <1>1, <1>6
  <2>2. ASSUME NEW k \in 1..n, it[1..(k - 1)] \in V
        PROVE  it[1..k] \in V
    <3>1. k \in Nat \ {0} /\ 1..k \in SUBSET (1..n)
      OBVIOUS
    <3>2. 1..k # {} /\ Max(1..k) = k /\ (1..k) \ {Max(1..k)} = 1..(k - 1)
      BY <3>1, IntervalMax
    <3>3. it[1..k] = add(it[(1..k) \ {Max(1..k)}], lines[Max(1..k)])
      BY <1>1, <1>6, <3>1, <3>2
    <3> HIDE DEF Step
    <3> QED
      BY <1>3, <2>2, <3>2, <3>3
  <2> QED
    BY <1>2, <2>1, <2>2 DEF Follows
<1>9. it[1..n] \in V
  <2> HIDE DEF it
  <2>1. \A k \in 0..n : it[1..k] \in V
    BY <1>1, <1>8, FoldWithin
  <2> QED
    BY <1>1, <2>1
<1> HIDE DEF it
<1> QED
  BY <1>1, <1>7, <1>9, SeqIsList DEF V

\* What merges_list returns is a list.
LEMMA MergesListTyped ==
    ASSUME NEW m, IsFiniteSet(DOMAIN m.merges)
    PROVE  IsList(MergesList(m))
<1> DEFINE known == {p \in DOMAIN m.merges : {p[1], p[2]} \subseteq Ids(m.vocab)}
           n == Cardinality(known)
           before(p) == {q \in known : ListedBefore(m, q, p)}
           listed(k) == CHOOSE p \in known : Cardinality(before(p)) = k - 1
           line(k) == <<TokenOf(m.vocab, listed(k)[1]), TokenOf(m.vocab, listed(k)[2])>>
           S == {line(k) : k \in 1..n}
<1>1. n \in Nat
  <2>1. IsFiniteSet(known)
    BY FS_Subset
  <2> QED
    BY <2>1, FS_CardinalityType
<1>2. MergesList(m) = [k \in 1..n |-> line(k)]
  BY DEF MergesList
<1> HIDE DEF n, line
<1>3. [k \in 1..n |-> line(k)] \in Seq(S)
  BY <1>1
<1> QED
  BY <1>2, <1>3, SeqIsList

-------------------------------------------------------------------------------
(* Bytes and the characters that stand for them. *)

\* The bytes of a text of some characters.
LEMMA RawBytesTyped ==
    ASSUME NEW C, NEW B, \A c \in C : Utf8[c] \in Seq(B), NEW piece \in Seq(C)
    PROVE  RawBytes(piece) \in Seq(B)
<1> DEFINE s == [k \in DOMAIN piece |-> Utf8[piece[k]]]
<1>1. Len(piece) \in Nat /\ DOMAIN piece = 1..Len(piece) /\ \A k \in 1..Len(piece) : piece[k] \in C
  OBVIOUS
<1>2. \A k \in 1..Len(piece) : Utf8[piece[k]] \in Seq(B)
  BY <1>1
<1>3. s \in [1..Len(piece) -> Seq(B)]
  BY <1>1, <1>2
<1>4. s \in Seq(Seq(B))
  BY <1>1, <1>3
<1> HIDE DEF s
<1>5. FlattenSeq(s) \in Seq(B)
  BY <1>4, FlattenTyped
<1> QED
  BY <1>5 DEF RawBytes, s

\* The byte table has the bytes of a text.
LEMMA TextBytes ==
    ASSUME NEW piece \in Seq(TextChars)
    PROVE  /\ piece \in Seq(DOMAIN Utf8) /\ RawBytes(piece) \in Seq(DOMAIN ByteChar)
<1>1. ASSUME NEW c \in TextChars PROVE Utf8[c] \in Seq(DOMAIN ByteChar)
  <2> DEFINE D == DOMAIN ByteChar
             u == Utf8[c]
             R == ToSet(u)
  <2>1. u \in Seq(R) /\ R \subseteq D
    BY Utf8Assumption DEF TextChars
  <2> HIDE DEF D, u, R
  <2>2. u \in Seq(D)
    BY <2>1
  <2> QED
    BY <2>2 DEF u, D
<1>2. RawBytes(piece) \in Seq(DOMAIN ByteChar)
  BY <1>1, RawBytesTyped
<1>3. TextChars \subseteq DOMAIN Utf8
  BY DEF TextChars
<1> HIDE DEF TextChars
<1>4. piece \in Seq(DOMAIN Utf8)
  BY <1>3
<1> QED
  BY <1>2, <1>4

\* The characters a ByteLevel writes are characters.
LEMMA MappedTyped ==
    ASSUME NEW piece \in Seq(TextChars)
    PROVE  Mapped(piece) \in Seq(DOMAIN Utf8)
<1> DEFINE bytes == RawBytes(piece)
<1>1. bytes \in Seq(DOMAIN ByteChar)
  BY TextBytes
<1>2. Mapped(piece) = [k \in DOMAIN bytes |-> ByteChar[bytes[k]]]
  BY DEF Mapped
<1> HIDE DEF bytes
<1>3. Len(bytes) \in Nat /\ DOMAIN bytes = 1..Len(bytes)
      /\ \A k \in 1..Len(bytes) : bytes[k] \in DOMAIN ByteChar
  BY <1>1
<1>4. \A k \in 1..Len(bytes) : ByteChar[bytes[k]] \in DOMAIN Utf8
  BY <1>3, ByteCharAssumption
<1> QED
  BY <1>2, <1>3, <1>4

\* A batch, as its pre-tokens.
LEMMA PreTokenizedTyped ==
    ASSUME NEW pre, NEW raws \in Batches
    PROVE  /\ PreTokenized(pre, raws) \in Seq(Seq(Seq(DOMAIN Utf8)))
           /\ DOMAIN PreTokenized(pre, raws) = DOMAIN raws
<1> DEFINE n == Len(raws)
           C == TextChars
           U == DOMAIN Utf8
<1>1. raws \in Seq(Seq(Seq(C)))
  BY TextAssumption
<1>2. \A piece \in Seq(C) : piece \in Seq(U) /\ Mapped(piece) \in Seq(U)
  BY TextBytes, MappedTyped
<1> HIDE DEF C, U
<1>3. n \in Nat /\ DOMAIN raws = 1..n
      /\ \A k \in 1..n : raws[k] \in Seq(Seq(C)) /\ Len(raws[k]) \in Nat /\ DOMAIN raws[k] = 1..Len(raws[k])
  BY <1>1
<1>4. \A k \in 1..n : \A j \in 1..Len(raws[k]) : raws[k][j] \in Seq(C)
  BY <1>3
<1>5. CASE Levels(pre) = {}
  <2>1. \A k \in 1..n : raws[k] \in Seq(Seq(U))
    <3> TAKE k \in 1..n
    <3> DEFINE f == raws[k]
               l == Len(raws[k])
    <3>1. \A j \in 1..l : f[j] \in Seq(U)
      BY <1>2, <1>4
    <3>2. l \in Nat /\ f \in Seq(Seq(C)) /\ DOMAIN f = 1..l /\ l = Len(f)
      BY <1>3
    <3> HIDE DEF f, l
    <3>3. f \in Seq(Seq(U))
      BY <3>1, <3>2
    <3> QED
      BY <3>3 DEF f
  <2>2. raws \in Seq(Seq(Seq(U)))
    BY <1>1, <1>3, <2>1
  <2> QED
    BY <1>5, <2>2 DEF PreTokenized, U
<1>6. CASE Levels(pre) # {}
  <2> DEFINE mapped(k) == [j \in DOMAIN raws[k] |-> Mapped(raws[k][j])]
             all == [k \in DOMAIN raws |-> mapped(k)]
  <2>1. PreTokenized(pre, raws) = all
    BY <1>6 DEF PreTokenized
  <2>2. \A k \in 1..n : mapped(k) \in Seq(Seq(U))
    <3> TAKE k \in 1..n
    <3>1. \A j \in 1..Len(raws[k]) : Mapped(raws[k][j]) \in Seq(U)
      BY <1>2, <1>4
    <3>2. mapped(k) \in [1..Len(raws[k]) -> Seq(U)]
      BY <1>3, <3>1
    <3> DEFINE f == mapped(k)
               l == Len(raws[k])
    <3>3. f \in [1..l -> Seq(U)] /\ l \in Nat
      BY <1>3, <3>2
    <3> HIDE DEF f, l
    <3>4. f \in Seq(Seq(U))
      BY <3>3
    <3> QED
      BY <3>4 DEF f
  <2> HIDE DEF mapped
  <2>3. all \in [1..n -> Seq(Seq(U))]
    BY <1>3, <2>2
  <2> HIDE DEF all
  <2>4. all \in Seq(Seq(Seq(U))) /\ DOMAIN all = 1..n
    BY <1>3, <2>3
  <2> QED
    BY <1>3, <2>1, <2>4 DEF U
<1> QED
  BY <1>5, <1>6

-------------------------------------------------------------------------------
(* The invariant. *)

\* A model of the library, or none of its own.
IsSoundModel(m) == m \notin {None, Foreign} => IsModel(m) /\ IsSound(m)

\* A complete tokenizer.json has what to_file writes of the model it was saved from.
JsonOfSource ==
    json \notin {None, Torn} => json.model = SavedModel(source) /\ IsSoundModel(source)

\* The rows a tokenizer has for a batch.
RowsOf(t, texts) ==
    [k \in DOMAIN texts |->
       IF t.model = None THEN RowOf(<<>>)
       ELSE RowOf(Truncated(TokensOf(t.model, texts[k]), t.trunc))]

\* Nothing has changed since the last answer.
LastIsCurrent ==
    /\ last.op \in {"none", "load", "encode", "decode"}
    /\ last.op = "load" => json \notin {None, Torn} /\ tok.model = LoadedModel(json.model)
    /\ last.op = "encode" =>
          /\ tok.model # Foreign
          /\ last.raws \in Batches /\ last.texts = PreTokenized(tok.pre, last.raws)
          /\ last.rows = Padded(RowsOf(tok, last.texts), tok.pad)

TInv ==
    /\ IsBuilder(builder) /\ IsTokenizer(tok) /\ AreFiles(files)
    /\ IsSoundModel(tok.model)
    /\ JsonOfSource
    /\ LastIsCurrent

LEMMA TInit == ASSUME Init PROVE TInv
<1>1. PICK s \in Starts : builder = s.builder /\ tok = s.tok /\ files = s.files
  BY DEF Init
<1>2. IsBuilder(builder) /\ IsTokenizer(tok) /\ AreFiles(files) /\ IsSoundModel(tok.model)
  BY <1>1, StartAssumption DEF IsTokenizer, IsSoundModel
<1>3. json = None /\ last.op = "none"
  BY DEF Init, NoAnswer
<1>4. JsonOfSource /\ LastIsCurrent
  BY <1>3 DEF JsonOfSource, LastIsCurrent
<1> QED
  BY <1>2, <1>4 DEF TInv

\* An action that leaves tokenizer.json and gives no answer.
LEMMA KeepsJson ==
    ASSUME TInv, json' = json, source' = source, last' = NoAnswer
    PROVE  JsonOfSource' /\ LastIsCurrent'
<1>1. JsonOfSource'
  BY DEF TInv, JsonOfSource
<1>2. last'.op = "none"
  BY DEF NoAnswer
<1>3. LastIsCurrent'
  BY <1>2 DEF LastIsCurrent
<1> QED
  BY <1>1, <1>3

\* What build() takes, from the files or from the builder.
LEMMA GivenTyped ==
    ASSUME TInv
    PROVE  IsList(ListGiven) /\ (CanBuild => IsVocab(VocabGiven))
<1>1. IsList(<<>>)
  <2>1. <<>> \in Seq({})
    OBVIOUS
  <2> QED
    BY <2>1, SeqIsList
<1>2. IsList(ListGiven)
  BY <1>1, ReadMergesTyped DEF ListGiven, TInv, IsBuilder, AreFiles
<1>3. CanBuild => IsVocab(VocabGiven)
  BY DEF CanBuild, VocabGiven, TInv, IsBuilder, AreFiles
<1> QED
  BY <1>2, <1>3

\* A builder that build() has emptied may be used again.
LEMMA SpentTyped == ASSUME TInv PROVE IsBuilder(Spent) /\ IsBuilder(SpentOptions)
<1>1. IsList(ListGiven)
  BY GivenTyped
<1>2. IsVocab(<<>>)
  BY DEF IsVocab
<1>3. DOMAIN builder = {"vocab", "merges", "opts", "files"} /\ DOMAIN builder.opts = DOMAIN NoOptions
  BY DEF TInv, IsBuilder
<1>4. /\ DOMAIN Spent = DOMAIN builder /\ Spent.vocab = <<>> /\ Spent.merges = ListGiven
      /\ Spent.opts = builder.opts
  BY <1>3 DEF Spent
<1>5. IsBuilder(Spent)
  BY <1>1, <1>2, <1>3, <1>4 DEF IsBuilder
<1>6. /\ DOMAIN SpentOptions = DOMAIN Spent /\ SpentOptions.vocab = Spent.vocab
      /\ SpentOptions.merges = Spent.merges /\ DOMAIN SpentOptions.opts = DOMAIN Spent.opts
  BY <1>3, <1>4 DEF SpentOptions
<1>7. IsBuilder(SpentOptions)
  BY <1>5, <1>6 DEF IsBuilder
<1> QED
  BY <1>5, <1>7

LEMMA BuildTyped == ASSUME TInv, Build PROVE IsTokenizer(tok') /\ IsSoundModel(tok'.model)
<1>1. IsModel(BuiltModel) /\ IsSound(BuiltModel)
  <2>1. IsVocab(VocabGiven) /\ IsList(ListGiven)
    BY GivenTyped DEF Build, Buildable
  <2>2. DOMAIN builder.opts = DOMAIN NoOptions /\ builder.opts.dropout # "bad"
    BY DEF TInv, IsBuilder, Build
  <2> QED
    BY <2>1, <2>2, BuiltSound DEF BuiltModel
<1>2. DOMAIN tok = DOMAIN Fresh /\ AreRowOptions(tok)
  BY DEF TInv, IsTokenizer
<1>3. /\ DOMAIN tok' = DOMAIN tok /\ tok'.model = BuiltModel
      /\ tok'.trunc = tok.trunc /\ tok'.pad = tok.pad
  BY <1>2 DEF Build, Fresh
<1> QED
  BY <1>1, <1>2, <1>3 DEF IsTokenizer, IsSoundModel, AreRowOptions

LEMMA TrainTyped ==
    ASSUME TInv, NEW r \in Trained, Train(r)
    PROVE  IsTokenizer(tok') /\ IsSoundModel(tok'.model)
<1> DEFINE m == [vocab |-> r.vocab, merges |-> r.merges,
                 opts |-> [NoOptions EXCEPT !.prefix = r.prefix]]
           old == tok.model
           new == tok'.model
<1>1. IsModel(m) /\ IsSound(m)
  BY TrainedAssumption
<1>2. DOMAIN tok = DOMAIN Fresh /\ AreRowOptions(tok) /\ IsModel(old)
  BY DEF TInv, IsSoundModel, IsTokenizer, Train, HasBpe
<1>3. /\ DOMAIN tok' = DOMAIN tok /\ tok'.trunc = tok.trunc /\ tok'.pad = tok.pad
      /\ new = [old EXCEPT !.vocab = r.vocab, !.merges = r.merges,
                           !.opts.prefix = r.prefix, !.opts.suffix = r.suffix]
  BY <1>2 DEF Train, Fresh
<1>4. /\ DOMAIN new = DOMAIN old /\ new.vocab = r.vocab /\ new.merges = r.merges
      /\ new.opts = [old.opts EXCEPT !.prefix = r.prefix, !.suffix = r.suffix]
  <2> HIDE DEF new, old
  <2> QED
    BY <1>2, <1>3 DEF IsModel
<1>5. /\ DOMAIN new.opts = DOMAIN NoOptions /\ new.opts.prefix = r.prefix
      /\ new.opts.dropout # "bad"
  <2>1. DOMAIN old.opts = DOMAIN NoOptions /\ old.opts.dropout # "bad"
    BY <1>2 DEF IsModel
  <2> HIDE DEF new, old
  <2> QED
    BY <1>4, <2>1 DEF NoOptions
<1>6. m.vocab = r.vocab /\ m.merges = r.merges /\ m.opts.prefix = r.prefix
  BY DEF NoOptions
<1> HIDE DEF new, old, m
<1>7. IsModel(new)
  BY <1>1, <1>2, <1>4, <1>5, <1>6 DEF IsModel
<1>8. \A p : Joined(new, p) = Joined(m, p)
  BY <1>4, <1>5, <1>6 DEF Joined
<1>9. IsSound(new)
  BY <1>1, <1>4, <1>6, <1>8 DEF IsSound
<1> QED
  BY <1>2, <1>3, <1>7, <1>9 DEF IsTokenizer, IsSoundModel, AreRowOptions, new

\* A model that is read from a file was built from what the file has.
LEMMA LoadedSound ==
    ASSUME NEW m, IsSoundModel(m), SavedModel(m) # None
    PROVE  IsModel(LoadedModel(SavedModel(m))) /\ IsSound(LoadedModel(SavedModel(m)))
<1> DEFINE saved == SavedModel(m)
<1>1. IsVocab(saved.vocab) /\ IsList(saved.list)
      /\ DOMAIN saved.opts = DOMAIN NoOptions /\ saved.opts.dropout # "bad"
  <2>1. CASE m = Foreign
    <3>1. saved.vocab = <<>> /\ saved.list = <<>> /\ saved.opts = NoOptions
      BY <2>1 DEF SavedModel
    <3>2. <<>> \in Seq({}) /\ IsVocab(<<>>)
      BY DEF IsVocab
    <3>3. IsList(<<>>)
      BY <3>2, SeqIsList
    <3>4. NoOptions.dropout # "bad"
      BY DEF NoOptions
    <3> QED
      BY <3>1, <3>2, <3>3, <3>4
  <2>2. CASE m # Foreign
    <3>1. m # None
      BY <2>2 DEF SavedModel
    <3>2. saved.vocab = m.vocab /\ saved.list = MergesList(m)
          /\ saved.opts = [m.opts EXCEPT !.dropout = "none"]
      BY <2>2, <3>1 DEF SavedModel
    <3>3. IsVocab(m.vocab) /\ IsFiniteSet(DOMAIN m.merges) /\ DOMAIN m.opts = DOMAIN NoOptions
      BY <2>2, <3>1 DEF IsSoundModel, IsModel
    <3>4. DOMAIN saved.opts = DOMAIN NoOptions /\ saved.opts.dropout # "bad"
      BY <3>2, <3>3 DEF NoOptions
    <3> QED
      BY <3>2, <3>3, <3>4, MergesListTyped
  <2> QED
    BY <2>1, <2>2
<1>2. LoadedModel(saved) =
        [vocab |-> saved.vocab, merges |-> MergeMap(saved.vocab, saved.list), opts |-> saved.opts]
  BY DEF LoadedModel
<1> HIDE DEF saved
<1> QED
  BY <1>1, <1>2, BuiltSound DEF saved

LEMMA LoadTyped == ASSUME TInv, LoadJson PROVE IsTokenizer(tok') /\ IsSoundModel(tok'.model)
<1>1. json \notin {None, Torn} /\ json.model = SavedModel(source) /\ IsSoundModel(source)
  BY DEF TInv, JsonOfSource, LoadJson, Loadable
<1>2. /\ DOMAIN tok' = DOMAIN Fresh /\ tok'.model = LoadedModel(json.model)
      /\ tok'.trunc = None /\ tok'.pad = None
  BY DEF LoadJson, Loaded, Fresh
<1>3. AreRowOptions(tok')
  BY <1>2 DEF AreRowOptions
<1>4. tok'.model \notin {None, Foreign} => IsModel(tok'.model) /\ IsSound(tok'.model)
  <2>1. CASE json.model = None
    BY <1>2, <2>1 DEF LoadedModel
  <2>2. CASE json.model # None
    BY <1>1, <1>2, <2>2, LoadedSound
  <2> QED
    BY <2>1, <2>2
<1> QED
  BY <1>2, <1>3, <1>4 DEF IsTokenizer, IsSoundModel

\* Every step keeps the invariant.
LEMMA TNext == ASSUME TInv, [Next]_vars PROVE TInv'
<1>1. ASSUME NEW in \in Inputs, VocabAndMerges(in) PROVE TInv'
  <2>1. DOMAIN builder' = DOMAIN builder /\ builder'.vocab = in.vocab
        /\ builder'.merges = in.merges /\ builder'.opts = builder.opts
    BY <1>1 DEF TInv, IsBuilder, VocabAndMerges
  <2>2. IsBuilder(builder')
    BY <2>1, InputAssumption DEF TInv, IsBuilder
  <2>3. JsonOfSource' /\ LastIsCurrent'
    BY <1>1, KeepsJson DEF VocabAndMerges
  <2> QED
    BY <1>1, <2>2, <2>3 DEF TInv, VocabAndMerges
<1>2. CASE BuildHalfRead
  <2>1. DOMAIN builder' = DOMAIN builder /\ builder'.vocab = files.vocab
        /\ builder'.merges = builder.merges /\ builder'.opts = builder.opts
    BY <1>2 DEF TInv, IsBuilder, BuildHalfRead
  <2>2. IsBuilder(builder')
    BY <1>2, <2>1 DEF TInv, IsBuilder, AreFiles, BuildHalfRead
  <2>3. JsonOfSource' /\ LastIsCurrent'
    BY <1>2, KeepsJson DEF BuildHalfRead
  <2> QED
    BY <1>2, <2>2, <2>3 DEF TInv, BuildHalfRead
<1>3. CASE BuildSkipped
  <2>1. JsonOfSource' /\ LastIsCurrent'
    BY <1>3, KeepsJson DEF BuildSkipped
  <2> QED
    BY <1>3, <2>1, SpentTyped DEF TInv, BuildSkipped
<1>4. CASE BuildRejected
  <2>1. JsonOfSource' /\ LastIsCurrent'
    BY <1>4, KeepsJson DEF BuildRejected
  <2> QED
    BY <1>4, <2>1, SpentTyped DEF TInv, BuildRejected
<1>5. CASE Build
  <2>1. JsonOfSource' /\ LastIsCurrent'
    BY <1>5, KeepsJson DEF Build
  <2>2. IsTokenizer(tok') /\ IsSoundModel(tok'.model)
    BY <1>5, BuildTyped
  <2>3. builder' = SpentOptions /\ files' = files
    BY <1>5 DEF Build
  <2> QED
    BY <2>1, <2>2, <2>3, SpentTyped DEF TInv
<1>6. ASSUME NEW r \in Trained, Train(r) PROVE TInv'
  <2>1. JsonOfSource' /\ LastIsCurrent'
    BY <1>6, KeepsJson DEF Train
  <2>2. IsTokenizer(tok') /\ IsSoundModel(tok'.model)
    BY <1>6, TrainTyped
  <2>3. builder' = builder /\ files' = files
    BY <1>6 DEF Train
  <2> QED
    BY <2>1, <2>2, <2>3 DEF TInv
<1>7. CASE SaveJson
  <2>1. last'.op = "none" /\ source' = tok.model /\ UNCHANGED <<builder, tok, files>>
    BY <1>7 DEF SaveJson, NoAnswer
  <2>2. LastIsCurrent'
    BY <2>1 DEF LastIsCurrent
  <2>3. json' # Torn => json' = Saved(tok)
    BY <1>7 DEF SaveJson
  <2>4. Saved(tok).model = SavedModel(tok.model)
    BY DEF Saved
  <2>5. JsonOfSource'
    BY <2>1, <2>3, <2>4 DEF TInv, JsonOfSource
  <2> QED
    BY <2>1, <2>2, <2>5 DEF TInv
<1>8. CASE LoadJson
  <2>1. /\ last'.op = "load" /\ json \notin {None, Torn} /\ tok'.model = LoadedModel(json.model)
        /\ UNCHANGED <<builder, json, files, source>>
    BY <1>8 DEF LoadJson, Loadable, Loaded, Fresh
  <2>2. LastIsCurrent' /\ JsonOfSource'
    BY <2>1 DEF TInv, LastIsCurrent, JsonOfSource
  <2>3. IsTokenizer(tok') /\ IsSoundModel(tok'.model)
    BY <1>8, LoadTyped
  <2> QED
    BY <2>1, <2>2, <2>3 DEF TInv
<1>9. CASE SavePair
  <2>1. PICK v \in {tok.model.vocab, Torn}, m \in {<<>>, files.merges} :
           files' = [vocab |-> v, merges |-> m]
    BY <1>9 DEF SavePair
  <2>2. IsVocab(tok.model.vocab)
    BY <1>9 DEF SavePair, HasBpe, TInv, IsSoundModel, IsModel
  <2>3. IsList(<<>>)
    <3>1. <<>> \in Seq({})
      OBVIOUS
    <3> QED
      BY <3>1, SeqIsList
  <2>4. AreFiles(files')
    BY <2>1, <2>2, <2>3 DEF TInv, AreFiles
  <2>5. JsonOfSource' /\ LastIsCurrent'
    BY <1>9, KeepsJson DEF SavePair
  <2> QED
    BY <1>9, <2>4, <2>5 DEF TInv, SavePair
<1>10. ASSUME NEW r \in RowOptions, SetRowOptions(r) PROVE TInv'
  <2>1. /\ DOMAIN tok' = DOMAIN tok /\ tok'.model = tok.model
        /\ tok'.trunc = r.trunc /\ tok'.pad = r.pad
    BY <1>10 DEF TInv, IsTokenizer, SetRowOptions, Fresh
  <2>2. AreRowOptions(tok')
    BY <2>1, RowAssumption DEF AreRowOptions
  <2>3. IsTokenizer(tok') /\ IsSoundModel(tok'.model)
    BY <2>1, <2>2 DEF TInv, IsTokenizer, IsSoundModel
  <2>4. JsonOfSource' /\ LastIsCurrent'
    BY <1>10, KeepsJson DEF SetRowOptions
  <2> QED
    BY <1>10, <2>3, <2>4 DEF TInv, SetRowOptions
<1>11. ASSUME NEW raws \in Batches, EncodeBatch(raws) PROVE TInv'
  <2> DEFINE texts == PreTokenized(tok.pre, raws)
  <2>1. UNCHANGED <<builder, tok, json, files, source>> /\ tok.model # Foreign
    BY <1>11 DEF EncodeBatch
  <2>2. /\ last'.op = "encode" /\ last'.raws = raws /\ last'.texts = texts
        /\ last'.rows = Padded([k \in DOMAIN texts |-> Row(texts[k])], tok.pad)
    BY <1>11 DEF EncodeBatch
  <2>3. [k \in DOMAIN texts |-> Row(texts[k])] = RowsOf(tok, texts)
    BY DEF Row, RowsOf
  <2>4. /\ last'.texts = PreTokenized(tok'.pre, last'.raws)
        /\ last'.rows = Padded(RowsOf(tok', last'.texts), tok'.pad)
    BY <2>1, <2>2, <2>3
  <2>5. LastIsCurrent'
    BY <2>1, <2>2, <2>4 DEF LastIsCurrent
  <2>6. JsonOfSource'
    BY <2>1 DEF TInv, JsonOfSource
  <2> QED
    BY <2>1, <2>5, <2>6 DEF TInv
<1>12. ASSUME NEW k \in 1..2, NEW skip \in BOOLEAN, Decode(k, skip) PROVE TInv'
  <2>1. last'.op = "decode" /\ UNCHANGED <<builder, tok, json, files, source>>
    BY <1>12 DEF Decode
  <2>2. LastIsCurrent' /\ JsonOfSource'
    BY <2>1 DEF TInv, LastIsCurrent, JsonOfSource
  <2> QED
    BY <2>1, <2>2 DEF TInv
<1>13. CASE UNCHANGED vars
  <2>1. UNCHANGED <<builder, tok, json, files, source, last>>
    BY <1>13 DEF vars
  <2>2. JsonOfSource'
    BY <2>1 DEF TInv, JsonOfSource
  <2>3. LastIsCurrent'
    BY <2>1 DEF TInv, LastIsCurrent
  <2> QED
    BY <2>1, <2>2, <2>3 DEF TInv
<1> QED
  BY <1>1, <1>2, <1>3, <1>4, <1>5, <1>6, <1>7, <1>8, <1>9, <1>10, <1>11, <1>12, <1>13 DEF Next

THEOREM Invariant == Spec => []TInv
BY TInit, TNext, PTL DEF Spec

\* SoundModels: whatever way a model came about - built, trained, loaded, from a pair of
\* files of different age, from a builder that was used before - its merges join tokens of
\* its vocabulary into tokens of it, each with a rank of its own.
THEOREM ModelsStaySound == Spec => []SoundModels
<1>1. TInv => SoundModels
  BY DEF TInv, IsSoundModel, SoundModels, HasBpe
<1> QED
  BY <1>1, Invariant, PTL

-------------------------------------------------------------------------------
(* apply_padding. *)

\* Numbers with a place each have an upper bound.
LEMMA UpperBound ==
    ASSUME NEW n \in Nat, NEW f \in [1..n -> Nat]
    PROVE  \E hi \in Nat : \A i \in 1..n : f[i] <= hi
<1> DEFINE T == {k \in 0..n : \E hi \in Nat : \A i \in 1..k : f[i] <= hi}
<1>1. 0 \in T
  <2>1. 0 \in Nat /\ 0 \in 0..n /\ 1..0 = {}
    OBVIOUS
  <2> QED
    BY <2>1
<1>2. ASSUME NEW k \in 1..n, k - 1 \in T PROVE k \in T
  <2>1. PICK hi \in Nat : \A i \in 1..(k - 1) : f[i] <= hi
    BY <1>2
  <2>2. f[k] \in Nat /\ k \in 0..n
    OBVIOUS
  <2>3. PICK top \in Nat : hi <= top /\ f[k] <= top
    <3>1. hi <= hi + f[k] /\ f[k] <= hi + f[k] /\ hi + f[k] \in Nat
      BY <2>2
    <3> QED
      BY <3>1
  <2>4. ASSUME NEW i \in 1..k PROVE f[i] <= top
    <3>1. i = k \/ i \in 1..(k - 1)
      OBVIOUS
    <3>2. i \in 1..n
      OBVIOUS
    <3>3. f[i] \in Nat
      BY <3>2
    <3> QED
      BY <2>1, <2>3, <3>1, <3>3
  <2> QED
    BY <2>2, <2>4
<1>3. n \in T
  <2> HIDE DEF T
  <2>1. \A k \in 0..n : k \in T
    BY <1>1, <1>2, InductUpto
  <2> QED
    BY <2>1
<1> QED
  BY <1>3

\* The rows are padded to a length none exceeds, or to the one that is asked for.
LEMMA TargetFacts ==
    ASSUME NEW rows, NEW n \in Nat, DOMAIN rows = 1..n,
           \A k \in 1..n : Len(rows[k].tokens) \in Nat,
           NEW pad, pad.max # None => pad.max \in Nat
    PROVE  /\ Target(rows, pad) \in Nat
           /\ pad.max = None => \A k \in 1..n : Len(rows[k].tokens) <= Target(rows, pad)
<1> DEFINE f == [k \in 1..n |-> Len(rows[k].tokens)]
           lens == {0} \cup {Len(rows[k].tokens) : k \in DOMAIN rows}
<1>1. PICK hi \in Nat : \A k \in 1..n : f[k] <= hi
  <2>1. f \in [1..n -> Nat]
    OBVIOUS
  <2> HIDE DEF f
  <2> QED
    BY <2>1, UpperBound
<1>2. lens \in SUBSET Nat /\ lens # {} /\ (\A x \in lens : x <= hi)
  BY <1>1
<1>3. \A k \in 1..n : Len(rows[k].tokens) \in lens
  OBVIOUS
<1>4. Target(rows, pad) = IF pad.max # None THEN pad.max ELSE Max(lens)
  BY DEF Target
<1> HIDE DEF lens
<1>5. Max(lens) \in lens /\ \A y \in lens : y <= Max(lens)
  <2>1. lens \in SUBSET Int /\ hi \in Int
    BY <1>2
  <2> QED
    BY <1>2, <2>1, MaxFacts
<1> QED
  BY <1>2, <1>3, <1>4, <1>5

\* A row with and without padding.
LEMMA PaddedRow ==
    ASSUME NEW values, NEW own \in Seq(Tokens(values)), NEW target \in Nat,
           NEW pad, pad.id \in Nat
    PROVE  LET missing == 1..(target - Len(own))
               tokens  == own \o [j \in missing |-> PadToken(pad)]
               mask    == RowOf(own).mask \o [j \in missing |-> 0]
           IN /\ Len(tokens) = (IF Len(own) < target THEN target ELSE Len(own))
              /\ Len(mask) = Len(tokens)
              /\ \A i \in DOMAIN mask : mask[i] = IF i <= Len(own) THEN 1 ELSE 0
              /\ SubSeq(tokens, 1, Len(own)) = own
              /\ \A i \in DOMAIN tokens : IsToken(tokens[i])
<1> DEFINE n == Len(own)
           missing == 1..(target - n)
           more == IF n < target THEN target - n ELSE 0
           padding == [j \in missing |-> PadToken(pad)]
           ones == [k \in DOMAIN own |-> 1]
           zeros == [j \in missing |-> 0]
<1>1. n \in Nat /\ more \in Nat /\ missing = 1..more /\ DOMAIN own = 1..n
      /\ n + more = (IF n < target THEN target ELSE n)
  OBVIOUS
<1>2. \A i \in 1..n : own[i] \in Tokens(values)
  OBVIOUS
<1> HIDE DEF n, more, missing
<1>3. padding \in Seq({PadToken(pad)}) /\ Len(padding) = more
  BY <1>1
<1>4. ones \in Seq({1}) /\ Len(ones) = n /\ zeros \in Seq({0}) /\ Len(zeros) = more
  BY <1>1
<1> DEFINE tokens == own \o padding
           mask == ones \o zeros
<1>5. /\ Len(tokens) = n + more /\ DOMAIN tokens = 1..(n + more)
      /\ \A i \in 1..n : tokens[i] = own[i]
      /\ \A i \in (n + 1)..(n + more) : tokens[i] = PadToken(pad)
  <2> DEFINE A == Tokens(values) \cup {PadToken(pad)}
  <2>1. own \in Seq(A) /\ padding \in Seq(A)
    <3>1. PadToken(pad) \in A /\ \A i \in 1..n : own[i] \in A
      BY <1>2
    <3> HIDE DEF A
    <3>2. own = [i \in 1..n |-> own[i]]
      BY <1>1
    <3>3. own \in Seq(A)
      BY <1>1, <3>1, <3>2
    <3>4. padding \in Seq(A)
      BY <1>1, <3>1
    <3> QED
      BY <3>3, <3>4
  <2>2. \A i \in 1..more : padding[i] = PadToken(pad)
    BY <1>1
  <2> HIDE DEF A, padding
  <2>3. /\ Len(tokens) = n + more
        /\ \A i \in 1..(n + more) : tokens[i] = IF i <= n THEN own[i] ELSE padding[i - n]
        /\ tokens \in Seq(A)
    BY <1>1, <1>3, <2>1, ConcatProperties DEF n
  <2>4. DOMAIN tokens = 1..(n + more)
    <3> HIDE DEF tokens
    <3> QED
      BY <1>1, <2>3
  <2>5. \A i \in (n + 1)..(n + more) : i - n \in 1..more /\ ~(i <= n) /\ i \in 1..(n + more)
    BY <1>1
  <2> HIDE DEF tokens
  <2>6. ASSUME NEW i \in (n + 1)..(n + more) PROVE tokens[i] = PadToken(pad)
    <3>1. tokens[i] = padding[i - n]
      BY <2>3, <2>5
    <3> QED
      BY <2>2, <2>5, <3>1
  <2>7. \A i \in 1..n : tokens[i] = own[i]
    <3>1. \A i \in 1..n : i <= n /\ i \in 1..(n + more)
      BY <1>1
    <3> QED
      BY <2>3, <3>1
  <2> QED
    BY <2>3, <2>4, <2>6, <2>7
<1>6. /\ Len(mask) = n + more /\ DOMAIN mask = 1..(n + more)
      /\ \A i \in 1..(n + more) : mask[i] = IF i <= n THEN 1 ELSE 0
  <2>1. ones \in Seq({0, 1}) /\ zeros \in Seq({0, 1})
    BY <1>1
  <2>2. (\A i \in 1..n : ones[i] = 1) /\ (\A i \in 1..more : zeros[i] = 0)
    BY <1>1
  <2> HIDE DEF ones, zeros
  <2>3. /\ Len(mask) = n + more /\ mask \in Seq({0, 1})
        /\ \A i \in 1..(n + more) : mask[i] = IF i <= n THEN ones[i] ELSE zeros[i - n]
    <3>1. /\ mask \in Seq({0, 1}) /\ Len(mask) = Len(ones) + Len(zeros)
          /\ \A i \in 1..(Len(ones) + Len(zeros)) :
                mask[i] = IF i <= Len(ones) THEN ones[i] ELSE zeros[i - Len(ones)]
      BY <2>1, ConcatProperties
    <3> HIDE DEF mask
    <3> QED
      BY <1>4, <3>1
  <2>4. \A i \in 1..(n + more) : IF i <= n THEN i \in 1..n ELSE i - n \in 1..more
    BY <1>1
  <2> HIDE DEF mask
  <2> QED
    BY <1>1, <2>2, <2>3, <2>4
<1>7. SubSeq(tokens, 1, n) = own
  <2>1. own = [i \in 1..n |-> own[i]]
    BY <1>1
  <2>2. SubSeq(tokens, 1, n) = [i \in 1..n |-> tokens[i]]
    <3> HIDE DEF tokens
    <3>1. SubSeq(tokens, 1, n) = [i \in 1..(1 + n - 1) |-> tokens[i + 1 - 1]]
      BY <1>1 DEF SubSeq
    <3>2. 1 + n - 1 = n /\ \A i \in 1..n : i + 1 - 1 = i
      BY <1>1
    <3> QED
      BY <3>1, <3>2
  <2> HIDE DEF tokens
  <2> QED
    BY <1>5, <2>1, <2>2
<1>8. ASSUME NEW i \in DOMAIN tokens PROVE IsToken(tokens[i])
  <2> HIDE DEF tokens
  <2>1. i \in 1..n \/ i \in (n + 1)..(n + more)
    BY <1>1, <1>5
  <2>2. \A t \in Tokens(values) : IsToken(t)
    BY DEF Tokens, IsToken
  <2>3. IsToken(PadToken(pad))
    BY DEF IsToken, PadToken
  <2> QED
    BY <1>2, <1>5, <2>1, <2>2, <2>3
<1>9. RowOf(own).mask = ones
  BY DEF RowOf
<1> HIDE DEF tokens, mask
<1>10. /\ Len(tokens) = (IF n < target THEN target ELSE n) /\ Len(mask) = Len(tokens)
       /\ \A i \in DOMAIN mask : mask[i] = IF i <= n THEN 1 ELSE 0
  BY <1>1, <1>5, <1>6
<1> QED
  BY <1>7, <1>8, <1>9, <1>10 DEF tokens, mask, n, missing

\* The pre-tokens of a batch are made of characters.
LEMMA TextsTyped ==
    ASSUME TInv, last.op = "encode"
    PROVE  last.texts \in Seq(Seq(Seq(DOMAIN Utf8)))
BY PreTokenizedTyped DEF TInv, LastIsCurrent

\* The rows of a batch: each has the tokens and the mask of its text, and then padding.
LEMMA BatchFacts ==
    ASSUME TInv, last.op = "encode"
    PROVE  /\ DOMAIN last.rows = DOMAIN last.texts /\ DOMAIN last.rows = 1..Len(last.texts)
           /\ Len(last.texts) \in Nat
           /\ \A k \in DOMAIN last.rows :
                 LET own == Row(last.texts[k]).tokens
                     row == last.rows[k]
                 IN /\ Len(own) \in Nat
                    /\ tok.trunc # None /\ tok.trunc.max # None => Len(own) <= tok.trunc.max
                    /\ Len(row.mask) = Len(row.tokens)
                    /\ \A i \in DOMAIN row.mask : row.mask[i] = IF i <= Len(own) THEN 1 ELSE 0
                    /\ SubSeq(row.tokens, 1, Len(own)) = own
                    /\ \A i \in DOMAIN row.tokens : IsToken(row.tokens[i])
           /\ tok.pad # None =>
                 \E target \in Nat :
                    /\ tok.pad.max # None => target = tok.pad.max
                    /\ \A k \in DOMAIN last.rows :
                          LET own == Row(last.texts[k]).tokens
                          IN /\ tok.pad.max = None => Len(own) <= target
                             /\ Len(last.rows[k].tokens) =
                                   (IF Len(own) < target THEN target ELSE Len(own))
<1> DEFINE texts == last.texts
           n == Len(texts)
           own(k) == Row(texts[k]).tokens
           plain == RowsOf(tok, texts)
<1>1. n \in Nat /\ DOMAIN texts = 1..n /\ \A k \in 1..n : texts[k] \in Seq(Seq(DOMAIN Utf8))
  <2>1. texts \in Seq(Seq(Seq(DOMAIN Utf8)))
    BY TextsTyped
  <2> HIDE DEF texts
  <2> QED
    BY <2>1
<1> HIDE DEF texts, n
<1>2. /\ DOMAIN plain = 1..n /\ last.rows = Padded(plain, tok.pad)
      /\ \A k \in 1..n : plain[k] = Row(texts[k])
  BY <1>1 DEF TInv, LastIsCurrent, RowsOf, Row, texts
<1>3. ASSUME NEW k \in 1..n
      PROVE  /\ plain[k] = RowOf(own(k)) /\ plain[k].tokens = own(k) /\ Len(own(k)) \in Nat
             /\ \E values : own(k) \in Seq(Tokens(values))
             /\ tok.trunc # None /\ tok.trunc.max # None => Len(own(k)) <= tok.trunc.max
  <2>1. /\ AreRowOptions(tok) /\ (HasBpe => IsModel(tok.model) /\ IsSound(tok.model))
        /\ tok.model # Foreign /\ texts[k] \in Seq(Seq(DOMAIN Utf8))
    BY <1>1 DEF TInv, LastIsCurrent, IsTokenizer, IsSoundModel, HasBpe
  <2>2. /\ Row(texts[k]) = RowOf(own(k)) /\ (\E values : own(k) \in Seq(Tokens(values)))
        /\ tok.trunc # None /\ tok.trunc.max # None => Len(own(k)) <= tok.trunc.max
    BY <2>1, RowTyped
  <2> HIDE DEF plain
  <2>3. Len(own(k)) \in Nat
    <3> HIDE DEF own
    <3>1. PICK values : own(k) \in Seq(Tokens(values))
      BY <2>2
    <3> QED
      BY <3>1
  <2> QED
    BY <1>2, <2>2, <2>3
<1> HIDE DEF plain, own
<1>4. CASE tok.pad = None
  <2>1. last.rows = plain
    BY <1>2, <1>4 DEF Padded
  <2>2. ASSUME NEW k \in 1..n
        PROVE  LET row == plain[k]
               IN /\ Len(row.mask) = Len(row.tokens)
                  /\ \A i \in DOMAIN row.mask : row.mask[i] = IF i <= Len(own(k)) THEN 1 ELSE 0
                  /\ SubSeq(row.tokens, 1, Len(own(k))) = own(k)
                  /\ \A i \in DOMAIN row.tokens : IsToken(row.tokens[i])
    <3> DEFINE seq == own(k)
               l == Len(seq)
    <3>1. PICK values : seq \in Seq(Tokens(values))
      BY <1>3
    <3>2. plain[k].tokens = seq /\ plain[k].mask = [i \in DOMAIN seq |-> 1]
      <4>1. plain[k] = RowOf(seq)
        BY <1>3
      <4>2. RowOf(seq).tokens = seq /\ RowOf(seq).mask = [i \in DOMAIN seq |-> 1]
        BY DEF RowOf
      <4> QED
        BY <4>1, <4>2
    <3> HIDE DEF seq
    <3>3. l \in Nat /\ DOMAIN seq = 1..l /\ SubSeq(seq, 1, l) = seq
          /\ \A i \in 1..l : seq[i] \in Tokens(values)
      BY <3>1
    <3>4. Len([i \in DOMAIN seq |-> 1]) = l
      BY <3>3
    <3>5. \A i \in 1..l : IsToken(seq[i])
      <4>1. \A t \in Tokens(values) : IsToken(t)
        BY DEF Tokens, IsToken
      <4> QED
        BY <3>3, <4>1
    <3> QED
      BY <3>2, <3>3, <3>4, <3>5 DEF seq
  <2> QED
    BY <1>1, <1>2, <1>3, <1>4, <2>1, <2>2 DEF own, texts, n
<1>5. CASE tok.pad # None
  <2> DEFINE target == Target(plain, tok.pad)
             missing(k) == 1..(target - Len(own(k)))
             tokens(k) == own(k) \o [j \in missing(k) |-> PadToken(tok.pad)]
             mask(k) == RowOf(own(k)).mask \o [j \in missing(k) |-> 0]
  <2>1. tok.pad.id \in Nat /\ (tok.pad.max # None => tok.pad.max \in Nat)
    BY <1>5 DEF TInv, IsTokenizer, AreRowOptions
  <2>2. target \in Nat /\ (tok.pad.max = None => \A k \in 1..n : Len(own(k)) <= target)
        /\ (tok.pad.max # None => target = tok.pad.max)
    <3>1. \A k \in 1..n : Len(plain[k].tokens) = Len(own(k)) /\ Len(own(k)) \in Nat
      BY <1>3
    <3>2. target \in Nat
          /\ (tok.pad.max = None => \A k \in 1..n : Len(plain[k].tokens) <= target)
      BY <1>1, <1>2, <2>1, <3>1, TargetFacts
    <3>3. tok.pad.max # None => target = tok.pad.max
      BY DEF Target
    <3> QED
      BY <3>1, <3>2, <3>3
  <2>3. DOMAIN last.rows = 1..n
        /\ \A k \in 1..n : last.rows[k] = [tokens |-> tokens(k), mask |-> mask(k)]
    <3>1. last.rows = [k \in 1..n |->
                         LET more == 1..(target - Len(plain[k].tokens))
                         IN [tokens |-> plain[k].tokens \o [j \in more |-> PadToken(tok.pad)],
                             mask   |-> plain[k].mask \o [j \in more |-> 0]]]
      BY <1>2, <1>5 DEF Padded
    <3>2. \A k \in 1..n : plain[k].tokens = own(k) /\ plain[k].mask = RowOf(own(k)).mask
      BY <1>3
    <3> HIDE DEF target
    <3> QED
      BY <3>1, <3>2
  <2> HIDE DEF target
  <2>4. ASSUME NEW k \in 1..n
        PROVE  /\ Len(tokens(k)) = (IF Len(own(k)) < target THEN target ELSE Len(own(k)))
               /\ Len(mask(k)) = Len(tokens(k))
               /\ \A i \in DOMAIN mask(k) : mask(k)[i] = IF i <= Len(own(k)) THEN 1 ELSE 0
               /\ SubSeq(tokens(k), 1, Len(own(k))) = own(k)
               /\ \A i \in DOMAIN tokens(k) : IsToken(tokens(k)[i])
    <3>1. PICK values : own(k) \in Seq(Tokens(values))
      BY <1>3
    <3> QED
      BY <2>1, <2>2, <3>1, PaddedRow
  <2>5. ASSUME NEW k \in 1..n
        PROVE  last.rows[k].tokens = tokens(k) /\ last.rows[k].mask = mask(k)
    <3> DEFINE a == tokens(k)
               b == mask(k)
    <3>1. last.rows[k] = [tokens |-> a, mask |-> b]
      BY <2>3
    <3> HIDE DEF a, b
    <3>2. last.rows[k].tokens = a /\ last.rows[k].mask = b
      BY <3>1
    <3> QED
      BY <3>2 DEF a, b
  <2> HIDE DEF tokens, mask
  <2>6. DOMAIN last.rows = 1..n
    BY <2>3
  <2>7. \A k \in DOMAIN last.rows :
           LET row == last.rows[k]
           IN /\ Len(own(k)) \in Nat
              /\ tok.trunc # None /\ tok.trunc.max # None => Len(own(k)) <= tok.trunc.max
              /\ Len(row.mask) = Len(row.tokens)
              /\ \A i \in DOMAIN row.mask : row.mask[i] = IF i <= Len(own(k)) THEN 1 ELSE 0
              /\ SubSeq(row.tokens, 1, Len(own(k))) = own(k)
              /\ \A i \in DOMAIN row.tokens : IsToken(row.tokens[i])
    BY <1>3, <2>4, <2>5, <2>6
  <2>8. \A k \in DOMAIN last.rows :
           /\ tok.pad.max = None => Len(own(k)) <= target
           /\ Len(last.rows[k].tokens) = (IF Len(own(k)) < target THEN target ELSE Len(own(k)))
    BY <2>2, <2>4, <2>5, <2>6
  <2>9. DOMAIN last.rows = DOMAIN last.texts /\ DOMAIN last.rows = 1..Len(last.texts)
        /\ Len(last.texts) \in Nat
    BY <1>1, <2>6 DEF texts, n
  <2> QED
    BY <2>2, <2>7, <2>8, <2>9 DEF own, texts
<1> QED
  BY <1>4, <1>5

\* TypeOK: a model in memory passed build()'s checks, and every token has an id and a span.
THEOREM TypeCorrect == Spec => []TypeOK
<1>1. TInv => TypeOK
  <2>1. TInv /\ last.op = "encode" =>
           \A k \in DOMAIN last.rows : \A i \in DOMAIN last.rows[k].tokens :
              IsToken(last.rows[k].tokens[i])
    BY BatchFacts
  <2> QED
    BY <2>1 DEF TInv, LastIsCurrent, TypeOK
<1> QED
  BY <1>1, Invariant, PTL

\* BatchRectangular: the mask is 1 on exactly the tokens a text has on its own, which come
\* first; rows that are padded to the longest are equally long; a row that is longer than
\* the fixed length it is padded to has no padding, and truncation to that length leaves none.
THEOREM BatchesRectangular == Spec => []BatchRectangular
<1>1. TInv => BatchRectangular
  <2> SUFFICES ASSUME TInv, last.op = "encode" PROVE BatchRectangular
    BY DEF BatchRectangular
  <2> DEFINE own(k) == Row(last.texts[k]).tokens
             len(k) == Len(last.rows[k].tokens)
  <2>1. ASSUME NEW k \in DOMAIN last.rows
        PROVE  /\ Len(last.rows[k].mask) = len(k)
               /\ \A i \in DOMAIN last.rows[k].mask :
                     last.rows[k].mask[i] = IF i <= Len(own(k)) THEN 1 ELSE 0
               /\ SubSeq(last.rows[k].tokens, 1, Len(own(k))) = own(k)
               /\ Len(own(k)) \in Nat
               /\ tok.trunc # None /\ tok.trunc.max # None => Len(own(k)) <= tok.trunc.max
    BY BatchFacts
  <2>2. tok.pad # None =>
           \E target \in Nat :
              /\ tok.pad.max # None => target = tok.pad.max
              /\ \A i \in DOMAIN last.rows :
                    /\ tok.pad.max = None => Len(own(i)) <= target
                    /\ len(i) = (IF Len(own(i)) < target THEN target ELSE Len(own(i)))
    BY BatchFacts
  <2>3. tok.trunc # None /\ tok.trunc.max # None => tok.trunc.max \in Nat
    BY DEF TInv, IsTokenizer, AreRowOptions
  <2>4. \A k \in DOMAIN last.rows : Len(own(k)) \in Nat
    BY <2>1
  <2>5. \A k \in DOMAIN last.rows :
           tok.trunc # None /\ tok.trunc.max # None => Len(own(k)) <= tok.trunc.max
    BY <2>1
  <2> HIDE DEF own, len
  <2>6. ASSUME tok.pad # None, tok.pad.max = None,
               NEW k \in DOMAIN last.rows, NEW j \in DOMAIN last.rows
        PROVE  len(j) = len(k)
    <3>1. PICK target \in Nat : \A i \in DOMAIN last.rows :
             /\ Len(own(i)) <= target
             /\ len(i) = (IF Len(own(i)) < target THEN target ELSE Len(own(i)))
      BY <2>2, <2>6
    <3>2. \A i \in DOMAIN last.rows : len(i) = target
      BY <2>4, <3>1
    <3> QED
      BY <3>2
  <2>7. ASSUME tok.pad # None, tok.pad.max # None, NEW k \in DOMAIN last.rows
        PROVE  /\ len(k) >= tok.pad.max
               /\ len(k) > tok.pad.max =>
                     /\ len(k) = Len(own(k))
                     /\ tok.trunc # None /\ tok.trunc.max # None => tok.pad.max < tok.trunc.max
    <3>1. PICK target \in Nat :
             /\ target = tok.pad.max
             /\ len(k) = (IF Len(own(k)) < target THEN target ELSE Len(own(k)))
      BY <2>2, <2>7
    <3>2. len(k) >= target /\ (len(k) > target => len(k) = Len(own(k)))
      BY <2>4, <3>1
    <3>3. ASSUME len(k) > target, tok.trunc # None, tok.trunc.max # None
          PROVE  target < tok.trunc.max
      BY <2>3, <2>4, <2>5, <3>2, <3>3
    <3> QED
      BY <3>1, <3>2, <3>3
  <2> QED
    BY <2>1, <2>6, <2>7 DEF BatchRectangular, own, len
<1> QED
  BY <1>1, Invariant, PTL

-------------------------------------------------------------------------------
(* tokenizer.json: the merges are listed by rank, and get their place in the list for   *)
(* a rank.                                                                               *)

Earlier(S, r, p) == {q \in S : r[q] < r[p]}

\* Ranked elements have places from 0 on, in the order of their ranks, and every place
\* is taken.
LEMMA Places ==
    ASSUME NEW S, IsFiniteSet(S), NEW r \in [S -> Nat], \A p, q \in S : r[p] = r[q] => p = q
    PROVE  /\ \A p \in S : Cardinality(Earlier(S, r, p)) \in 0..(Cardinality(S) - 1)
           /\ \A p, q \in S :
                 r[p] < r[q] <=> Cardinality(Earlier(S, r, p)) < Cardinality(Earlier(S, r, q))
           /\ \A c \in 0..(Cardinality(S) - 1) :
                 \E p \in S : Cardinality(Earlier(S, r, p)) = c
<1> DEFINE n == Cardinality(S)
           f == [p \in S |-> Cardinality(Earlier(S, r, p))]
<1>1. n \in Nat
  BY FS_CardinalityType
<1>2. ASSUME NEW p \in S PROVE IsFiniteSet(Earlier(S, r, p)) /\ f[p] \in 0..(n - 1)
  <2> DEFINE E == Earlier(S, r, p)
  <2>1. E \in SUBSET S /\ E # S /\ f[p] = Cardinality(E)
    <3>1. ~(r[p] < r[p])
      OBVIOUS
    <3> QED
      BY <3>1 DEF Earlier
  <2> HIDE DEF E, f, n
  <2>2. IsFiniteSet(E) /\ Cardinality(E) <= n /\ n # Cardinality(E)
    BY <2>1, FS_Subset DEF n
  <2>3. Cardinality(E) \in Nat
    BY <2>2, FS_CardinalityType
  <2> QED
    BY <1>1, <2>1, <2>2, <2>3 DEF E
<1>3. ASSUME NEW p \in S, NEW q \in S, r[p] < r[q] PROVE f[p] < f[q]
  <2> DEFINE E == Earlier(S, r, p)
             F == Earlier(S, r, q)
  <2>1. E \in SUBSET F /\ E # F
    <3>1. \A s \in S : (r[s] < r[p] => r[s] < r[q]) /\ ~(r[p] < r[p])
      BY <1>3
    <3>2. p \in F /\ p \notin E /\ E \subseteq F
      BY <1>3, <3>1 DEF Earlier
    <3> QED
      BY <3>2
  <2>2. IsFiniteSet(E) /\ IsFiniteSet(F) /\ f[p] = Cardinality(E) /\ f[q] = Cardinality(F)
    BY <1>2
  <2> HIDE DEF E, F, f
  <2>3. Cardinality(E) <= Cardinality(F) /\ Cardinality(F) # Cardinality(E)
    BY <2>1, <2>2, FS_Subset
  <2>4. Cardinality(E) \in Nat /\ Cardinality(F) \in Nat
    BY <2>2, FS_CardinalityType
  <2> QED
    BY <2>2, <2>3, <2>4
<1>4. f = [p \in S |-> f[p]] /\ \A p \in S : f[p] = Cardinality(Earlier(S, r, p))
  OBVIOUS
<1> HIDE DEF f, n
<1>5. \A p, q \in S : r[p] < r[q] <=> f[p] < f[q]
  <2> SUFFICES ASSUME NEW p \in S, NEW q \in S PROVE r[p] < r[q] <=> f[p] < f[q]
    OBVIOUS
  <2>1. /\ r[p] \in Int /\ r[q] \in Int /\ (r[p] = r[q] => p = q)
        /\ f[p] \in Int /\ f[q] \in Int
    BY <1>2
  <2>2. (r[p] < r[q] => f[p] < f[q]) /\ (r[q] < r[p] => f[q] < f[p])
    BY <1>3
  <2> QED
    BY <2>1, <2>2
<1>6. f \in Injection(S, 0..(n - 1))
  <2>1. f \in [S -> 0..(n - 1)]
    BY <1>2, <1>4
  <2>2. \A p, q \in S : f[p] = f[q] => p = q
    <3> SUFFICES ASSUME NEW p \in S, NEW q \in S, f[p] = f[q] PROVE p = q
      OBVIOUS
    <3>1. r[p] \in Int /\ r[q] \in Int /\ f[p] \in Int /\ f[q] \in Int
      BY <1>2
    <3>2. ~(r[p] < r[q]) /\ ~(r[q] < r[p])
      BY <1>5, <3>1
    <3>3. r[p] = r[q]
      BY <3>1, <3>2
    <3> QED
      BY <3>3
  <2> QED
    BY <2>1, <2>2 DEF Injection, IsInjective
<1>7. f \in Surjection(S, 0..(n - 1))
  <2>1. IsFiniteSet(0..(n - 1)) /\ Cardinality(0..(n - 1)) = n
    BY <1>1, FS_Interval
  <2> QED
    BY <1>6, <2>1, FS_Injection DEF n
<1>8. \A c \in 0..(n - 1) : \E p \in S : f[p] = c
  BY <1>7 DEF Surjection
<1> QED
  BY <1>2, <1>4, <1>5, <1>8 DEF n

\* The merges of a model that is saved and loaded: the same pairs become the same tokens
\* in the same order.
SameMerges(old, new) ==
    /\ DOMAIN new = DOMAIN old
    /\ \A p \in DOMAIN old : new[p].id = old[p].id /\ new[p].rank \in Nat /\ old[p].rank \in Nat
    /\ \A p, q \in DOMAIN old : new[p].rank < new[q].rank <=> old[p].rank < old[q].rank

LEMMA ReloadedMerges ==
    ASSUME NEW m, IsModel(m), IsSound(m), PlainMerges(m)
    PROVE  /\ SameMerges(m.merges, MergeMap(m.vocab, MergesList(m)))
           /\ ~AllSkipped(m.vocab, MergesList(m))
<1> DEFINE v == m.vocab
           S == DOMAIN m.merges
           n == Cardinality(S)
           r == [p \in S |-> m.merges[p].rank]
           place(p) == Cardinality(Earlier(S, r, p))
           listed(k) == CHOOSE p \in S : place(p) = k - 1
           list == MergesList(m)
           new == MergeMap(v, list)
<1>1. /\ IsVocab(v) /\ IsFiniteSet(S) /\ n \in Nat /\ r \in [S -> Nat]
      /\ \A p, q \in S : r[p] = r[q] => p = q
  <2>1. IsVocab(v) /\ IsFiniteSet(S) /\ \A p \in S : m.merges[p].rank \in Nat
    BY DEF IsModel
  <2>2. \A p, q \in S : m.merges[p].rank = m.merges[q].rank => p = q
    BY DEF IsSound
  <2> QED
    BY <2>1, <2>2, FS_CardinalityType
<1>2. ASSUME NEW p \in S
      PROVE  /\ p[1] \in Ids(v) /\ p[2] \in Ids(v) /\ p = <<p[1], p[2]>>
             /\ m.merges[p].id \in Ids(v)
             /\ TokenOf(v, m.merges[p].id) = TokenOf(v, p[1]) \o TokenOf(v, p[2])
  <2>1. p \in Nat \X Nat
    BY DEF IsModel
  <2>2. p = <<p[1], p[2]>>
    BY <2>1
  <2> QED
    BY <2>2 DEF IsSound, PlainMerges
<1>3. /\ \A p \in S : place(p) \in 0..(n - 1)
      /\ \A p, q \in S : r[p] < r[q] <=> place(p) < place(q)
      /\ \A c \in 0..(n - 1) : \E p \in S : place(p) = c
  <2> HIDE DEF r, S
  <2> QED
    BY <1>1, Places
<1>4. list = [k \in 1..n |-> <<TokenOf(v, listed(k)[1]), TokenOf(v, listed(k)[2])>>]
  <2> DEFINE known == {p \in DOMAIN m.merges : {p[1], p[2]} \subseteq Ids(m.vocab)}
             before(p) == {q \in known : ListedBefore(m, q, p)}
  <2>1. known = S
    BY <1>2
  <2>2. \A p \in S : before(p) = Earlier(S, r, p)
    <3>1. \A p, q \in S : ListedBefore(m, q, p) <=> r[q] < r[p]
      BY DEF ListedBefore
    <3> HIDE DEF r, S, known
    <3>2. \A p : before(p) = {q \in S : ListedBefore(m, q, p)}
      BY <2>1
    <3> QED
      BY <3>1, <3>2 DEF Earlier
  <2> DEFINE chosen(k) == CHOOSE p \in known : Cardinality(before(p)) = k - 1
  <2>3. \A k : chosen(k) = listed(k)
    <3>1. \A p \in S : Cardinality(before(p)) = place(p)
      BY <2>2
    <3> HIDE DEF place, before, known, S
    <3>2. \A k : {p \in known : Cardinality(before(p)) = k - 1} = {p \in S : place(p) = k - 1}
      BY <2>1, <3>1
    <3>3. \A k : \A p : p \in known /\ Cardinality(before(p)) = k - 1 <=> p \in S /\ place(p) = k - 1
      BY <2>1, <3>1
    <3> QED
      BY <3>3
  <2>4. list = [k \in 1..Cardinality(known) |->
                  <<TokenOf(v, chosen(k)[1]), TokenOf(v, chosen(k)[2])>>]
    BY DEF MergesList
  <2> HIDE DEF chosen, listed, known, list
  <2> QED
    BY <2>1, <2>3, <2>4
<1>5. ASSUME NEW k \in 1..n PROVE listed(k) \in S /\ place(listed(k)) = k - 1
  <2>1. k - 1 \in 0..(n - 1)
    BY <1>1
  <2> HIDE DEF place, S, n
  <2> QED
    BY <1>3, <2>1
<1> HIDE DEF listed, place, r, n, list
<1>6. ASSUME NEW k \in 1..n
      PROVE  /\ Usable(v, list[k]) /\ PairOf(v, list[k]) = listed(k)
             /\ v[MergedText(list[k])] = m.merges[listed(k)].id
  <2> DEFINE p == listed(k)
             a == TokenOf(v, p[1])
             b == TokenOf(v, p[2])
  <2>1. p \in S
    BY <1>5
  <2> HIDE DEF p
  <2>2. a \in DOMAIN v /\ v[a] = p[1] /\ b \in DOMAIN v /\ v[b] = p[2] /\ p = <<p[1], p[2]>>
    BY <1>2, <2>1, TokenOfTyped
  <2>3. a \o b \in DOMAIN v /\ v[a \o b] = m.merges[p].id
    <3> DEFINE id == m.merges[p].id
               c == TokenOf(v, id)
    <3>1. id \in Ids(v) /\ c = a \o b
      BY <1>2, <2>1
    <3> HIDE DEF id, v
    <3>2. c \in DOMAIN v /\ v[c] = id
      BY <3>1, TokenOfTyped
    <3> HIDE DEF a, b, c
    <3> QED
      BY <3>1, <3>2 DEF id
  <2>4. list[k] = <<a, b>>
    BY <1>4 DEF p
  <2> HIDE DEF a, b
  <2>5. list[k][1] = a /\ list[k][2] = b
    BY <2>4
  <2> QED
    BY <2>2, <2>3, <2>5 DEF Usable, PairOf, MergedText, p
<1>7. DOMAIN list = 1..n
  BY <1>4
<1>8. IsList(list)
  BY <1>1, MergesListTyped DEF list
<1>9. ~AllSkipped(v, list)
  <2>1. CASE n = 0
    <3>1. list = <<>>
      BY <1>4, <2>1
    <3> QED
      BY <3>1 DEF AllSkipped
  <2>2. CASE n # 0
    <3>1. 1 \in 1..n
      BY <1>1, <2>2
    <3> QED
      BY <1>6, <1>7, <3>1 DEF AllSkipped
  <2> QED
    BY <2>1, <2>2
<1>10. ASSUME NEW p \in DOMAIN new
       PROVE  p \in S /\ new[p].id = m.merges[p].id /\ new[p].rank = place(p)
  <2>1. PICK k \in DOMAIN list :
           /\ k - 1 \in Nat /\ Usable(v, list[k]) /\ PairOf(v, list[k]) = p
           /\ new[p] = [rank |-> k - 1, id |-> v[MergedText(list[k])]]
    BY <1>8, MergeMapFacts
  <2> HIDE DEF new
  <2>2. k \in 1..n /\ p = listed(k)
    BY <1>6, <1>7, <2>1
  <2> QED
    BY <1>5, <1>6, <2>1, <2>2
<1>11. ASSUME NEW p \in S PROVE p \in DOMAIN new
  <2> DEFINE k == place(p) + 1
  <2>1. k \in 1..n /\ k - 1 = place(p) /\ place(p) \in Int
    BY <1>1, <1>3
  <2> HIDE DEF k
  <2>2. listed(k) \in S /\ place(listed(k)) = place(p)
    BY <1>5, <2>1
  <2>3. listed(k) = p
    <3>1. r[listed(k)] \in Int /\ r[p] \in Int
      BY <1>1, <2>2
    <3>2. ~(r[listed(k)] < r[p]) /\ ~(r[p] < r[listed(k)])
      BY <1>3, <2>1, <2>2
    <3>3. r[listed(k)] = r[p]
      BY <3>1, <3>2
    <3> QED
      BY <1>1, <2>2, <3>3
  <2>4. PairOf(v, list[k]) = p /\ Usable(v, list[k]) /\ k \in DOMAIN list
    BY <1>6, <1>7, <2>1, <2>3
  <2> QED
    BY <2>4 DEF MergeMap
<1>12. SameMerges(m.merges, new)
  <2>1. DOMAIN new = DOMAIN m.merges
    BY <1>10, <1>11
  <2>2. \A p \in S : new[p].id = m.merges[p].id /\ new[p].rank = place(p) /\ place(p) \in Nat
                     /\ r[p] = m.merges[p].rank /\ r[p] \in Nat
    <3>1. \A p \in S : r[p] = m.merges[p].rank
      BY DEF r
    <3> QED
      BY <1>1, <1>3, <1>10, <1>11, <3>1
  <2> HIDE DEF new
  <2> QED
    BY <1>3, <2>1, <2>2 DEF SameMerges
<1> QED
  BY <1>9, <1>12 DEF list

\* merge_all makes the same merges.
LEMMA MergeOnceSame ==
    ASSUME NEW old, NEW new, SameMerges(old, new),
           NEW syms, Len(syms) \in Nat
    PROVE  MergeOnce(syms, new) = MergeOnce(syms, old)
<1>1. Points(syms, new) = Points(syms, old)
  BY DEF Points, SameMerges
<1> DEFINE P == Points(syms, old)
<1>2. \A i \in P : PairIn(syms, i) \in DOMAIN old
  BY DEF Points
<1>3. ASSUME NEW p \in DOMAIN old, NEW q \in DOMAIN old
      PROVE  /\ new[p].rank < new[q].rank <=> old[p].rank < old[q].rank
             /\ new[p].rank = new[q].rank <=> old[p].rank = old[q].rank
  <2>1. /\ new[p].rank \in Nat /\ new[q].rank \in Nat /\ old[p].rank \in Nat /\ old[q].rank \in Nat
        /\ new[p].rank < new[q].rank <=> old[p].rank < old[q].rank
        /\ new[q].rank < new[p].rank <=> old[q].rank < old[p].rank
    BY DEF SameMerges
  <2> QED
    BY <2>1
<1>4. \A i, j \in P : Comes(syms, new, i, j) <=> Comes(syms, old, i, j)
  <2> SUFFICES ASSUME NEW i \in P, NEW j \in P
               PROVE  Comes(syms, new, i, j) <=> Comes(syms, old, i, j)
    OBVIOUS
  <2>1. PairIn(syms, i) \in DOMAIN old /\ PairIn(syms, j) \in DOMAIN old
    BY <1>2
  <2> HIDE DEF P
  <2> QED
    BY <1>3, <2>1 DEF Comes
<1>5. First(syms, new) = First(syms, old)
  <2> HIDE DEF P
  <2>1. \A i : (i \in P /\ \A j \in P : Comes(syms, new, i, j))
               <=> (i \in P /\ \A j \in P : Comes(syms, old, i, j))
    BY <1>4
  <2>2. First(syms, new) = CHOOSE i \in P : \A j \in P : Comes(syms, new, i, j)
    BY <1>1 DEF First, P
  <2>3. First(syms, old) = CHOOSE i \in P : \A j \in P : Comes(syms, old, i, j)
    BY DEF First, P
  <2> QED
    BY <2>1, <2>2, <2>3
<1>6. ASSUME P # {} PROVE Joint(syms, new, First(syms, new)) = Joint(syms, old, First(syms, old))
  <2> DEFINE i == First(syms, old)
  <2>1. i \in P
    BY <1>6, FirstExists DEF SameMerges
  <2>2. new[PairIn(syms, i)].id = old[PairIn(syms, i)].id
    BY <1>2, <2>1 DEF SameMerges
  <2> QED
    BY <1>5, <2>2 DEF Joint
<1> QED
  BY <1>1, <1>5, <1>6, MergeOnceIs

LEMMA MergeAllSame ==
    ASSUME NEW m, NEW new, NEW ids, SameMerges(m.merges, new.merges),
           \A p \in DOMAIN m.merges : m.merges[p].id \in ids,
           new.opts.dropout = m.opts.dropout, NEW syms \in Seq(Symbols(ids))
    PROVE  MergeAll(new, syms) = MergeAll(m, syms)
<1> DEFINE n == Len(syms)
<1>1. /\ \A p \in DOMAIN m.merges : m.merges[p].rank \in Nat /\ m.merges[p].id \in ids
      /\ \A p \in DOMAIN new.merges : new.merges[p].rank \in Nat /\ new.merges[p].id \in ids
  BY DEF SameMerges
<1>2. PICK f : /\ MergeTrace(f, syms, m.merges)
               /\ \A k \in 0..n : f[k] \in Seq(Symbols(ids))
               /\ MergeAll(m, syms) = IF m.opts.dropout = "all" THEN syms ELSE f[n]
  BY <1>1, MergeAllTrace
<1>3. PICK g : /\ MergeTrace(g, syms, new.merges)
               /\ MergeAll(new, syms) = IF new.opts.dropout = "all" THEN syms ELSE g[n]
  BY <1>1, MergeAllTrace
<1>4. n \in Nat
  OBVIOUS
<1> HIDE DEF n
<1> DEFINE T == {k \in 0..n : f[k] = g[k]}
<1>5. 0 \in T
  BY <1>2, <1>3, <1>4 DEF MergeTrace
<1>6. ASSUME NEW k \in 1..n, k - 1 \in T PROVE k \in T
  <2>1. k \in 0..n /\ k - 1 \in 0..n /\ f[k - 1] = g[k - 1]
    BY <1>4, <1>6
  <2>2. Len(f[k - 1]) \in Nat
    <3>1. f[k - 1] \in Seq(Symbols(ids))
      BY <1>2, <2>1
    <3> QED
      BY <3>1
  <2>3. f[k] = MergeOnce(f[k - 1], m.merges) /\ g[k] = MergeOnce(f[k - 1], new.merges)
    BY <1>2, <1>3, <2>1 DEF MergeTrace, n
  <2>4. MergeOnce(f[k - 1], new.merges) = MergeOnce(f[k - 1], m.merges)
    BY <2>2, MergeOnceSame
  <2> QED
    BY <2>1, <2>3, <2>4
<1>7. f[n] = g[n]
  <2> HIDE DEF T
  <2>1. \A k \in 0..n : k \in T
    BY <1>4, <1>5, <1>6, InductUpto
  <2> QED
    BY <1>4, <2>1 DEF T
<1> QED
  BY <1>2, <1>3, <1>7

\* merge_word looks at the vocabulary and at these options.
SameWords(m, new) ==
    /\ new.vocab = m.vocab
    /\ new.opts.unk = m.opts.unk /\ new.opts.prefix = m.opts.prefix
    /\ new.opts.suffix = m.opts.suffix /\ new.opts.fuse = m.opts.fuse
    /\ new.opts.fallback = m.opts.fallback /\ new.opts.ignore = m.opts.ignore

LEMMA ExpandSame ==
    ASSUME NEW m, NEW new, SameWords(m, new), NEW text
    PROVE  Expand(new, text) = Expand(m, text)
<1> DEFINE first == [syms |-> <<>>, unk |-> FALSE]
           seq == [k \in DOMAIN text |-> k]
           Step(model, it) == it = [s \in SUBSET DOMAIN seq |->
                                      IF s = {} THEN first
                                      ELSE AddCharacter(model, text, it[s \ {Max(s)}], seq[Max(s)])]
<1>1. \A acc, k : AddCharacter(new, text, acc, k) = AddCharacter(m, text, acc, k)
  <2> SUFFICES ASSUME NEW acc, NEW k
               PROVE  AddCharacter(new, text, acc, k) = AddCharacter(m, text, acc, k)
    OBVIOUS
  <2>1. Key(new.opts, text, k) = Key(m.opts, text, k)
    BY DEF Key, SameWords
  <2>2. UnkId(new) = UnkId(m)
    BY DEF UnkId, SameWords
  <2>3. Unknown(new, text[k]) = Unknown(m, text[k])
    BY <2>2 DEF Unknown, ByteSymbols, SameWords
  <2>4. \A known, before : EndsInUnk(new, known, before) = EndsInUnk(m, known, before)
    BY DEF EndsInUnk, SameWords
  <2> QED
    BY <2>1, <2>3, <2>4 DEF AddCharacter, SameWords
<1>2. \A it : Step(new, it) <=> Step(m, it)
  <2> SUFFICES ASSUME NEW it PROVE Step(new, it) <=> Step(m, it)
    OBVIOUS
  <2> DEFINE A(s) == IF s = {} THEN first
                     ELSE AddCharacter(new, text, it[s \ {Max(s)}], seq[Max(s)])
             B(s) == IF s = {} THEN first
                     ELSE AddCharacter(m, text, it[s \ {Max(s)}], seq[Max(s)])
  <2>1. \A s : A(s) = B(s)
    BY <1>1
  <2> HIDE DEF A, B, seq
  <2>2. [s \in SUBSET DOMAIN seq |-> A(s)] = [s \in SUBSET DOMAIN seq |-> B(s)]
    BY <2>1
  <2> QED
    BY <2>2 DEF A, B
<1>3. /\ Expand(new, text) = (CHOOSE it : Step(new, it))[DOMAIN seq].syms
      /\ Expand(m, text) = (CHOOSE it : Step(m, it))[DOMAIN seq].syms
  BY DEF Expand, FoldLeft, MapThenFoldSet
<1> HIDE DEF Step
<1>4. (CHOOSE it : Step(new, it)) = (CHOOSE it : Step(m, it))
  BY <1>2
<1> QED
  BY <1>3, <1>4

LEMMA TokenizeSame ==
    ASSUME NEW m, IsModel(m), IsSound(m), NEW new, SameWords(m, new),
           SameMerges(m.merges, new.merges), new.opts.dropout = m.opts.dropout,
           NEW text \in Seq(DOMAIN Utf8)
    PROVE  Tokenize(new, text) = Tokenize(m, text)
<1> DEFINE syms == Expand(m, text)
<1>1. Expand(new, text) = syms
  BY ExpandSame
<1>2. Whole(new, text) = Whole(m, text)
  BY DEF Whole, SameWords
<1>3. \A s : WordToTokens(new, s) = WordToTokens(m, s)
  BY DEF WordToTokens, SameWords
<1>4. ~Incomplete(syms) => MergeAll(new, syms) = MergeAll(m, syms)
  <2>1. ~Incomplete(syms) => syms \in Seq(Symbols(Ids(m.vocab)))
    BY ExpandComplete
  <2>2. \A p \in DOMAIN m.merges : m.merges[p].id \in Ids(m.vocab)
    BY DEF IsSound
  <2> HIDE DEF syms
  <2> QED
    BY <2>1, <2>2, MergeAllSame
<1>5. new.opts.ignore = m.opts.ignore /\ new.vocab = m.vocab
  BY DEF SameWords
<1> HIDE DEF syms
<1>6. Tokenize(new, text) =
        IF text = <<>> THEN <<>>
        ELSE IF m.opts.ignore /\ text \in DOMAIN m.vocab THEN <<Whole(m, text)>>
        ELSE IF Incomplete(syms) THEN <<>>
        ELSE WordToTokens(m, MergeAll(new, syms))
  BY <1>1, <1>2, <1>3, <1>5 DEF Tokenize
<1>7. Tokenize(m, text) =
        IF text = <<>> THEN <<>>
        ELSE IF m.opts.ignore /\ text \in DOMAIN m.vocab THEN <<Whole(m, text)>>
        ELSE IF Incomplete(syms) THEN <<>>
        ELSE WordToTokens(m, MergeAll(m, syms))
  BY DEF Tokenize, syms
<1>8. CASE Incomplete(syms)
  BY <1>6, <1>7, <1>8
<1>9. CASE ~Incomplete(syms)
  BY <1>4, <1>6, <1>7, <1>9
<1> QED
  BY <1>8, <1>9

\* ReloadEncodesSame: a tokenizer.json that was written to its end can be loaded, and the
\* loaded model gives the same tokens as the saved one although the ranks are not the same
\* (without dropout and merges that strip the prefix).
THEOREM ReloadKeepsEncoding == Spec => []ReloadEncodesSame
<1>1. TInv => ReloadEncodesSame
  <2> SUFFICES ASSUME TInv, json \notin {None, Torn}, json.model # None, source # Foreign,
                      source.opts.dropout = "none", PlainMerges(source)
               PROVE  /\ Loadable(json)
                      /\ last.op = "load" =>
                            \A w \in Words : Tokenize(tok.model, w) = Tokenize(source, w)
    BY DEF ReloadEncodesSame
  <2> DEFINE new == LoadedModel(json.model)
  <2>1. json.model = SavedModel(source) /\ source # None
    BY DEF TInv, JsonOfSource, SavedModel
  <2>2. IsModel(source) /\ IsSound(source)
    BY <2>1 DEF TInv, JsonOfSource, IsSoundModel
  <2>3. /\ json.model.vocab = source.vocab /\ json.model.list = MergesList(source)
        /\ json.model.opts = [source.opts EXCEPT !.dropout = "none"]
    BY <2>1 DEF SavedModel
  <2>4. /\ SameMerges(source.merges, MergeMap(source.vocab, MergesList(source)))
        /\ ~AllSkipped(source.vocab, MergesList(source))
    BY <2>2, ReloadedMerges
  <2>5. Loadable(json)
    BY <2>3, <2>4 DEF Loadable
  <2>6. /\ new.vocab = source.vocab
        /\ new.merges = MergeMap(source.vocab, MergesList(source))
        /\ new.opts = [source.opts EXCEPT !.dropout = "none"]
    BY <2>3 DEF LoadedModel
  <2> HIDE DEF new
  <2>7. SameWords(source, new) /\ new.opts.dropout = source.opts.dropout
    <3>1. DOMAIN source.opts = DOMAIN NoOptions
      BY <2>2 DEF IsModel
    <3> QED
      BY <2>6, <3>1 DEF SameWords, NoOptions
  <2>8. ASSUME NEW w \in Words PROVE w \in Seq(DOMAIN Utf8)
    <3>1. ASSUME NEW piece \in Pieces PROVE piece \in Seq(TextChars)
      <4>1. PICK b \in Batches : \E k \in DOMAIN b : piece \in ToSet(b[k])
        BY DEF Pieces
      <4>2. PICK k \in DOMAIN b : piece \in ToSet(b[k])
        BY <4>1
      <4>3. b \in Seq(Seq(Seq(TextChars)))
        BY TextAssumption
      <4>4. b[k] \in Seq(Seq(TextChars))
        BY <4>3
      <4>5. PICK j \in DOMAIN b[k] : piece = b[k][j]
        BY <4>2 DEF ToSet
      <4> QED
        BY <4>4, <4>5
    <3>2. PICK piece \in Pieces : w = piece \/ w = Mapped(piece)
      BY DEF Words
    <3>3. piece \in Seq(TextChars)
      BY <3>1
    <3> QED
      BY <3>2, <3>3, TextBytes, MappedTyped
  <2>9. ASSUME NEW w \in Words PROVE Tokenize(new, w) = Tokenize(source, w)
    <3>1. SameMerges(source.merges, new.merges)
      BY <2>4, <2>6
    <3>2. w \in Seq(DOMAIN Utf8)
      BY <2>8
    <3> QED
      BY <2>2, <2>7, <3>1, <3>2, TokenizeSame
  <2>10. last.op = "load" => tok.model = new
    BY DEF TInv, LastIsCurrent, new
  <2> QED
    BY <2>5, <2>9, <2>10
<1> QED
  BY <1>1, Invariant, PTL

-------------------------------------------------------------------------------
(* Texts put together. *)

\* The texts of two lists, one after the other.
LEMMA FlattenConcat ==
    ASSUME NEW S, NEW a \in Seq(Seq(S)), NEW b \in Seq(Seq(S))
    PROVE  FlattenSeq(a \o b) = FlattenSeq(a) \o FlattenSeq(b)
<1> DEFINE n == Len(a)
           m == Len(b)
           c == a \o b
<1>1. /\ n \in Nat /\ m \in Nat /\ Len(c) = n + m /\ Len(c) \in Nat
      /\ \A k \in 1..n : a[k] \in Seq(S) /\ c[k] = a[k]
      /\ \A k \in 1..m : b[k] \in Seq(S) /\ c[n + k] = b[k]
      /\ \A k \in 1..Len(c) : c[k] \in Seq(S)
  OBVIOUS
<1> HIDE DEF n, m, c
<1>2. PICK f : FlattenRun(f, S, a)
  BY <1>1, FlattenTrace DEF n
<1>3. PICK g : FlattenRun(g, S, b)
  BY <1>1, FlattenTrace DEF m
<1>4. PICK h : FlattenRun(h, S, c)
  BY <1>1, FlattenTrace
<1>5. /\ f \in [0..n -> Seq(S)] /\ f[0] = <<>> /\ FlattenSeq(a) = f[n]
      /\ \A k \in 1..n : f[k] = f[k - 1] \o a[k]
  BY <1>2 DEF FlattenRun, n
<1>6. /\ g \in [0..m -> Seq(S)] /\ g[0] = <<>> /\ FlattenSeq(b) = g[m]
      /\ \A k \in 1..m : g[k] = g[k - 1] \o b[k]
  BY <1>3 DEF FlattenRun, m
<1>7. /\ h \in [0..(n + m) -> Seq(S)] /\ h[0] = <<>> /\ FlattenSeq(c) = h[n + m]
      /\ \A k \in 1..(n + m) : h[k] = h[k - 1] \o c[k]
  BY <1>1, <1>4 DEF FlattenRun
<1>8. \A k \in 0..n : h[k] = f[k]
  <2> DEFINE T == {k \in 0..n : h[k] = f[k]}
  <2>1. 0 \in T
    BY <1>1, <1>5, <1>7
  <2>2. ASSUME NEW k \in 1..n, k - 1 \in T PROVE k \in T
    <3>1. k \in 0..n /\ k \in 1..(n + m)
      BY <1>1
    <3>2. h[k] = h[k - 1] \o c[k] /\ f[k] = f[k - 1] \o a[k] /\ c[k] = a[k]
      BY <1>1, <1>5, <1>7, <3>1
    <3> QED
      BY <2>2, <3>1, <3>2
  <2> HIDE DEF T
  <2>3. \A k \in 0..n : k \in T
    BY <1>1, <2>1, <2>2, InductUpto
  <2> QED
    BY <2>3 DEF T
<1>9. \A k \in 0..m : h[n + k] = f[n] \o g[k]
  <2> DEFINE T == {k \in 0..m : h[n + k] = f[n] \o g[k]}
  <2>1. 0 \in T
    <3>1. f[n] \in Seq(S) /\ n \in 0..n /\ 0 \in 0..m
      BY <1>1, <1>5
    <3>2. f[n] \o <<>> = f[n] /\ n + 0 = n
      BY <1>1, <3>1
    <3> QED
      BY <1>6, <1>8, <3>1, <3>2
  <2>2. ASSUME NEW k \in 1..m, k - 1 \in T PROVE k \in T
    <3>1. k \in 0..m /\ k - 1 \in 0..m /\ n + k \in 1..(n + m) /\ (n + k) - 1 = n + (k - 1) /\ n \in 0..n
      BY <1>1
    <3>2. h[n + k] = h[n + (k - 1)] \o c[n + k]
      BY <1>7, <3>1
    <3>3. h[n + (k - 1)] = f[n] \o g[k - 1] /\ c[n + k] = b[k] /\ b[k] \in Seq(S)
      BY <1>1, <2>2
    <3>4. f[n] \in Seq(S) /\ g[k - 1] \in Seq(S)
      BY <1>5, <1>6, <3>1
    <3>5. (f[n] \o g[k - 1]) \o b[k] = f[n] \o (g[k - 1] \o b[k])
      <4> DEFINE s == f[n]
                 t == g[k - 1]
                 u == b[k]
      <4>1. s \in Seq(S) /\ t \in Seq(S) /\ u \in Seq(S)
        BY <3>3, <3>4
      <4> HIDE DEF s, t, u
      <4>2. (s \o t) \o u = s \o (t \o u)
        BY <4>1, ConcatAssociative, SMTT(30)
      <4> QED
        BY <4>2 DEF s, t, u
    <3>6. g[k] = g[k - 1] \o b[k]
      BY <1>6
    <3> QED
      BY <3>1, <3>2, <3>3, <3>5, <3>6
  <2> HIDE DEF T
  <2>3. \A k \in 0..m : k \in T
    BY <1>1, <2>1, <2>2, InductUpto
  <2> QED
    BY <2>3 DEF T
<1>10. m \in 0..m
  BY <1>1
<1> QED
  BY <1>5, <1>6, <1>7, <1>9, <1>10 DEF c

LEMMA FlattenOne ==
    ASSUME NEW S, NEW s \in Seq(S)
    PROVE  FlattenSeq(<<s>>) = s
<1>1. PICK g : FlattenRun(g, S, <<s>>)
  <2>1. Len(<<s>>) = 1 /\ \A k \in 1..1 : <<s>>[k] \in Seq(S)
    OBVIOUS
  <2>2. Len(<<s>>) \in Nat /\ \A k \in 1..Len(<<s>>) : <<s>>[k] \in Seq(S)
    BY <2>1
  <2> QED
    BY <2>2, FlattenTrace
<1>2. Len(<<s>>) = 1 /\ <<s>>[1] = s /\ 1 \in 1..1 /\ 1 - 1 = 0
  OBVIOUS
<1>3. g[0] = <<>> /\ g[1] = g[1 - 1] \o <<s>>[1] /\ FlattenSeq(<<s>>) = g[1]
  BY <1>1, <1>2 DEF FlattenRun
<1>4. <<>> \o s = s
  OBVIOUS
<1> QED
  BY <1>2, <1>3, <1>4

\* One character each.
LEMMA FlattenSingles ==
    ASSUME NEW S, NEW text \in Seq(S)
    PROVE  FlattenSeq([k \in 1..Len(text) |-> <<text[k]>>]) = text
<1> DEFINE n == Len(text)
           ss == [k \in 1..n |-> <<text[k]>>]
<1>1. n \in Nat /\ DOMAIN text = 1..n /\ \A k \in 1..n : text[k] \in S
  OBVIOUS
<1>2. Len(ss) = n /\ \A k \in 1..n : ss[k] = <<text[k]>> /\ ss[k] \in Seq(S)
  BY <1>1
<1> HIDE DEF n, ss
<1>3. PICK g : FlattenRun(g, S, ss)
  BY <1>1, <1>2, FlattenTrace
<1>4. /\ g \in [0..n -> Seq(S)] /\ g[0] = <<>> /\ FlattenSeq(ss) = g[n]
      /\ \A k \in 1..n : g[k] = g[k - 1] \o <<text[k]>>
  BY <1>2, <1>3 DEF FlattenRun
<1> DEFINE Agrees(k) == Len(g[k]) = k /\ \A i \in 1..k : g[k][i] = text[i]
           T == {k \in 0..n : Agrees(k)}
<1>5. 0 \in T
  BY <1>1, <1>4
<1>6. ASSUME NEW k \in 1..n, k - 1 \in T PROVE k \in T
  <2>1. k \in 0..n /\ k - 1 \in 0..n /\ g[k - 1] \in Seq(S) /\ text[k] \in S /\ g[k] = g[k - 1] \o <<text[k]>>
    <3>1. k \in 0..n /\ k - 1 \in 0..n
      BY <1>1
    <3> HIDE DEF T
    <3> QED
      BY <1>1, <1>4, <3>1
  <2> DEFINE s == g[k - 1]
             x == text[k]
             l == k - 1
  <2>2. s \in Seq(S) /\ Len(s) = l /\ l \in Nat /\ k = l + 1 /\ \A i \in 1..l : s[i] = text[i]
    BY <1>6, <2>1
  <2>3. g[k] = s \o <<x>>
    BY <2>1
  <2> HIDE DEF s, x, l
  <2>4. Len(s \o <<x>>) = l + 1 /\ (s \o <<x>>)[l + 1] = x /\ \A i \in 1..l : (s \o <<x>>)[i] = s[i]
    BY <2>2
  <2>5. \A i \in 1..k : i \in 1..l \/ i = k
    BY <2>2
  <2>6. Agrees(k)
    BY <2>2, <2>3, <2>4, <2>5 DEF x
  <2> QED
    BY <2>1, <2>6
<1> HIDE DEF T
<1>7. \A k \in 0..n : k \in T
  BY <1>1, <1>5, <1>6, InductUpto
<1>8. n \in 0..n /\ g[n] \in Seq(S)
  BY <1>1, <1>4
<1>9. Len(g[n]) = n /\ \A i \in 1..n : g[n][i] = text[i]
  BY <1>7, <1>8 DEF T
<1>10. g[n] = text
  BY <1>1, <1>8, <1>9 DEF n
<1> QED
  BY <1>4, <1>10 DEF ss, n

\* A text has the characters of each of its parts.
LEMMA FlattenHolds ==
    ASSUME NEW S, NEW ss \in Seq(Seq(S)), NEW k \in 1..Len(ss), NEW i \in 1..Len(ss[k])
    PROVE  ss[k][i] \in ToSet(FlattenSeq(ss))
<1> DEFINE n == Len(ss)
           x == ss[k][i]
<1>1. n \in Nat /\ \A j \in 1..n : ss[j] \in Seq(S)
  OBVIOUS
<1>2. PICK g : FlattenRun(g, S, ss)
  BY <1>1, FlattenTrace
<1>3. /\ g \in [0..n -> Seq(S)] /\ FlattenSeq(ss) = g[n]
      /\ \A j \in 1..n : g[j] = g[j - 1] \o ss[j]
  BY <1>2 DEF FlattenRun
<1> DEFINE Has(j) == \E l \in 1..Len(g[j]) : g[j][l] = x
           T == {j \in 0..n : j < k \/ Has(j)}
<1> HIDE DEF n, x
<1>4. k \in 1..n /\ i \in 1..Len(ss[k]) /\ x = ss[k][i]
  BY DEF n, x
<1>5. 0 \in T
  BY <1>1, <1>4
<1>6. ASSUME NEW j \in 1..n, j - 1 \in T PROVE j \in T
  <2> DEFINE s == g[j - 1]
             t == ss[j]
  <2>1. j \in 0..n /\ j - 1 \in 0..n /\ s \in Seq(S) /\ t \in Seq(S) /\ g[j] = s \o t
    <3>1. j \in 0..n /\ j - 1 \in 0..n /\ t \in Seq(S)
      BY <1>1 DEF n
    <3> QED
      BY <1>3, <3>1
  <2>2. CASE j < k
    BY <2>1, <2>2
  <2>3. CASE j = k
    <3>1. i \in 1..Len(t) /\ t[i] = x
      BY <1>4, <2>3
    <3> HIDE DEF s, t
    <3>2. Len(s) + i \in 1..Len(s \o t) /\ (s \o t)[Len(s) + i] = t[i]
      BY <2>1, <3>1
    <3>3. Has(j)
      BY <2>1, <3>1, <3>2
    <3> QED
      BY <2>1, <3>3
  <2>4. CASE k < j
    <3>1. ~(j - 1 < k)
      BY <1>4, <2>1, <2>4
    <3>2. Has(j - 1)
      BY <1>6, <3>1
    <3>3. PICK l \in 1..Len(s) : s[l] = x
      BY <3>2
    <3> HIDE DEF s, t
    <3>4. l \in 1..Len(s \o t) /\ (s \o t)[l] = s[l]
      BY <2>1
    <3>5. Has(j)
      BY <2>1, <3>3, <3>4
    <3> QED
      BY <2>1, <3>5
  <2> QED
    BY <1>4, <2>1, <2>2, <2>3, <2>4
<1> HIDE DEF T
<1>7. \A j \in 0..n : j \in T
  BY <1>1, <1>5, <1>6, InductUpto
<1>8. n \in 0..n /\ ~(n < k)
  BY <1>1, <1>4
<1>9. Has(n)
  BY <1>7, <1>8 DEF T
<1>10. DOMAIN g[n] = 1..Len(g[n])
  BY <1>3, <1>8
<1> QED
  BY <1>3, <1>9, <1>10 DEF ToSet, x

-------------------------------------------------------------------------------
(* What symbols and tokens spell. *)

Texts == Seq(DOMAIN Utf8)

Values(v, seq) == [k \in 1..Len(seq) |-> TokenOf(v, seq[k].id)]

Spelling(v, seq) == FlattenSeq(Values(v, seq))

\* The ids of v whose token is a text.
Plain(v) == {id \in Ids(v) : TokenOf(v, id) \in Texts}

\* A list of symbols or tokens with such ids.
Spelled(v, seq) == Len(seq) \in Nat /\ \A k \in 1..Len(seq) : seq[k].id \in Plain(v)

LEMMA ValuesTyped ==
    ASSUME NEW v, NEW seq, Spelled(v, seq)
    PROVE  /\ Values(v, seq) \in Seq(Texts) /\ Len(Values(v, seq)) = Len(seq)
           /\ Spelling(v, seq) \in Texts
<1> DEFINE n == Len(seq)
           value(k) == TokenOf(v, seq[k].id)
<1>1. n \in Nat /\ \A k \in 1..n : value(k) \in Texts
  BY DEF Spelled, Plain
<1>2. Values(v, seq) = [k \in 1..n |-> value(k)]
  BY DEF Values
<1> HIDE DEF n, value
<1>3. [k \in 1..n |-> value(k)] \in Seq(Texts) /\ Len([k \in 1..n |-> value(k)]) = n
  BY <1>1
<1>4. Spelling(v, seq) \in Texts
  BY <1>2, <1>3, FlattenTyped DEF Spelling, Texts
<1> QED
  BY <1>2, <1>3, <1>4 DEF n

\* Lists one after the other spell their texts one after the other.
LEMMA SpellingConcat ==
    ASSUME NEW v, NEW R, NEW a \in Seq(R), NEW b \in Seq(R), Spelled(v, a), Spelled(v, b)
    PROVE  Spelled(v, a \o b) /\ Spelling(v, a \o b) = Spelling(v, a) \o Spelling(v, b)
<1> DEFINE n == Len(a)
           m == Len(b)
           c == a \o b
<1>1. /\ n \in Nat /\ m \in Nat /\ Len(c) = n + m /\ c \in Seq(R)
      /\ \A k \in 1..n : c[k] = a[k]
      /\ \A k \in 1..m : c[n + k] = b[k]
  OBVIOUS
<1>2. /\ \A k \in 1..n : a[k].id \in Plain(v)
      /\ \A k \in 1..m : b[k].id \in Plain(v)
  BY DEF Spelled
<1> HIDE DEF n, m, c
<1>3. ASSUME NEW k \in 1..(n + m) PROVE k \in 1..n \/ (k - n \in 1..m /\ k = n + (k - n))
  BY <1>1
<1>4. Spelled(v, c)
  <2>1. ASSUME NEW k \in 1..(n + m) PROVE c[k].id \in Plain(v)
    <3>1. CASE k \in 1..n
      BY <1>1, <1>2, <3>1
    <3>2. CASE k - n \in 1..m /\ k = n + (k - n)
      <4> DEFINE j == k - n
      <4>1. j \in 1..m /\ k = n + j
        BY <3>2
      <4> HIDE DEF j
      <4> QED
        BY <1>1, <1>2, <4>1
    <3> QED
      BY <1>3, <3>1, <3>2
  <2>2. n + m \in Nat
    BY <1>1
  <2> QED
    BY <1>1, <2>1, <2>2 DEF Spelled
<1> DEFINE A == Values(v, a)
           B == Values(v, b)
           C == Values(v, c)
<1>5. /\ A \in Seq(Texts) /\ B \in Seq(Texts) /\ C \in Seq(Texts)
      /\ Len(A) = n /\ Len(B) = m /\ Len(C) = n + m
  BY <1>1, <1>4, ValuesTyped DEF n, m
<1>6. /\ \A k \in 1..n : A[k] = TokenOf(v, a[k].id)
      /\ \A k \in 1..m : B[k] = TokenOf(v, b[k].id)
      /\ \A k \in 1..(n + m) : C[k] = TokenOf(v, c[k].id)
  BY <1>1 DEF Values, n, m
<1> HIDE DEF A, B, C
<1>7. \A k \in 1..n : C[k] = A[k]
  <2> TAKE k \in 1..n
  <2>1. k \in 1..(n + m)
    BY <1>1
  <2>2. C[k] = TokenOf(v, c[k].id) /\ A[k] = TokenOf(v, a[k].id)
    BY <1>6, <2>1
  <2>3. c[k] = a[k]
    BY <1>1
  <2> QED
    BY <2>2, <2>3
<1>8. \A k \in 1..m : C[n + k] = B[k]
  <2> TAKE k \in 1..m
  <2>1. n + k \in 1..(n + m)
    BY <1>1
  <2>2. C[n + k] = TokenOf(v, c[n + k].id) /\ B[k] = TokenOf(v, b[k].id)
    BY <1>6, <2>1
  <2>3. c[n + k] = b[k]
    BY <1>1
  <2> QED
    BY <2>2, <2>3
<1>9. C = A \o B
  <2> DEFINE D == A \o B
  <2>1. D \in Seq(Texts) /\ Len(D) = n + m
        /\ (\A k \in 1..n : D[k] = A[k]) /\ (\A k \in 1..m : D[n + k] = B[k])
    <3>1. D \in Seq(Texts) /\ Len(D) = Len(A) + Len(B)
      <4>1. A \in Seq(Texts) /\ B \in Seq(Texts)
        BY <1>5
      <4> QED
        BY <4>1, ConcatProperties
    <3>2. /\ \A k \in 1..(n + m) : D[k] = IF k <= n THEN A[k] ELSE B[k - n]
      BY <1>1, <1>5, <3>1, ConcatProperties
    <3> HIDE DEF D
    <3>3. \A k \in 1..m : n + k \in 1..(n + m) /\ ~(n + k <= n) /\ (n + k) - n = k
      BY <1>1
    <3>4. \A k \in 1..n : k \in 1..(n + m) /\ k <= n
      BY <1>1
    <3> QED
      BY <1>5, <3>1, <3>2, <3>3, <3>4
  <2> HIDE DEF D
  <2>2. ASSUME NEW k \in 1..(n + m) PROVE C[k] = D[k]
    <3>1. CASE k \in 1..n
      BY <1>7, <2>1, <3>1
    <3>2. CASE k - n \in 1..m /\ k = n + (k - n)
      <4> DEFINE j == k - n
      <4>1. j \in 1..m /\ k = n + j
        BY <3>2
      <4> HIDE DEF j
      <4> QED
        BY <1>8, <2>1, <4>1
    <3> QED
      BY <1>3, <3>1, <3>2
  <2>3. C = D
    BY <1>1, <1>5, <2>1, <2>2
  <2> QED
    BY <2>3 DEF D
<1>10. FlattenSeq(A \o B) = FlattenSeq(A) \o FlattenSeq(B)
  BY <1>5, FlattenConcat DEF Texts
<1> QED
  BY <1>4, <1>9, <1>10 DEF Spelling, A, B, C, c

LEMMA SpellingOne ==
    ASSUME NEW v, NEW s, s.id \in Plain(v)
    PROVE  Spelled(v, <<s>>) /\ Spelling(v, <<s>>) = TokenOf(v, s.id)
<1>1. Len(<<s>>) = 1 /\ <<s>>[1] = s
  OBVIOUS
<1>2. Spelled(v, <<s>>)
  BY <1>1 DEF Spelled
<1>3. Values(v, <<s>>) = <<TokenOf(v, s.id)>>
  BY <1>1 DEF Values
<1>4. TokenOf(v, s.id) \in Seq(DOMAIN Utf8)
  BY DEF Plain, Texts
<1>5. FlattenSeq(<<TokenOf(v, s.id)>>) = TokenOf(v, s.id)
  BY <1>4, FlattenOne
<1> QED
  BY <1>2, <1>3, <1>5 DEF Spelling

LEMMA SpelledSub ==
    ASSUME NEW v, NEW R, NEW a \in Seq(R), Spelled(v, a), NEW i \in 1..(Len(a) + 1), NEW j \in 0..Len(a)
    PROVE  Spelled(v, SubSeq(a, i, j)) /\ SubSeq(a, i, j) \in Seq(R)
<1> DEFINE n == Len(a)
           c == SubSeq(a, i, j)
<1>1. /\ c \in Seq(R) /\ n \in Nat /\ i \in Int /\ j \in Int
      /\ Len(c) = (IF i <= j THEN j - i + 1 ELSE 0)
      /\ \A k \in 1..Len(c) : c[k] = a[i + k - 1]
  OBVIOUS
<1>2. \A k \in 1..n : a[k].id \in Plain(v)
  BY DEF Spelled
<1>3. i >= 1 /\ j <= n
  OBVIOUS
<1> HIDE DEF c, n
<1>4. ASSUME NEW k \in 1..Len(c) PROVE c[k].id \in Plain(v)
  <2>1. i + k - 1 \in 1..n
    BY <1>1, <1>3
  <2> QED
    BY <1>1, <1>2, <2>1
<1>5. Len(c) \in Nat
  BY <1>1
<1> QED
  BY <1>1, <1>4, <1>5 DEF Spelled, c

\* A list, with two neighbours set apart.
LEMMA SetApart ==
    ASSUME NEW R, NEW s \in Seq(R), NEW i \in 1..(Len(s) - 1)
    PROVE  s = (SubSeq(s, 1, i - 1) \o (<<s[i]>> \o <<s[i + 1]>>)) \o SubSeq(s, i + 2, Len(s))
<1> DEFINE n == Len(s)
           a == SubSeq(s, 1, i - 1)
           c == SubSeq(s, i + 2, n)
           x == s[i]
           y == s[i + 1]
           b == <<x>> \o <<y>>
<1>1. n \in Nat /\ i \in 1..(n - 1) /\ x \in R /\ y \in R /\ s = [k \in 1..n |-> s[k]] /\ n - i - 1 \in Nat /\ i - 1 \in Nat
  OBVIOUS
<1>2. a \in Seq(R) /\ Len(a) = i - 1 /\ \A k \in 1..(i - 1) : a[k] = s[k]
  OBVIOUS
<1>3. c \in Seq(R) /\ Len(c) = n - i - 1 /\ \A k \in 1..(n - i - 1) : c[k] = s[i + 1 + k]
  <2>1. c \in Seq(R)
    OBVIOUS
  <2>2. Len(c) = n - i - 1 /\ \A k \in 1..(n - i - 1) : c[k] = s[k + (i + 2) - 1]
    <3> DEFINE l == i + 2
    <3>1. l \in Nat /\ n \in Nat /\ (IF l <= n THEN n - l + 1 ELSE 0) = n - i - 1
      BY <1>1
    <3> HIDE DEF l
    <3>2. /\ Len(SubSeq(s, l, n)) = (IF l <= n THEN n - l + 1 ELSE 0)
          /\ \A k \in 1..Len(SubSeq(s, l, n)) : SubSeq(s, l, n)[k] = s[k + l - 1]
      BY <3>1
    <3>3. c = SubSeq(s, l, n)
      BY DEF l
    <3> HIDE DEF c, n
    <3>4. Len(c) = n - i - 1 /\ \A k \in 1..(n - i - 1) : c[k] = s[k + l - 1]
      BY <3>1, <3>2, <3>3
    <3> QED
      BY <3>4 DEF l
  <2>3. \A k \in 1..(n - i - 1) : k + (i + 2) - 1 = i + 1 + k
    BY <1>1
  <2> HIDE DEF c, n
  <2> QED
    BY <2>1, <2>2, <2>3
<1> HIDE DEF n, a, c, x, y
<1>4. b \in Seq(R) /\ Len(b) = 2 /\ b[1] = x /\ b[2] = y
  BY <1>1
<1> HIDE DEF b
<1> DEFINE ab == a \o b
<1>5. ab \in Seq(R) /\ Len(ab) = i + 1 /\ \A k \in 1..(i + 1) : ab[k] = IF k <= i - 1 THEN a[k] ELSE b[k - (i - 1)]
  <2>1. ab \in Seq(R) /\ Len(ab) = Len(a) + Len(b)
        /\ \A k \in 1..(Len(a) + Len(b)) : ab[k] = IF k <= Len(a) THEN a[k] ELSE b[k - Len(a)]
    BY <1>2, <1>4, ConcatProperties
  <2>2. Len(a) + Len(b) = i + 1
    BY <1>1, <1>2, <1>4
  <2> HIDE DEF ab
  <2> QED
    BY <1>2, <2>1, <2>2
<1>6. \A k \in 1..(i + 1) : ab[k] = s[k]
  <2> TAKE k \in 1..(i + 1)
  <2> HIDE DEF ab
  <2>1. CASE k \in 1..(i - 1)
    <3>1. k <= i - 1
      BY <1>1, <2>1
    <3>2. ab[k] = a[k]
      BY <1>5, <3>1
    <3> QED
      BY <1>2, <2>1, <3>2
  <2>2. CASE k = i
    <3>1. ~(k <= i - 1) /\ k - (i - 1) = 1
      BY <1>1, <2>2
    <3> QED
      BY <1>4, <1>5, <2>2, <3>1 DEF x
  <2>3. CASE k = i + 1
    <3>1. ~(k <= i - 1) /\ k - (i - 1) = 2
      BY <1>1, <2>3
    <3> QED
      BY <1>4, <1>5, <2>3, <3>1 DEF y
  <2> QED
    BY <1>1, <2>1, <2>2, <2>3
<1> HIDE DEF ab
<1> DEFINE d == ab \o c
<1>7. d \in Seq(R) /\ Len(d) = n /\ \A k \in 1..n : d[k] = IF k <= i + 1 THEN ab[k] ELSE c[k - (i + 1)]
  <2>1. d \in Seq(R) /\ Len(d) = Len(ab) + Len(c)
        /\ \A k \in 1..(Len(ab) + Len(c)) : d[k] = IF k <= Len(ab) THEN ab[k] ELSE c[k - Len(ab)]
    BY <1>3, <1>5, ConcatProperties
  <2>2. Len(ab) + Len(c) = n
    BY <1>1, <1>3, <1>5
  <2> HIDE DEF d
  <2> QED
    BY <1>5, <2>1, <2>2
<1> HIDE DEF d
<1>8. \A k \in 1..n : d[k] = s[k]
  <2> TAKE k \in 1..n
  <2>1. CASE k \in 1..(i + 1)
    <3>1. k <= i + 1
      BY <1>1, <2>1
    <3>2. d[k] = ab[k]
      BY <1>7, <3>1
    <3> QED
      BY <1>6, <2>1, <3>2
  <2>2. CASE ~(k \in 1..(i + 1))
    <3>1. k - (i + 1) \in 1..(n - i - 1) /\ i + 1 + (k - (i + 1)) = k /\ ~(k <= i + 1)
      BY <1>1, <2>2
    <3> QED
      BY <1>3, <1>7, <3>1
  <2> QED
    BY <2>1, <2>2
<1>9. d = [k \in 1..n |-> d[k]]
  BY <1>7
<1>10. d = s
  BY <1>1, <1>8, <1>9
<1> QED
  BY <1>10 DEF d, ab, a, b, c, x, y, n

\* The symbol of a merge spells what the two spelled that it joins: with an empty
\* prefix there is nothing to strip.
LEMMA JoinedSpells ==
    ASSUME NEW m, IsSound(m), OrEmpty(m.opts.prefix) = <<>>, NEW p \in DOMAIN m.merges,
           p[1] \in Plain(m.vocab), p[2] \in Plain(m.vocab)
    PROVE  /\ m.merges[p].id \in Plain(m.vocab)
           /\ TokenOf(m.vocab, m.merges[p].id) = TokenOf(m.vocab, p[1]) \o TokenOf(m.vocab, p[2])
<1> DEFINE a == TokenOf(m.vocab, p[1])
           b == TokenOf(m.vocab, p[2])
           t == TokenOf(m.vocab, m.merges[p].id)
<1>1. a \in Texts /\ b \in Texts
  BY DEF Plain
<1>2. t \in {a \o b, a \o Stripped(b, <<>>)} /\ m.merges[p].id \in Ids(m.vocab)
  BY DEF IsSound, Joined
<1> HIDE DEF a, b, t
<1>3. Stripped(b, <<>>) = b
  <2>1. b \in Seq(DOMAIN Utf8)
    BY <1>1 DEF Texts
  <2>2. SubSeq(b, Len(<<>>) + 1, Len(b)) = b
    BY <2>1
  <2> QED
    BY <2>2 DEF Stripped
<1>4. t = a \o b
  BY <1>2, <1>3
<1>5. a \o b \in Texts
  BY <1>1 DEF Texts
<1> QED
  BY <1>2, <1>4, <1>5 DEF Plain, a, b, t

\* A merge leaves what the symbols spell.
LEMMA MergeOnceSpells ==
    ASSUME NEW m, IsSound(m), OrEmpty(m.opts.prefix) = <<>>,
           \A p \in DOMAIN m.merges : m.merges[p].rank \in Nat,
           NEW R, NEW syms \in Seq(R), MergeOnce(syms, m.merges) \in Seq(R),
           Spelled(m.vocab, syms)
    PROVE  /\ Spelled(m.vocab, MergeOnce(syms, m.merges))
           /\ Spelling(m.vocab, MergeOnce(syms, m.merges)) = Spelling(m.vocab, syms)
<1>1. CASE Points(syms, m.merges) = {}
  BY <1>1, MergeOnceIs
<1>2. CASE Points(syms, m.merges) # {}
  <2> DEFINE i == First(syms, m.merges)
             n == Len(syms)
             v == m.vocab
  <2>1. n \in Nat /\ \A k \in 1..n : syms[k] \in R /\ syms[k].id \in Plain(v)
    BY DEF Spelled
  <2>2. i \in 1..(n - 1) /\ PairIn(syms, i) \in DOMAIN m.merges
    <3>1. i \in Points(syms, m.merges)
      BY <1>2, <2>1, FirstExists
    <3> HIDE DEF i
    <3> QED
      BY <3>1 DEF Points
  <2> HIDE DEF i
  <2> DEFINE x == syms[i]
             y == syms[i + 1]
             z == Symbol(m.merges[PairIn(syms, i)].id, x.len + y.len)
             pre == SubSeq(syms, 1, i - 1)
             post == SubSeq(syms, i + 2, n)
             T == R \cup {z}
  <2>3. x \in R /\ y \in R /\ x.id \in Plain(v) /\ y.id \in Plain(v)
    BY <2>1, <2>2
  <2>4. z.id \in Plain(v) /\ TokenOf(v, z.id) = TokenOf(v, x.id) \o TokenOf(v, y.id)
    <3> DEFINE p == PairIn(syms, i)
    <3>1. p[1] = x.id /\ p[2] = y.id
      BY DEF PairIn
    <3>2. z.id = m.merges[p].id
      BY DEF Symbol
    <3> HIDE DEF p, x, y, z
    <3>3. p \in DOMAIN m.merges
      BY <2>2 DEF p
    <3> QED
      BY <2>3, <3>1, <3>2, <3>3, JoinedSpells
  <2>5. Joint(syms, m.merges, i) = (pre \o <<z>>) \o post
    BY DEF Joint
  <2> HIDE DEF z
  <2>6. Spelled(v, pre) /\ pre \in Seq(R) /\ Spelled(v, post) /\ post \in Seq(R)
    <3>1. 1 \in 1..(Len(syms) + 1) /\ i - 1 \in 0..Len(syms) /\ i + 2 \in 1..(Len(syms) + 1) /\ n \in 0..Len(syms)
      BY <2>1, <2>2
    <3> QED
      BY <3>1, SpelledSub
  <2>7. syms = (pre \o (<<x>> \o <<y>>)) \o post
    BY <2>2, SetApart
  <2>8. /\ Spelled(v, <<x>>) /\ Spelled(v, <<y>>) /\ Spelled(v, <<z>>)
        /\ Spelling(v, <<x>>) = TokenOf(v, x.id) /\ Spelling(v, <<y>>) = TokenOf(v, y.id)
        /\ Spelling(v, <<z>>) = TokenOf(v, z.id)
    BY <2>3, <2>4, SpellingOne
  <2> HIDE DEF n, v, x, y, pre, post
  <2>9. Spelled(v, <<x>> \o <<y>>) /\ Spelling(v, <<x>> \o <<y>>) = Spelling(v, <<z>>)
        /\ <<x>> \o <<y>> \in Seq(T)
    <3>1. <<x>> \in Seq(R) /\ <<y>> \in Seq(R) /\ R \subseteq T
      BY <2>3
    <3>2. <<x>> \o <<y>> \in Seq(R)
      BY <3>1, ConcatProperties
    <3>3. Spelled(v, <<x>> \o <<y>>) /\ Spelling(v, <<x>> \o <<y>>) = Spelling(v, <<x>>) \o Spelling(v, <<y>>)
      BY <2>8, <3>1, SpellingConcat
    <3>4. Spelling(v, <<x>> \o <<y>>) = Spelling(v, <<z>>)
      BY <2>4, <2>8, <3>3
    <3>5. \A q \in Seq(R) : q \in Seq(T)
      BY <3>1
    <3> HIDE DEF T
    <3>6. <<x>> \o <<y>> \in Seq(T)
      BY <3>2, <3>5
    <3> QED
      BY <3>3, <3>4, <3>6
  <2>10. <<z>> \in Seq(T) /\ pre \in Seq(T) /\ post \in Seq(T)
    BY <2>6
  <2> HIDE DEF T
  <2>11. /\ Spelled(v, pre \o (<<x>> \o <<y>>)) /\ Spelled(v, pre \o <<z>>)
         /\ Spelling(v, pre \o (<<x>> \o <<y>>)) = Spelling(v, pre) \o Spelling(v, <<z>>)
         /\ Spelling(v, pre \o <<z>>) = Spelling(v, pre) \o Spelling(v, <<z>>)
         /\ pre \o (<<x>> \o <<y>>) \in Seq(T) /\ pre \o <<z>> \in Seq(T)
    <3> DEFINE xy == <<x>> \o <<y>>
    <3>1. xy \in Seq(T) /\ Spelled(v, xy) /\ Spelling(v, xy) = Spelling(v, <<z>>)
      BY <2>9
    <3> HIDE DEF xy
    <3>2. Spelled(v, pre \o xy) /\ Spelling(v, pre \o xy) = Spelling(v, pre) \o Spelling(v, xy)
      BY <2>6, <2>10, <3>1, SpellingConcat
    <3>3. Spelled(v, pre \o <<z>>) /\ Spelling(v, pre \o <<z>>) = Spelling(v, pre) \o Spelling(v, <<z>>)
      BY <2>6, <2>8, <2>10, SpellingConcat
    <3>4. pre \o xy \in Seq(T) /\ pre \o <<z>> \in Seq(T)
      BY <2>10, <3>1, ConcatProperties
    <3> QED
      BY <3>1, <3>2, <3>3, <3>4 DEF xy
  <2> DEFINE one == pre \o (<<x>> \o <<y>>)
             two == pre \o <<z>>
  <2>12. one \in Seq(T) /\ two \in Seq(T) /\ Spelled(v, one) /\ Spelled(v, two) /\ Spelling(v, one) = Spelling(v, two)
    BY <2>11
  <2>13. syms = one \o post /\ Joint(syms, m.merges, i) = two \o post
    BY <2>5, <2>7
  <2> HIDE DEF one, two
  <2>14. Spelled(v, two \o post) /\ Spelling(v, two \o post) = Spelling(v, two) \o Spelling(v, post)
    BY <2>6, <2>10, <2>12, SpellingConcat
  <2>15. Spelling(v, one \o post) = Spelling(v, one) \o Spelling(v, post)
    BY <2>6, <2>10, <2>12, SpellingConcat
  <2>16. MergeOnce(syms, m.merges) = two \o post
    BY <1>2, <2>13, MergeOnceIs DEF i
  <2> QED
    BY <2>12, <2>13, <2>14, <2>15, <2>16 DEF v
<1> QED
  BY <1>1, <1>2

\* So does merge_all.
LEMMA MergeAllSpells ==
    ASSUME NEW m, IsModel(m), IsSound(m), OrEmpty(m.opts.prefix) = <<>>,
           NEW syms \in Seq(Symbols(Ids(m.vocab))), Spelled(m.vocab, syms)
    PROVE  /\ Spelled(m.vocab, MergeAll(m, syms))
           /\ Spelling(m.vocab, MergeAll(m, syms)) = Spelling(m.vocab, syms)
<1> DEFINE n == Len(syms)
           R == Symbols(Ids(m.vocab))
           v == m.vocab
<1>1. \A p \in DOMAIN m.merges : m.merges[p].rank \in Nat /\ m.merges[p].id \in Ids(m.vocab)
  BY DEF IsModel, IsSound
<1>2. PICK f : /\ MergeTrace(f, syms, m.merges)
               /\ \A k \in 0..n : f[k] \in Seq(R)
               /\ MergeAll(m, syms) = IF m.opts.dropout = "all" THEN syms ELSE f[n]
  BY <1>1, MergeAllTrace
<1>3. n \in Nat /\ f[0] = syms /\ \A k \in 1..n : f[k] = MergeOnce(f[k - 1], m.merges)
  BY <1>2 DEF MergeTrace
<1> HIDE DEF n, R
<1> DEFINE K == {k \in 0..n : Spelled(v, f[k]) /\ Spelling(v, f[k]) = Spelling(v, syms)}
<1>4. 0 \in K
  BY <1>3
<1>5. ASSUME NEW k \in 1..n, k - 1 \in K PROVE k \in K
  <2>1. k \in 0..n /\ k - 1 \in 0..n
    BY <1>3
  <2> DEFINE s == f[k - 1]
             t == f[k]
  <2>2. s \in Seq(R) /\ t \in Seq(R) /\ t = MergeOnce(s, m.merges)
    BY <1>2, <1>3, <2>1
  <2>3. Spelled(v, s) /\ Spelling(v, s) = Spelling(v, syms)
    BY <1>5
  <2> HIDE DEF s, t
  <2>4. Spelled(v, t) /\ Spelling(v, t) = Spelling(v, s)
    BY <1>1, <2>2, <2>3, MergeOnceSpells
  <2> QED
    BY <2>1, <2>3, <2>4 DEF t
<1> HIDE DEF K
<1>6. \A k \in 0..n : k \in K
  BY <1>3, <1>4, <1>5, InductUpto
<1>7. n \in 0..n
  BY <1>3
<1>8. Spelled(v, f[n]) /\ Spelling(v, f[n]) = Spelling(v, syms)
  BY <1>6, <1>7 DEF K
<1> QED
  BY <1>2, <1>8

\* A text whose characters all have a token becomes one symbol for each.
LEMMA ExpandKnown ==
    ASSUME NEW m, OrEmpty(m.opts.prefix) = <<>>, OrEmpty(m.opts.suffix) = <<>>,
           NEW text \in Texts, \A j \in 1..Len(text) : <<text[j]>> \in DOMAIN m.vocab
    PROVE  /\ Len(Expand(m, text)) = Len(text)
           /\ \A j \in 1..Len(text) : Expand(m, text)[j].id = m.vocab[<<text[j]>>]
<1> DEFINE n == Len(text)
           W == Symbols(Ids(m.vocab) \cup {None})
<1>1. n \in Nat /\ text \in Seq(DOMAIN Utf8) /\ \A j \in 1..n : text[j] \in DOMAIN Utf8
  BY DEF Texts
<1>2. PICK g : ExpandRun(g, m, text)
  BY <1>1, ExpandTrace
<1>3. /\ \A k \in 0..n : g[k].syms \in Seq(W)
      /\ g[0].syms = <<>>
      /\ \A k \in 1..n : g[k] = AddCharacter(m, text, g[k - 1], k)
      /\ Expand(m, text) = g[n].syms
  <2> DEFINE V == Written(Ids(m.vocab) \cup {None})
  <2>1. /\ g \in [0..n -> V] /\ g[0] = [syms |-> <<>>, unk |-> FALSE]
        /\ \A k \in 1..n : g[k] = AddCharacter(m, text, g[k - 1], k)
        /\ Expand(m, text) = g[n].syms
    BY <1>2 DEF ExpandRun
  <2>2. \A s \in V : s.syms \in Seq(W)
    BY DEF Written
  <2> HIDE DEF V, n, W
  <2> QED
    BY <2>1, <2>2
<1> DEFINE Agrees(s, k) == Len(s) = k /\ \A j \in 1..k : s[j].id = m.vocab[<<text[j]>>]
           K == {k \in 0..n : Agrees(g[k].syms, k)}
<1>4. 0 \in K
  BY <1>1, <1>3
<1>5. ASSUME NEW k \in 1..n, k - 1 \in K PROVE k \in K
  <2>1. k \in 0..n /\ k - 1 \in 0..n /\ k - 1 \in Nat /\ k = (k - 1) + 1
    BY <1>1
  <2>2. Key(m.opts, text, k) = <<text[k]>>
    <3>1. Key(m.opts, text, k) = <<>> \o <<text[k]>> \o <<>>
      BY DEF Key
    <3> QED
      BY <3>1
  <2> DEFINE s == g[k - 1].syms
             x == Symbol(m.vocab[<<text[k]>>], Len(Utf8[text[k]]))
  <2>3. <<text[k]>> \in DOMAIN m.vocab
    OBVIOUS
  <2>4. g[k].syms = Append(s, x)
    <3>1. AddCharacter(m, text, g[k - 1], k).syms = Append(g[k - 1].syms, Symbol(m.vocab[<<text[k]>>], Len(Utf8[text[k]])))
      BY <2>2, <2>3 DEF AddCharacter
    <3> QED
      BY <1>3, <3>1
  <2>5. s \in Seq(W) /\ Agrees(s, k - 1)
    BY <1>3, <1>5, <2>1
  <2>6. x.id = m.vocab[<<text[k]>>]
    BY DEF Symbol
  <2> HIDE DEF s, x, W
  <2> DEFINE l == k - 1
             T == W \cup {x}
  <2>7. Len(s) = l /\ \A j \in 1..l : s[j].id = m.vocab[<<text[j]>>]
    BY <2>5
  <2>8. l \in Nat /\ k = l + 1
    BY <2>1
  <2>9. s \in Seq(T) /\ x \in T
    BY <2>5
  <2> HIDE DEF l, T
  <2>10. Len(Append(s, x)) = k /\ Append(s, x)[k] = x /\ \A j \in 1..l : Append(s, x)[j] = s[j]
    BY <2>7, <2>8, <2>9
  <2>11. \A j \in 1..k : j \in 1..l \/ j = k
    BY <2>8
  <2>12. Agrees(Append(s, x), k)
    BY <2>6, <2>7, <2>10, <2>11
  <2> QED
    BY <2>1, <2>4, <2>12
<1> HIDE DEF K
<1>6. \A k \in 0..n : k \in K
  BY <1>1, <1>4, <1>5, InductUpto
<1>7. n \in 0..n
  BY <1>1
<1>8. Agrees(g[n].syms, n)
  BY <1>6, <1>7 DEF K
<1> QED
  BY <1>3, <1>8

\* They spell the text.
LEMMA ExpandSpells ==
    ASSUME NEW m, IsVocab(m.vocab), OrEmpty(m.opts.prefix) = <<>>, OrEmpty(m.opts.suffix) = <<>>,
           NEW text \in Texts, \A j \in 1..Len(text) : <<text[j]>> \in DOMAIN m.vocab
    PROVE  /\ ~Incomplete(Expand(m, text))
           /\ Spelled(m.vocab, Expand(m, text))
           /\ Spelling(m.vocab, Expand(m, text)) = text
<1> DEFINE n == Len(text)
           v == m.vocab
           s == Expand(m, text)
<1>1. n \in Nat /\ text \in Seq(DOMAIN Utf8) /\ \A j \in 1..n : <<text[j]>> \in Texts
  BY DEF Texts
<1>2. Len(s) = n /\ \A j \in 1..n : s[j].id = v[<<text[j]>>]
  BY ExpandKnown
<1>3. s \in Seq(Symbols(Ids(v) \cup {None}))
  BY <1>1, ExpandTyped
<1> HIDE DEF s
<1>4. ASSUME NEW j \in 1..n
      PROVE  s[j].id \in Ids(v) /\ TokenOf(v, s[j].id) = <<text[j]>> /\ s[j].id \in Nat
  <2>1. <<text[j]>> \in DOMAIN v
    OBVIOUS
  <2>2. v[<<text[j]>>] \in Ids(v) /\ TokenOf(v, v[<<text[j]>>]) = <<text[j]>> /\ v[<<text[j]>>] \in Nat
    BY <2>1, TokenOfVocab DEF IsVocab
  <2> QED
    BY <1>2, <2>2
<1>5. ~Incomplete(s)
  <2>1. DOMAIN s = 1..n
    BY <1>1, <1>2, <1>3
  <2> HIDE DEF n
  <2> QED
    BY <1>4, <2>1, NoneAssumption DEF Incomplete
<1>6. Spelled(v, s)
  BY <1>1, <1>2, <1>4 DEF Spelled, Plain
<1>7. Values(v, s) = [k \in 1..n |-> <<text[k]>>]
  BY <1>2, <1>4 DEF Values
<1>8. FlattenSeq([k \in 1..n |-> <<text[k]>>]) = text
  BY <1>1, FlattenSingles
<1> QED
  BY <1>5, <1>6, <1>7, <1>8 DEF s, Spelling

\* Tokens have the ids of their symbols.
LEMMA WordToTokensIds ==
    ASSUME NEW m, NEW R, NEW syms \in Seq(R)
    PROVE  /\ Len(WordToTokens(m, syms)) = Len(syms)
           /\ \A k \in 1..Len(syms) : WordToTokens(m, syms)[k].id = syms[k].id
<1> DEFINE n == Len(syms)
           first(k) == Sum([j \in 1..(k - 1) |-> syms[j].len])
           token(k) == [id |-> syms[k].id, value |-> TokenOf(m.vocab, syms[k].id),
                        first |-> first(k), last |-> first(k) + syms[k].len]
<1>1. n \in Nat /\ DOMAIN syms = 1..n
  OBVIOUS
<1>2. WordToTokens(m, syms) = [k \in 1..n |-> token(k)]
  BY <1>1 DEF WordToTokens
<1>3. \A k \in 1..n : token(k).id = syms[k].id
  <2> HIDE DEF first
  <2> QED
    OBVIOUS
<1> HIDE DEF token, n
<1>4. Len([k \in 1..n |-> token(k)]) = n
  BY <1>1
<1> QED
  BY <1>2, <1>3, <1>4 DEF n

\* Lists with the same ids spell the same.
LEMMA SameIdsSpell ==
    ASSUME NEW v, NEW a, NEW b, Len(a) = Len(b), \A k \in 1..Len(a) : a[k].id = b[k].id,
           Spelled(v, a)
    PROVE  Spelled(v, b) /\ Spelling(v, b) = Spelling(v, a)
<1>1. Spelled(v, b)
  BY DEF Spelled
<1>2. Values(v, b) = Values(v, a)
  BY DEF Values
<1> QED
  BY <1>1, <1>2 DEF Spelling

\* tokenize(): the tokens of such a text spell it, however they were merged.
LEMMA TokenizeSpells ==
    ASSUME NEW m, IsModel(m), IsSound(m),
           OrEmpty(m.opts.prefix) = <<>>, OrEmpty(m.opts.suffix) = <<>>,
           NEW text \in Texts, \A j \in 1..Len(text) : <<text[j]>> \in DOMAIN m.vocab
    PROVE  Spelled(m.vocab, Tokenize(m, text)) /\ Spelling(m.vocab, Tokenize(m, text)) = text
<1> DEFINE v == m.vocab
           syms == Expand(m, text)
           whole == m.opts.ignore /\ text \in DOMAIN v
<1>1. IsVocab(v) /\ text \in Seq(DOMAIN Utf8)
  BY DEF IsModel, Texts
<1>2. ~Incomplete(syms) /\ Spelled(v, syms) /\ Spelling(v, syms) = text
  BY <1>1, ExpandSpells
<1>3. syms \in Seq(Symbols(Ids(v)))
  BY <1>1, <1>2, ExpandComplete
<1>4. Tokenize(m, text) =
        IF text = <<>> THEN <<>>
        ELSE IF whole THEN <<Whole(m, text)>>
        ELSE IF Incomplete(syms) THEN <<>>
        ELSE WordToTokens(m, MergeAll(m, syms))
  BY DEF Tokenize
<1>5. /\ text = <<>> => Tokenize(m, text) = <<>>
      /\ text # <<>> /\ whole => Tokenize(m, text) = <<Whole(m, text)>>
      /\ text # <<>> /\ ~whole => Tokenize(m, text) = WordToTokens(m, MergeAll(m, syms))
  <2> HIDE DEF syms, whole
  <2>1. ASSUME text = <<>> PROVE Tokenize(m, text) = <<>>
    BY <1>4, <2>1
  <2>2. ASSUME text # <<>>, whole PROVE Tokenize(m, text) = <<Whole(m, text)>>
    BY <1>4, <2>2
  <2>3. ASSUME text # <<>>, ~whole PROVE Tokenize(m, text) = WordToTokens(m, MergeAll(m, syms))
    BY <1>2, <1>4, <2>3
  <2> QED
    BY <2>1, <2>2, <2>3
<1>6. CASE text = <<>>
  <2>1. Tokenize(m, text) = <<>>
    BY <1>6, <1>5
  <2>2. Len(<<>>) = 0 /\ 1..0 = {}
    OBVIOUS
  <2>3. syms \in Seq(Symbols(Ids(v))) /\ Len(syms) = 0
    <3>1. Len(syms) = Len(text)
      BY ExpandKnown
    <3> QED
      BY <1>3, <1>6, <2>2, <3>1
  <2> HIDE DEF syms
  <2>4. syms = <<>>
    BY <2>3
  <2> QED
    BY <1>2, <2>1, <2>4
<1>7. CASE text # <<>> /\ whole
  <2>1. Tokenize(m, text) = <<Whole(m, text)>>
    BY <1>7, <1>5
  <2>2. Whole(m, text).id = v[text]
    BY DEF Whole
  <2>3. v[text] \in Plain(v) /\ TokenOf(v, v[text]) = text
    BY <1>1, <1>7, TokenOfVocab DEF Plain
  <2> DEFINE t == Whole(m, text)
  <2>4. t.id \in Plain(v) /\ TokenOf(v, t.id) = text
    BY <2>2, <2>3
  <2> HIDE DEF t
  <2>5. Spelled(v, <<t>>) /\ Spelling(v, <<t>>) = TokenOf(v, t.id)
    BY <2>4, SpellingOne
  <2> QED
    BY <2>1, <2>4, <2>5 DEF t
<1>8. CASE text # <<>> /\ ~whole
  <2> DEFINE merged == MergeAll(m, syms)
  <2>1. Tokenize(m, text) = WordToTokens(m, merged)
    BY <1>8, <1>5
  <2>2. Spelled(v, merged) /\ Spelling(v, merged) = text
    BY <1>2, <1>3, MergeAllSpells
  <2>3. merged \in Seq(Symbols(Ids(v)))
    <3>1. \A p \in DOMAIN m.merges : m.merges[p].rank \in Nat /\ m.merges[p].id \in Ids(v)
      BY DEF IsModel, IsSound
    <3> QED
      BY <1>3, <3>1, MergeAllTyped
  <2> HIDE DEF merged
  <2> DEFINE tokens == WordToTokens(m, merged)
  <2>4. Len(tokens) = Len(merged) /\ \A k \in 1..Len(merged) : tokens[k].id = merged[k].id
    BY <2>3, WordToTokensIds
  <2> HIDE DEF tokens
  <2>5. Spelled(v, tokens) /\ Spelling(v, tokens) = text
    BY <2>2, <2>4, SameIdsSpell
  <2> QED
    BY <2>1, <2>5 DEF tokens
<1> QED
  BY <1>6, <1>7, <1>8

\* encode(): the tokens of a text spell it, pre-token by pre-token.
LEMMA TokensOfSpells ==
    ASSUME NEW m, IsModel(m), IsSound(m),
           OrEmpty(m.opts.prefix) = <<>>, OrEmpty(m.opts.suffix) = <<>>,
           NEW text \in Seq(Texts), \A c \in ToSet(FlattenSeq(text)) : <<c>> \in DOMAIN m.vocab
    PROVE  /\ Spelled(m.vocab, TokensOf(m, text))
           /\ Spelling(m.vocab, TokensOf(m, text)) = FlattenSeq(text)
<1> DEFINE n == Len(text)
           v == m.vocab
           T == Tokens(DOMAIN m.vocab)
           found(k) == Tokenize(m, text[k])
           moved(k) == [i \in DOMAIN found(k) |-> [found(k)[i] EXCEPT !.first = @ + Offset(text, k),
                                                                     !.last  = @ + Offset(text, k)]]
           rows == [k \in 1..n |-> moved(k)]
<1>1. n \in Nat /\ DOMAIN text = 1..n /\ \A k \in 1..n : text[k] \in Texts
  OBVIOUS
<1>2. ASSUME NEW k \in 1..n
      PROVE  moved(k) \in Seq(T) /\ Spelled(v, moved(k)) /\ Spelling(v, moved(k)) = text[k]
  <2>1. text[k] \in Texts /\ text[k] \in Seq(DOMAIN Utf8)
    BY <1>1 DEF Texts
  <2>2. \A j \in 1..Len(text[k]) : <<text[k][j]>> \in DOMAIN v
    <3> TAKE j \in 1..Len(text[k])
    <3>1. text \in Seq(Seq(DOMAIN Utf8))
      BY DEF Texts
    <3>2. text[k][j] \in ToSet(FlattenSeq(text))
      BY <3>1, FlattenHolds
    <3> QED
      BY <3>2
  <2> DEFINE s == found(k)
             w == text[k]
  <2>3. s \in Seq(T)
    BY <2>1, TokenizeTyped
  <2>4. Spelled(v, s) /\ Spelling(v, s) = w
    <3>1. w \in Texts /\ \A j \in 1..Len(w) : <<w[j]>> \in DOMAIN m.vocab
      BY <2>1, <2>2
    <3>2. s = Tokenize(m, w)
      OBVIOUS
    <3> HIDE DEF w, s
    <3> QED
      BY <3>1, <3>2, TokenizeSpells
  <2>5. Offset(text, k) \in Nat
    <3>1. k \in 1..(Len(text) + 1) /\ text \in Seq(Seq(DOMAIN Utf8))
      BY <1>1 DEF Texts
    <3> QED
      BY <3>1, OffsetNat
  <2> DEFINE o == Offset(text, k)
             t == [i \in DOMAIN s |-> [s[i] EXCEPT !.first = @ + o, !.last = @ + o]]
  <2> HIDE DEF s, o
  <2>6. t \in Seq(T)
    BY <2>3, <2>5, ShiftTyped DEF o
  <2>7. Len(t) = Len(s) /\ \A i \in 1..Len(s) : t[i].id = s[i].id
    <3>1. DOMAIN s = 1..Len(s) /\ Len(s) \in Nat /\ \A i \in 1..Len(s) : s[i] \in T
      BY <2>3
    <3>2. DOMAIN t = 1..Len(s)
      BY <3>1
    <3>3. Len(t) = Len(s)
      <4> HIDE DEF t
      <4> QED
        BY <2>6, <3>1, <3>2
    <3>4. \A x \in T : [x EXCEPT !.first = @ + o, !.last = @ + o].id = x.id
      BY DEF Tokens
    <3> HIDE DEF T
    <3> QED
      BY <3>1, <3>3, <3>4
  <2> HIDE DEF t
  <2>8. Spelled(v, t) /\ Spelling(v, t) = w
    BY <2>4, <2>7, SameIdsSpell, SMTT(30)
  <2> QED
    BY <2>6, <2>8 DEF t, s, o
<1>3. TokensOf(m, text) = FlattenSeq(rows)
  BY <1>1 DEF TokensOf
<1> HIDE DEF moved, n, T
<1>4. Len(rows) = n /\ \A k \in 1..n : rows[k] = moved(k)
  BY <1>1
<1> HIDE DEF rows
<1>5. PICK g : FlattenRun(g, T, rows)
  BY <1>1, <1>2, <1>4, FlattenTrace
<1>6. PICK h : FlattenRun(h, DOMAIN Utf8, text)
  <2>1. Len(text) \in Nat /\ \A k \in 1..Len(text) : text[k] \in Seq(DOMAIN Utf8)
    BY <1>1 DEF Texts, n
  <2> QED
    BY <2>1, FlattenTrace
<1>7. /\ g \in [0..n -> Seq(T)] /\ g[0] = <<>> /\ FlattenSeq(rows) = g[n]
      /\ \A k \in 1..n : g[k] = g[k - 1] \o moved(k)
  BY <1>4, <1>5 DEF FlattenRun
<1>8. /\ h[0] = <<>> /\ FlattenSeq(text) = h[n]
      /\ \A k \in 1..n : h[k] = h[k - 1] \o text[k]
  BY <1>6 DEF FlattenRun, n
<1> DEFINE K == {k \in 0..n : Spelled(v, g[k]) /\ Spelling(v, g[k]) = h[k]}
<1>9. 0 \in K
  <2>1. Spelled(v, <<>>)
    BY DEF Spelled
  <2>2. Spelling(v, <<>>) = <<>>
    <3>1. <<>> \in Texts /\ \A j \in 1..Len(<<>>) : <<(<<>>)[j]>> \in DOMAIN m.vocab
      BY DEF Texts
    <3>2. Spelling(v, Tokenize(m, <<>>)) = <<>>
      BY <3>1, TokenizeSpells
    <3>3. Tokenize(m, <<>>) = <<>>
      BY DEF Tokenize
    <3> QED
      BY <3>2, <3>3
  <2> QED
    BY <1>1, <1>7, <1>8, <2>1, <2>2
<1>10. ASSUME NEW k \in 1..n, k - 1 \in K PROVE k \in K
  <2> DEFINE s == g[k - 1]
             t == moved(k)
  <2>1. k \in 0..n /\ k - 1 \in 0..n
    BY <1>1
  <2>2. s \in Seq(T) /\ t \in Seq(T) /\ g[k] = s \o t /\ h[k] = h[k - 1] \o text[k]
    BY <1>2, <1>7, <1>8, <2>1
  <2>3. Spelled(v, s) /\ Spelling(v, s) = h[k - 1] /\ Spelled(v, t) /\ Spelling(v, t) = text[k]
    BY <1>2, <1>10
  <2> HIDE DEF s, t
  <2>4. Spelled(v, s \o t) /\ Spelling(v, s \o t) = Spelling(v, s) \o Spelling(v, t)
    BY <2>2, <2>3, SpellingConcat
  <2> QED
    BY <2>1, <2>2, <2>3, <2>4
<1> HIDE DEF K
<1>11. \A k \in 0..n : k \in K
  BY <1>1, <1>9, <1>10, InductUpto
<1>12. n \in 0..n
  BY <1>1
<1>13. Spelled(v, g[n]) /\ Spelling(v, g[n]) = h[n]
  BY <1>11, <1>12 DEF K
<1> QED
  BY <1>3, <1>7, <1>8, <1>13

-------------------------------------------------------------------------------
(* decode(): what it keeps. *)

\* The first places are kept in their order.
LEMMA PickFirst ==
    ASSUME NEW s, NEW n \in Nat
    PROVE  Pick(s, 1..n) = [k \in 1..n |-> s[k]]
<1>1. Cardinality(1..n) = n
  BY FS_Interval
<1>2. ASSUME NEW k \in 1..n PROVE NthLeast(1..n, k) = k
  <2>1. ASSUME NEW x \in 1..n PROVE Cardinality({y \in 1..n : y < x}) = x - 1
    <3>1. {y \in 1..n : y < x} = 1..(x - 1) /\ x - 1 \in Nat
      OBVIOUS
    <3>2. Cardinality(1..(x - 1)) = x - 1
      BY <3>1, FS_Interval
    <3> QED
      BY <3>1, <3>2
  <2>2. \A x \in 1..n : Cardinality({y \in 1..n : y < x}) = k - 1 <=> x = k
    BY <2>1
  <2> QED
    BY <2>2 DEF NthLeast
<1> QED
  BY <1>1, <1>2 DEF Pick

\* Putting together drops the padding and keeps the tokens of the text.
LEMMA SpeltOwn ==
    ASSUME NEW own, NEW tokens, NEW skip, NEW p, Len(own) \in Nat, NEW size \in Nat, Len(own) <= size,
           DOMAIN tokens = 1..size,
           \A k \in 1..Len(own) : /\ tokens[k].id = own[k].id
                                  /\ ~Skips(TokenOf(tok.model.vocab, own[k].id), skip),
           \A k \in (Len(own) + 1)..size : tokens[k].id = p,
           p \in Ids(tok.model.vocab) => Skips(TokenOf(tok.model.vocab, p), skip),
           Spelled(tok.model.vocab, own)
    PROVE  Spelt([k \in DOMAIN tokens |-> tokens[k].id], skip) = Spelling(tok.model.vocab, own)
<1> DEFINE n == Len(own)
           v == tok.model.vocab
           ids == [k \in DOMAIN tokens |-> tokens[k].id]
           some == {k \in DOMAIN ids : ids[k] \in Ids(v)}
           known == Pick(ids, some)
           texts == [k \in DOMAIN known |-> TokenOf(v, known[k])]
           kept == {k \in DOMAIN texts : ~Skips(texts[k], skip)}
           m == IF p \in Ids(v) THEN size ELSE n
<1>1. Spelt(ids, skip) = FlattenSeq(Pick(texts, kept))
  BY DEF Spelt
<1>2. /\ n \in Nat /\ m \in Nat /\ n <= m /\ m <= size
      /\ DOMAIN ids = 1..size
      /\ \A k \in 1..n : ids[k] = own[k].id /\ ids[k] \in Ids(v) /\ ~Skips(TokenOf(v, ids[k]), skip)
      /\ \A k \in (n + 1)..size : ids[k] = p
  <2>1. DOMAIN ids = 1..size /\ \A k \in 1..size : ids[k] = tokens[k].id
    OBVIOUS
  <2>2. \A k \in 1..n : k \in 1..size
    OBVIOUS
  <2>3. \A k \in (n + 1)..size : k \in 1..size
    OBVIOUS
  <2>4. \A k \in 1..n : own[k].id \in Ids(v)
    BY DEF Spelled, Plain
  <2> HIDE DEF ids
  <2> QED
    BY <2>1, <2>2, <2>3, <2>4
<1> HIDE DEF n, ids
<1>3. some = 1..m
  <2>1. ASSUME NEW k \in 1..size PROVE k \in 1..n \/ k \in (n + 1)..size
    BY <1>2
  <2>2. ASSUME p \in Ids(v) PROVE some = 1..m
    <3>1. \A k \in 1..size : ids[k] \in Ids(v)
      BY <1>2, <2>1, <2>2
    <3> QED
      BY <1>2, <2>2, <3>1
  <2>3. ASSUME p \notin Ids(v) PROVE some = 1..m
    <3>1. \A k \in 1..size : ids[k] \in Ids(v) <=> k \in 1..n
      <4> TAKE k \in 1..size
      <4>1. CASE k \in 1..n
        BY <1>2, <4>1
      <4>2. CASE k \in (n + 1)..size
        BY <1>2, <2>3, <4>2
      <4> QED
        BY <2>1, <4>1, <4>2
    <3>2. \A k \in 1..n : k \in 1..size
      BY <1>2
    <3> QED
      BY <1>2, <2>3, <3>1, <3>2
  <2> QED
    BY <2>2, <2>3
<1> HIDE DEF some
<1>4. known = [k \in 1..m |-> ids[k]]
  BY <1>2, <1>3, PickFirst
<1> HIDE DEF known
<1>5. texts = [k \in 1..m |-> TokenOf(v, ids[k])]
  BY <1>4
<1> HIDE DEF texts
<1>6. kept = 1..n
  <2>1. \A k \in 1..n : k \in 1..m
    BY <1>2
  <2>2. ASSUME NEW k \in 1..m, k \notin 1..n PROVE Skips(texts[k], skip)
    <3>1. k \in (n + 1)..size
      BY <1>2, <2>2
    <3>2. p \in Ids(v)
      BY <1>2, <2>2
    <3>3. ids[k] = p
      BY <1>2, <3>1
    <3> QED
      BY <1>5, <3>2, <3>3
  <2>3. \A k \in 1..n : ~Skips(texts[k], skip)
    BY <1>2, <1>5, <2>1
  <2>4. DOMAIN texts = 1..m
    BY <1>5
  <2> HIDE DEF m
  <2> QED
    BY <2>1, <2>2, <2>3, <2>4
<1> HIDE DEF kept
<1>7. Pick(texts, kept) = [k \in 1..n |-> texts[k]]
  BY <1>2, <1>6, PickFirst
<1>8. [k \in 1..n |-> texts[k]] = Values(v, own)
  <2>1. \A k \in 1..n : texts[k] = TokenOf(v, own[k].id)
    <3>1. \A k \in 1..n : k \in 1..m
      BY <1>2
    <3> QED
      BY <1>2, <1>5, <3>1
  <2>2. Values(v, own) = [k \in 1..n |-> TokenOf(v, own[k].id)]
    BY DEF Values, n
  <2> QED
    BY <2>1, <2>2
<1> QED
  BY <1>1, <1>7, <1>8 DEF Spelling, ids

\* A list that is filled up to some length.
LEMMA FilledUp ==
    ASSUME NEW S, NEW own \in Seq(S), NEW more \in Nat, NEW x, NEW fill \in [1..more -> {x}]
    PROVE  /\ DOMAIN (own \o fill) = 1..(Len(own) + more)
           /\ \A i \in 1..Len(own) : (own \o fill)[i] = own[i]
           /\ \A i \in (Len(own) + 1)..(Len(own) + more) : (own \o fill)[i] = x
<1> DEFINE n == Len(own)
           T == S \cup {x}
<1>1. n \in Nat /\ more \in Nat /\ own = [i \in 1..n |-> own[i]]
  OBVIOUS
<1>2. \A i \in 1..n : own[i] \in T
  OBVIOUS
<1> HIDE DEF n
<1>4. fill \in Seq(T) /\ Len(fill) = more /\ \A j \in 1..more : fill[j] = x
  <2>1. x \in T
    OBVIOUS
  <2> HIDE DEF T
  <2> QED
    BY <1>1, <2>1
<1> HIDE DEF T
<1>5. own \in Seq(T) /\ Len(own) = n
  BY <1>1, <1>2 DEF n
<1> DEFINE all == own \o fill
<1>6. all \in Seq(T) /\ Len(all) = n + more
      /\ \A i \in 1..(n + more) : all[i] = IF i <= n THEN own[i] ELSE fill[i - n]
  BY <1>4, <1>5, ConcatProperties
<1> HIDE DEF all
<1>7. DOMAIN all = 1..(n + more) /\ n + more \in Nat /\ n <= n + more
  BY <1>1, <1>6
<1>8. \A i \in 1..n : all[i] = own[i]
  <2>1. \A i \in 1..n : i <= n /\ i \in 1..(n + more)
    BY <1>1
  <2> QED
    BY <1>6, <2>1
<1>9. \A i \in (n + 1)..(n + more) : all[i] = x
  <2>1. \A i \in (n + 1)..(n + more) : i \in 1..(n + more) /\ ~(i <= n) /\ i - n \in 1..more
    BY <1>1
  <2> QED
    BY <1>4, <1>6, <2>1
<1> QED
  BY <1>7, <1>8, <1>9 DEF all, n

\* The tokens of a row, if nothing is truncated: those of its text and then padding.
LEMMA RowTokens ==
    ASSUME TInv, last.op = "encode", HasBpe, tok.trunc = None, NEW k \in DOMAIN last.rows
    PROVE  LET own    == TokensOf(tok.model, last.texts[k])
               tokens == last.rows[k].tokens
           IN \E l \in Nat :
                 /\ Len(own) \in Nat /\ Len(own) <= l /\ DOMAIN tokens = 1..l
                 /\ \A i \in 1..Len(own) : tokens[i] = own[i]
                 /\ \A i \in (Len(own) + 1)..l : tok.pad # None /\ tokens[i] = PadToken(tok.pad)
<1> DEFINE text == last.texts[k]
           own == TokensOf(tok.model, text)
           plain == RowsOf(tok, last.texts)
           T == Tokens(DOMAIN tok.model.vocab)
           n == Len(own)
<1>1. /\ DOMAIN last.rows = DOMAIN last.texts /\ last.texts \in Seq(Seq(Seq(DOMAIN Utf8)))
  <2>1. last.texts \in Seq(Seq(Seq(DOMAIN Utf8)))
    BY TextsTyped
  <2> QED
    BY <2>1, BatchFacts
<1>2. text \in Seq(Seq(DOMAIN Utf8))
  <2> DEFINE texts == last.texts
  <2>1. texts \in Seq(Seq(Seq(DOMAIN Utf8))) /\ k \in DOMAIN texts
    BY <1>1
  <2> HIDE DEF texts
  <2>2. texts[k] \in Seq(Seq(DOMAIN Utf8))
    BY <2>1
  <2> QED
    BY <2>2 DEF texts
<1>3. own \in Seq(T)
  <2>1. IsModel(tok.model) /\ IsSound(tok.model)
    BY DEF TInv, IsSoundModel, HasBpe
  <2> HIDE DEF text
  <2> QED
    BY <1>2, <2>1, TokensOfTyped
<1>4. plain[k].tokens = own
  <2>1. plain[k] = RowOf(Truncated(own, tok.trunc))
    BY <1>1 DEF RowsOf, HasBpe
  <2>2. Truncated(own, tok.trunc) = own
    BY DEF Truncated
  <2> QED
    BY <2>1, <2>2 DEF RowOf
<1>5. last.rows = Padded(plain, tok.pad) /\ DOMAIN plain = DOMAIN last.rows
  BY <1>1 DEF TInv, LastIsCurrent, RowsOf
<1> HIDE DEF plain, own, T
<1>6. n \in Nat /\ DOMAIN own = 1..n
  BY <1>3
<1> DEFINE tokens == last.rows[k].tokens
           Good(l) == /\ n <= l /\ DOMAIN tokens = 1..l
                      /\ \A i \in 1..n : tokens[i] = own[i]
                      /\ \A i \in (n + 1)..l : tok.pad # None /\ tokens[i] = PadToken(tok.pad)
<1>7. CASE tok.pad = None
  <2>1. tokens = own
    BY <1>4, <1>5, <1>7 DEF Padded
  <2>2. (n + 1)..n = {}
    BY <1>6
  <2> HIDE DEF tokens
  <2>3. Good(n)
    BY <1>6, <2>1, <2>2
  <2> QED
    BY <1>6, <2>3 DEF own, tokens
<1>8. CASE tok.pad # None
  <2> DEFINE target == Target(plain, tok.pad)
             missing == 1..(target - Len(own))
             padded == own \o [j \in missing |-> PadToken(tok.pad)]
  <2>1. target \in Nat
    <3>1. PICK count \in Nat : DOMAIN plain = 1..count
      BY <1>1, <1>5
    <3>2. \A j \in 1..count : plain[j] = Row(last.texts[j])
      BY <1>1, <1>5, <3>1 DEF RowsOf, Row, plain
    <3>3. \A j \in 1..count : Len(Row(last.texts[j]).tokens) \in Nat
      BY <1>5, <3>1, BatchFacts
    <3>4. \A j \in 1..count : Len(plain[j].tokens) \in Nat
      BY <3>2, <3>3
    <3>5. tok.pad.max # None => tok.pad.max \in Nat
      BY <1>8 DEF TInv, IsTokenizer, AreRowOptions
    <3> QED
      BY <3>1, <3>4, <3>5, TargetFacts
  <2>2. tokens = padded
    <3> DEFINE row == last.rows[k]
               tail == [j \in missing |-> PadToken(tok.pad)]
               zeros == [j \in missing |-> 0]
    <3>1. row = LET more == 1..(target - Len(plain[k].tokens))
                IN [tokens |-> plain[k].tokens \o [j \in more |-> PadToken(tok.pad)],
                    mask   |-> plain[k].mask \o [j \in more |-> 0]]
      BY <1>5, <1>8 DEF Padded
    <3>2. row = [tokens |-> own \o tail, mask |-> plain[k].mask \o zeros]
      <4> HIDE DEF target, row
      <4> QED
        BY <1>4, <3>1
    <3> HIDE DEF row, tail, zeros
    <3>3. row.tokens = own \o tail
      BY <3>2
    <3> QED
      BY <3>3 DEF row, tail
  <2> DEFINE x == PadToken(tok.pad)
             fill == [j \in 1..(target - Len(own)) |-> x]
  <2>3. tokens = own \o fill /\ fill \in [1..(target - Len(own)) -> {x}]
    BY <2>2
  <2> HIDE DEF x, fill, target, tokens
  <2> DEFINE more == IF n < target THEN target - n ELSE 0
             l == n + more
  <2>4. more \in Nat /\ 1..(target - n) = 1..more /\ l \in Nat /\ n <= l
    <3>1. n \in Nat /\ target \in Nat
      BY <1>6, <2>1
    <3> HIDE DEF n, Good, padded, missing
    <3> QED
      BY <3>1
  <2> HIDE DEF more
  <2>5. own \in Seq(T) /\ fill \in [1..more -> {x}]
    BY <1>3, <2>3, <2>4
  <2>6. /\ DOMAIN (own \o fill) = 1..(Len(own) + more)
        /\ \A i \in 1..Len(own) : (own \o fill)[i] = own[i]
        /\ \A i \in (Len(own) + 1)..(Len(own) + more) : (own \o fill)[i] = x
    BY <2>4, <2>5, FilledUp
  <2>7. Good(l)
    BY <1>8, <2>3, <2>4, <2>6 DEF x
  <2> HIDE DEF l
  <2> QED
    BY <1>6, <2>4, <2>7 DEF own, tokens
<1> QED
  BY <1>7, <1>8

\* The tokens of a row spell the pre-tokens of its text.
LEMMA DecodeSpells ==
    ASSUME TInv, last.op = "encode", NEW k \in DOMAIN last.rows, NEW skip,
           Spells(last.texts[k], skip)
    PROVE  Spelt([i \in DOMAIN last.rows[k].tokens |-> last.rows[k].tokens[i].id], skip)
              = FlattenSeq(last.texts[k])
<1> DEFINE text == last.texts[k]
           v == tok.model.vocab
           own == TokensOf(tok.model, text)
           tokens == last.rows[k].tokens
           n == Len(own)
<1>1. /\ HasBpe /\ tok.trunc = None
      /\ OrEmpty(tok.model.opts.prefix) = <<>> /\ OrEmpty(tok.model.opts.suffix) = <<>>
      /\ \A c \in ToSet(FlattenSeq(text)) : <<c>> \in DOMAIN v /\ (skip => c # "<")
      /\ tok.pad # None /\ tok.pad.id \in Ids(v) => Skips(TokenOf(v, tok.pad.id), skip)
  BY DEF Spells
<1>2. IsModel(tok.model) /\ IsSound(tok.model)
  BY <1>1 DEF TInv, IsSoundModel, HasBpe
<1>3. PICK l \in Nat :
         /\ n \in Nat /\ n <= l /\ DOMAIN tokens = 1..l
         /\ \A i \in 1..n : tokens[i] = own[i]
         /\ \A i \in (n + 1)..l : tok.pad # None /\ tokens[i] = PadToken(tok.pad)
  BY <1>1, RowTokens
<1>4. text \in Seq(Texts)
  <2> DEFINE texts == last.texts
  <2>1. texts \in Seq(Seq(Seq(DOMAIN Utf8))) /\ k \in DOMAIN texts
    <3>1. last.texts \in Seq(Seq(Seq(DOMAIN Utf8)))
      BY TextsTyped
    <3> QED
      BY <3>1, BatchFacts
  <2> HIDE DEF texts
  <2>2. texts[k] \in Seq(Seq(DOMAIN Utf8))
    BY <2>1
  <2> QED
    BY <2>2 DEF texts, Texts
<1> HIDE DEF text
<1>5. Spelled(v, own) /\ Spelling(v, own) = FlattenSeq(text)
  BY <1>1, <1>2, <1>4, TokensOfSpells
<1> HIDE DEF own, tokens, v
<1>6. ASSUME NEW i \in 1..n PROVE ~Skips(TokenOf(v, own[i].id), skip)
  <2> DEFINE values == Values(v, own)
             t == TokenOf(v, own[i].id)
  <2>1. values \in Seq(Texts) /\ Len(values) = n /\ values[i] = t
    <3>1. values \in Seq(Texts) /\ Len(values) = n
      BY <1>5, ValuesTyped
    <3>2. values[i] = t
      BY DEF Values
    <3> QED
      BY <3>1, <3>2
  <2> HIDE DEF values, t
  <2>2. FlattenSeq(values) = FlattenSeq(text)
    BY <1>5 DEF Spelling, values
  <2>3. ASSUME skip, t # <<>> PROVE t[1] # "<"
    <3>1. t \in Seq(DOMAIN Utf8) /\ values \in Seq(Seq(DOMAIN Utf8)) /\ i \in 1..Len(values)
      BY <2>1 DEF Texts
    <3>2. 1 \in 1..Len(t)
      BY <2>3, <3>1
    <3>3. values[i][1] \in ToSet(FlattenSeq(values))
      BY <2>1, <3>1, <3>2, FlattenHolds
    <3>4. t[1] \in ToSet(FlattenSeq(text))
      BY <2>1, <2>2, <3>3
    <3> QED
      BY <1>1, <2>3, <3>4
  <2>4. ~Skips(t, skip)
    BY <2>3 DEF Skips, LooksSpecial, Head
  <2> QED
    BY <2>4 DEF t
<1>7. \A i \in 1..n : tokens[i].id = own[i].id /\ ~Skips(TokenOf(v, own[i].id), skip)
  BY <1>3, <1>6
<1> HIDE DEF n
<1>8. CASE tok.pad # None
  <2> DEFINE p == tok.pad.id
  <2>1. PadToken(tok.pad).id = p
    BY DEF PadToken
  <2> HIDE DEF p
  <2>2. \A i \in (n + 1)..l : tokens[i].id = p
    BY <1>3, <2>1
  <2>3. p \in Ids(v) => Skips(TokenOf(v, p), skip)
    BY <1>1, <1>8 DEF p
  <2>4. Spelt([i \in DOMAIN tokens |-> tokens[i].id], skip) = Spelling(v, own)
    <3>1. /\ Len(own) \in Nat /\ Len(own) <= l /\ DOMAIN tokens = 1..l
          /\ \A i \in 1..Len(own) : /\ tokens[i].id = own[i].id
                                  /\ ~Skips(TokenOf(tok.model.vocab, own[i].id), skip)
          /\ \A i \in (Len(own) + 1)..l : tokens[i].id = p
          /\ p \in Ids(tok.model.vocab) => Skips(TokenOf(tok.model.vocab, p), skip)
          /\ Spelled(tok.model.vocab, own)
      BY <1>3, <1>5, <1>7, <2>2, <2>3 DEF n, v
    <3> QED
      BY <3>1, SpeltOwn DEF v
  <2> QED
    BY <1>5, <2>4 DEF tokens, text
<1>9. CASE tok.pad = None
  <2> DEFINE p == None
  <2>1. (\A i \in (n + 1)..l : tokens[i].id = p) /\ p \notin Ids(v)
    <3>1. Ids(v) \subseteq Nat
      BY <1>2 DEF IsModel, IsVocab, Ids, v
    <3> QED
      BY <1>3, <1>9, <3>1, NoneAssumption
  <2> HIDE DEF p
  <2>2. Spelt([i \in DOMAIN tokens |-> tokens[i].id], skip) = Spelling(v, own)
    <3>1. /\ Len(own) \in Nat /\ Len(own) <= l /\ DOMAIN tokens = 1..l
          /\ \A i \in 1..Len(own) : /\ tokens[i].id = own[i].id
                                  /\ ~Skips(TokenOf(tok.model.vocab, own[i].id), skip)
          /\ \A i \in (Len(own) + 1)..l : tokens[i].id = p
          /\ p \in Ids(tok.model.vocab) => Skips(TokenOf(tok.model.vocab, p), skip)
          /\ Spelled(tok.model.vocab, own)
      BY <1>3, <1>5, <1>7, <2>1 DEF n, v
    <3> QED
      BY <3>1, SpeltOwn DEF v
  <2> QED
    BY <1>5, <2>2 DEF tokens, text
<1> QED
  BY <1>8, <1>9

-------------------------------------------------------------------------------
(* Reading back what a ByteLevel has written. *)

\* One sequence after another, told by its elements.
LEMMA ConcatIs ==
    ASSUME NEW S, NEW s \in Seq(S), NEW t \in Seq(S), NEW u \in Seq(S),
           Len(u) = Len(s) + Len(t),
           \A i \in 1..Len(s) : u[i] = s[i], \A i \in 1..Len(t) : u[Len(s) + i] = t[i]
    PROVE  u = s \o t
<1> DEFINE w == s \o t
<1>1. /\ w \in Seq(S) /\ Len(w) = Len(s) + Len(t) /\ Len(s) \in Nat /\ Len(t) \in Nat
      /\ \A i \in 1..Len(s) : w[i] = s[i]
      /\ \A i \in 1..Len(t) : w[Len(s) + i] = t[i]
  OBVIOUS
<1> HIDE DEF w
<1>2. \A i \in 1..Len(u) : i \in 1..Len(s) \/ \E j \in 1..Len(t) : i = Len(s) + j
  <2> TAKE i \in 1..Len(u)
  <2>1. i \notin 1..Len(s) => i - Len(s) \in 1..Len(t) /\ i = Len(s) + (i - Len(s))
    BY <1>1
  <2> QED
    BY <2>1
<1>3. \A i \in 1..Len(u) : u[i] = w[i]
  BY <1>1, <1>2
<1> QED
  BY <1>1, <1>3 DEF w

\* Each element of S is written as a list.
Writings(S, B) == [S -> Seq(B)]

Spread(F, s) == FlattenSeq([k \in DOMAIN s |-> F[s[k]]])

LEMMA SpreadTyped ==
    ASSUME NEW S, NEW B, NEW F \in Writings(S, B), NEW a \in Seq(S)
    PROVE  /\ [k \in DOMAIN a |-> F[a[k]]] \in Seq(Seq(B)) /\ Len([k \in DOMAIN a |-> F[a[k]]]) = Len(a)
           /\ Spread(F, a) \in Seq(B)
<1> DEFINE n == Len(a)
           s == [k \in DOMAIN a |-> F[a[k]]]
<1>1. n \in Nat /\ DOMAIN a = 1..n /\ \A k \in 1..n : a[k] \in S
  OBVIOUS
<1>2. s \in [1..n -> Seq(B)]
  BY <1>1 DEF Writings
<1>3. s \in Seq(Seq(B)) /\ Len(s) = n
  BY <1>1, <1>2
<1> HIDE DEF s
<1>4. FlattenSeq(s) \in Seq(B)
  BY <1>3, FlattenTyped
<1> QED
  BY <1>3, <1>4 DEF s, n, Spread

LEMMA SpreadConcat ==
    ASSUME NEW S, NEW B, NEW F \in Writings(S, B), NEW a \in Seq(S), NEW b \in Seq(S)
    PROVE  Spread(F, a \o b) = Spread(F, a) \o Spread(F, b)
<1> DEFINE n == Len(a)
           m == Len(b)
           c == a \o b
<1>1. /\ n \in Nat /\ m \in Nat /\ DOMAIN a = 1..n /\ DOMAIN b = 1..m
      /\ c \in Seq(S) /\ Len(c) = n + m /\ DOMAIN c = 1..(n + m)
      /\ \A i \in 1..n : c[i] = a[i]
      /\ \A i \in 1..m : c[n + i] = b[i]
  OBVIOUS
<1> HIDE DEF c, n, m
<1> DEFINE s == [k \in DOMAIN a |-> F[a[k]]]
           t == [k \in DOMAIN b |-> F[b[k]]]
           u == [k \in DOMAIN c |-> F[c[k]]]
<1>2. /\ s \in Seq(Seq(B)) /\ Len(s) = n /\ t \in Seq(Seq(B)) /\ Len(t) = m
      /\ u \in Seq(Seq(B)) /\ Len(u) = n + m
  <2>1. \A x \in Seq(S) : [k \in DOMAIN x |-> F[x[k]]] \in Seq(Seq(B)) /\ Len([k \in DOMAIN x |-> F[x[k]]]) = Len(x)
    BY SpreadTyped
  <2>2. s \in Seq(Seq(B)) /\ Len(s) = n
    BY <2>1 DEF n
  <2>3. t \in Seq(Seq(B)) /\ Len(t) = m
    BY <2>1 DEF m
  <2>4. u \in Seq(Seq(B)) /\ Len(u) = n + m
    BY <1>1, <2>1
  <2> QED
    BY <2>2, <2>3, <2>4
<1>3. /\ \A i \in 1..n : u[i] = s[i]
      /\ \A i \in 1..m : u[n + i] = t[i]
  <2>1. \A i \in 1..n : i \in 1..(n + m)
    BY <1>1
  <2>2. \A i \in 1..m : n + i \in 1..(n + m)
    BY <1>1
  <2> QED
    BY <1>1, <2>1, <2>2
<1>4. Spread(F, a) = FlattenSeq(s) /\ Spread(F, b) = FlattenSeq(t) /\ Spread(F, c) = FlattenSeq(u)
  BY DEF Spread
<1> HIDE DEF s, t, u
<1> DEFINE Q == Seq(B)
<1>5. u = s \o t
  <2>1. /\ s \in Seq(Q) /\ t \in Seq(Q) /\ u \in Seq(Q) /\ Len(u) = Len(s) + Len(t)
        /\ \A i \in 1..Len(s) : u[i] = s[i]
        /\ \A i \in 1..Len(t) : u[Len(s) + i] = t[i]
    BY <1>2, <1>3
  <2>2. \A x, y, z \in Seq(Q) :
           /\ Len(z) = Len(x) + Len(y)
           /\ \A i \in 1..Len(x) : z[i] = x[i]
           /\ \A i \in 1..Len(y) : z[Len(x) + i] = y[i]
           => z = x \o y
    BY ConcatIs
  <2> HIDE DEF Q
  <2> QED
    BY <2>1, <2>2
<1>6. FlattenSeq(s \o t) = FlattenSeq(s) \o FlattenSeq(t)
  BY <1>2, FlattenConcat
<1> QED
  BY <1>4, <1>5, <1>6 DEF c

\* Part by part or as a whole.
LEMMA SpreadFlat ==
    ASSUME NEW S, NEW B, NEW F \in Writings(S, B), NEW ss \in Seq(Seq(S))
    PROVE  Spread(F, FlattenSeq(ss)) = FlattenSeq([k \in DOMAIN ss |-> Spread(F, ss[k])])
<1> DEFINE n == Len(ss)
           pp == [k \in DOMAIN ss |-> Spread(F, ss[k])]
<1>1. n \in Nat /\ DOMAIN ss = 1..n /\ \A k \in 1..n : ss[k] \in Seq(S) /\ Spread(F, ss[k]) \in Seq(B)
  <2>1. n \in Nat /\ DOMAIN ss = 1..n /\ \A k \in 1..n : ss[k] \in Seq(S)
    OBVIOUS
  <2> QED
    BY <2>1, SpreadTyped
<1>2. Len(pp) = n /\ \A k \in 1..n : pp[k] = Spread(F, ss[k]) /\ pp[k] \in Seq(B)
  BY <1>1
<1> HIDE DEF n, pp
<1>3. PICK g : FlattenRun(g, S, ss)
  BY <1>1, FlattenTrace DEF n
<1>4. PICK h : FlattenRun(h, B, pp)
  BY <1>1, <1>2, FlattenTrace
<1>5. /\ g \in [0..n -> Seq(S)] /\ g[0] = <<>> /\ FlattenSeq(ss) = g[n]
      /\ \A k \in 1..n : g[k] = g[k - 1] \o ss[k]
      /\ h[0] = <<>> /\ FlattenSeq(pp) = h[n]
      /\ \A k \in 1..n : h[k] = h[k - 1] \o pp[k]
  BY <1>2, <1>3, <1>4 DEF FlattenRun, n
<1>10. \A a \in Seq(S) : \A b \in Seq(S) : Spread(F, a \o b) = Spread(F, a) \o Spread(F, b)
  BY SpreadConcat
<1> DEFINE T == {k \in 0..n : Spread(F, g[k]) = h[k]}
<1>6. 0 \in T
  <2>1. [k \in DOMAIN <<>> |-> F[<<>>[k]]] = <<>>
    OBVIOUS
  <2>2. FlattenSeq(<<>>) = <<>>
    BY DEF FlattenSeq
  <2>3. Spread(F, <<>>) = <<>>
    BY <2>1, <2>2 DEF Spread
  <2> QED
    BY <1>1, <1>5, <2>3
<1>7. ASSUME NEW k \in 1..n, k - 1 \in T PROVE k \in T
  <2> DEFINE s == g[k - 1]
             t == ss[k]
  <2>1. k \in 0..n /\ k - 1 \in 0..n
    BY <1>1
  <2>2. s \in Seq(S) /\ t \in Seq(S) /\ g[k] = s \o t
    BY <1>1, <1>5, <2>1
  <2> HIDE DEF s, t
  <2>3. Spread(F, s \o t) = Spread(F, s) \o Spread(F, t)
    BY <1>10, <2>2
  <2>4. Spread(F, s) = h[k - 1] /\ Spread(F, t) = pp[k]
    BY <1>2, <1>7 DEF s, t
  <2> QED
    BY <1>5, <2>1, <2>2, <2>3, <2>4
<1> HIDE DEF T
<1>8. \A k \in 0..n : k \in T
  BY <1>1, <1>6, <1>7, InductUpto
<1>9. n \in 0..n
  BY <1>1
<1> QED
  BY <1>5, <1>8, <1>9 DEF T, pp

\* The bytes there are.
AllBytes == (UNION {ToSet(Utf8[c]) : c \in DOMAIN Utf8}) \cup DOMAIN ByteChar

\* What a character is written as, and what it is read as.
AsUtf8 == [c \in DOMAIN Utf8 |-> Utf8[c]]

AsByte == [c \in DOMAIN Utf8 |-> CharBytes(c)]

LEMMA CharsTyped ==
    /\ AsUtf8 \in Writings(DOMAIN Utf8, AllBytes) /\ AsByte \in Writings(DOMAIN Utf8, AllBytes)
    /\ \A b \in DOMAIN ByteChar : CharBytes(ByteChar[b]) = <<b>>
<1>1. ASSUME NEW c \in DOMAIN Utf8 PROVE Utf8[c] \in Seq(AllBytes)
  <2> DEFINE u == Utf8[c]
             R == ToSet(u)
  <2>1. u \in Seq(R) /\ R \subseteq AllBytes
    BY Utf8Assumption DEF AllBytes
  <2> HIDE DEF u, R
  <2>2. u \in Seq(AllBytes)
    BY <2>1
  <2> QED
    BY <2>2 DEF u
<1>2. ASSUME NEW b \in DOMAIN ByteChar PROVE CharBytes(ByteChar[b]) = <<b>>
  <2>1. {d \in DOMAIN ByteChar : ByteChar[d] = ByteChar[b]} = {b}
    BY ByteCharAssumption
  <2> QED
    BY <2>1 DEF CharBytes
<1>3. ASSUME NEW c \in DOMAIN Utf8 PROVE CharBytes(c) \in Seq(AllBytes)
  <2>1. CASE \E b \in DOMAIN ByteChar : ByteChar[b] = c
    <3>1. PICK b \in DOMAIN ByteChar : ByteChar[b] = c
      BY <2>1
    <3>2. CharBytes(c) = <<b>>
      BY <1>2, <3>1
    <3>3. b \in AllBytes
      BY DEF AllBytes
    <3> HIDE DEF AllBytes
    <3> QED
      BY <3>2, <3>3
  <2>2. CASE ~\E b \in DOMAIN ByteChar : ByteChar[b] = c
    <3>1. CharBytes(c) = Utf8[c]
      BY <2>2 DEF CharBytes
    <3> QED
      BY <1>1, <3>1
  <2> QED
    BY <2>1, <2>2
<1> QED
  BY <1>1, <1>2, <1>3 DEF AsUtf8, AsByte, Writings

LEMMA BytesAsSpread ==
    ASSUME NEW piece \in Seq(DOMAIN Utf8)
    PROVE  RawBytes(piece) = Spread(AsUtf8, piece) /\ Unmapped(piece) = Spread(AsByte, piece)
<1>1. \A k \in DOMAIN piece : piece[k] \in DOMAIN Utf8
  OBVIOUS
<1>2. [k \in DOMAIN piece |-> Utf8[piece[k]]] = [k \in DOMAIN piece |-> AsUtf8[piece[k]]]
  BY <1>1 DEF AsUtf8
<1>3. [k \in DOMAIN piece |-> CharBytes(piece[k])] = [k \in DOMAIN piece |-> AsByte[piece[k]]]
  BY <1>1 DEF AsByte
<1> QED
  BY <1>2, <1>3 DEF RawBytes, Unmapped, Spread

\* A pre-token that a ByteLevel has written is read back as the bytes of its piece.
LEMMA MappedBack ==
    ASSUME NEW piece \in Seq(TextChars)
    PROVE  Unmapped(Mapped(piece)) = RawBytes(piece)
<1> DEFINE bytes == RawBytes(piece)
           chars == Mapped(piece)
           n == Len(bytes)
<1>1. bytes \in Seq(DOMAIN ByteChar)
  BY TextBytes
<1>2. chars = [k \in DOMAIN bytes |-> ByteChar[bytes[k]]]
  BY DEF Mapped
<1> HIDE DEF bytes, chars
<1>3. DOMAIN bytes = 1..n /\ \A k \in 1..n : bytes[k] \in DOMAIN ByteChar
  BY <1>1
<1>4. DOMAIN chars = 1..n /\ \A k \in 1..n : CharBytes(chars[k]) = <<bytes[k]>>
  BY <1>2, <1>3, CharsTyped
<1>5. [k \in DOMAIN chars |-> CharBytes(chars[k])] = [k \in 1..n |-> <<bytes[k]>>]
  BY <1>4
<1>6. FlattenSeq([k \in 1..n |-> <<bytes[k]>>]) = bytes
  BY <1>1, FlattenSingles
<1> QED
  BY <1>5, <1>6 DEF Unmapped, bytes, chars

\* The pre-tokens of a text are read back as the bytes of the text.
LEMMA TextBack ==
    ASSUME NEW raws \in Batches, NEW k \in DOMAIN raws, NEW pre,
           \/ Levels(pre) # {}
           \/ \A c \in ToSet(FlattenSeq(PreTokenized(pre, raws)[k])) : CharBytes(c) = Utf8[c]
    PROVE  Unmapped(FlattenSeq(PreTokenized(pre, raws)[k])) = RawBytes(FlattenSeq(raws[k]))
<1> DEFINE raw == raws[k]
           text == PreTokenized(pre, raws)[k]
           U == DOMAIN Utf8
<1>1. raw \in Seq(Seq(TextChars)) /\ raw \in Seq(Seq(U)) /\ text \in Seq(Seq(U))
  <2>1. raws \in Seq(Seq(Seq(TextChars)))
    BY TextAssumption
  <2>2. raw \in Seq(Seq(TextChars))
    BY <2>1
  <2> DEFINE all == PreTokenized(pre, raws)
  <2>3. all \in Seq(Seq(Seq(U))) /\ k \in DOMAIN all
    BY PreTokenizedTyped
  <2> HIDE DEF all
  <2>4. all[k] \in Seq(Seq(U))
    BY <2>3
  <2>5. TextChars \subseteq U
    BY DEF TextChars
  <2> HIDE DEF raw, text, U
  <2>6. raw \in Seq(Seq(U))
    BY <2>2, <2>5
  <2> QED
    BY <2>2, <2>4, <2>6 DEF all, text
<1> HIDE DEF raw
<1>2. CASE Levels(pre) # {}
  <2>1. text = [j \in DOMAIN raw |-> Mapped(raw[j])]
    BY <1>2 DEF PreTokenized, raw
  <2> HIDE DEF text
  <2>2. \A j \in DOMAIN raw : raw[j] \in Seq(TextChars) /\ raw[j] \in Seq(U)
    BY <1>1
  <2>3. \A j \in DOMAIN raw : text[j] = Mapped(raw[j]) /\ text[j] \in Seq(U) /\ DOMAIN text = DOMAIN raw
    BY <1>1, <2>1
  <2>4. ASSUME NEW j \in DOMAIN raw PROVE Spread(AsByte, text[j]) = Spread(AsUtf8, raw[j])
    <3>1. Unmapped(text[j]) = RawBytes(raw[j])
      BY <2>2, <2>3, MappedBack
    <3>2. Unmapped(text[j]) = Spread(AsByte, text[j]) /\ RawBytes(raw[j]) = Spread(AsUtf8, raw[j])
      BY <2>2, <2>3, BytesAsSpread
    <3> QED
      BY <3>1, <3>2
  <2>5. [j \in DOMAIN text |-> Spread(AsByte, text[j])] = [j \in DOMAIN raw |-> Spread(AsUtf8, raw[j])]
    BY <2>1, <2>4
  <2> DEFINE B == AllBytes
  <2>9. AsUtf8 \in Writings(U, B) /\ AsByte \in Writings(U, B)
    BY CharsTyped
  <2> HIDE DEF B, U
  <2>6. /\ Spread(AsByte, FlattenSeq(text)) = FlattenSeq([j \in DOMAIN text |-> Spread(AsByte, text[j])])
        /\ Spread(AsUtf8, FlattenSeq(raw)) = FlattenSeq([j \in DOMAIN raw |-> Spread(AsUtf8, raw[j])])
    BY <1>1, <2>9, SpreadFlat
  <2>7. FlattenSeq(text) \in Seq(U) /\ FlattenSeq(raw) \in Seq(U)
    BY <1>1, FlattenTyped
  <2>8. /\ Unmapped(FlattenSeq(text)) = Spread(AsByte, FlattenSeq(text))
        /\ RawBytes(FlattenSeq(raw)) = Spread(AsUtf8, FlattenSeq(raw))
    BY <2>7, BytesAsSpread DEF U
  <2> QED
    BY <2>5, <2>6, <2>8 DEF text, raw
<1>3. CASE Levels(pre) = {}
  <2> DEFINE chars == FlattenSeq(raw)
  <2>1. text = raw
    BY <1>3 DEF PreTokenized, raw
  <2>2. chars \in Seq(U)
    BY <1>1, FlattenTyped
  <2>3. \A c \in ToSet(chars) : CharBytes(c) = Utf8[c]
    BY <1>3, <2>1 DEF text
  <2> HIDE DEF chars, text
  <2>4. \A j \in DOMAIN chars : chars[j] \in ToSet(chars)
    BY <2>2 DEF ToSet
  <2>5. [j \in DOMAIN chars |-> CharBytes(chars[j])] = [j \in DOMAIN chars |-> Utf8[chars[j]]]
    BY <2>3, <2>4
  <2>6. Unmapped(chars) = RawBytes(chars)
    BY <2>5 DEF Unmapped, RawBytes
  <2> QED
    BY <2>1, <2>6 DEF chars, text, raw
<1> QED
  BY <1>2, <1>3

-------------------------------------------------------------------------------
(* decode(): it undoes encode_batch(). *)

\* DecodeExact: decode() gives back the bytes of a text that was encoded, if the characters
\* of its pre-tokens are in the vocabulary of a model without affixes - through the byte
\* table, merging, whole words, padding and the loss of the token's text to its id, special
\* tokens skipped or not; if no ByteLevel wrote the text, only if the decoder takes none of
\* its characters for a byte.
THEOREM DecodeUndoesEncoding == Spec => []DecodeExact
<1>1. Init => DecodeExact
  BY DEF Init, NoAnswer, DecodeExact
<1>2. ASSUME TInv, DecodeExact, [Next]_vars PROVE DecodeExact'
  <2>1. ASSUME last'.op # "decode" PROVE DecodeExact'
    BY <2>1 DEF DecodeExact
  <2>2. ASSUME last' = NoAnswer PROVE DecodeExact'
    BY <2>1, <2>2 DEF NoAnswer
  <2>3. ASSUME NEW in \in Inputs, VocabAndMerges(in) PROVE DecodeExact'
    BY <2>2, <2>3 DEF VocabAndMerges
  <2>4. ASSUME BuildHalfRead \/ BuildSkipped \/ BuildRejected \/ Build PROVE DecodeExact'
    BY <2>2, <2>4 DEF BuildHalfRead, BuildSkipped, BuildRejected, Build
  <2>5. ASSUME NEW r \in Trained, Train(r) PROVE DecodeExact'
    BY <2>2, <2>5 DEF Train
  <2>6. ASSUME SaveJson \/ SavePair PROVE DecodeExact'
    BY <2>2, <2>6 DEF SaveJson, SavePair
  <2>7. ASSUME LoadJson PROVE DecodeExact'
    <3>1. last'.op = "load"
      BY <2>7 DEF LoadJson
    <3> QED
      BY <2>1, <3>1
  <2>8. ASSUME NEW r \in RowOptions, SetRowOptions(r) PROVE DecodeExact'
    BY <2>2, <2>8 DEF SetRowOptions
  <2>9. ASSUME NEW raws \in Batches, EncodeBatch(raws) PROVE DecodeExact'
    <3>1. last'.op = "encode"
      BY <2>9 DEF EncodeBatch
    <3> QED
      BY <2>1, <3>1
  <2>10. ASSUME NEW k \in 1..2, NEW skip \in BOOLEAN, Decode(k, skip) PROVE DecodeExact'
    <3> DEFINE text == last.texts[k]
               raw == last.raws[k]
               ids == [i \in DOMAIN last.rows[k].tokens |-> last.rows[k].tokens[i].id]
    <3>1. last.op = "encode" /\ k \in DOMAIN last.rows /\ UNCHANGED tok
      BY <2>10 DEF Decode
    <3>2. last'.raw = raw /\ last'.text = text /\ last'.skip = skip
          /\ last'.out = (IF HasBpe /\ tok.decoder THEN Decoded(ids, skip) ELSE <<>>)
      BY <2>10 DEF Decode
    <3>3. ASSUME Spells(text, skip) PROVE last'.out = RawBytes(FlattenSeq(raw))
      <4>1. Spelt(ids, skip) = FlattenSeq(text)
        BY <1>2, <3>1, <3>3, DecodeSpells
      <4>2. /\ last.raws \in Batches /\ last.texts = PreTokenized(tok.pre, last.raws)
            /\ k \in DOMAIN last.raws
        <5>1. last.raws \in Batches /\ last.texts = PreTokenized(tok.pre, last.raws)
          BY <1>2, <3>1 DEF TInv, LastIsCurrent
        <5>2. DOMAIN last.rows = DOMAIN last.texts
          BY <1>2, <3>1, BatchFacts
        <5>3. DOMAIN last.texts = DOMAIN last.raws
          BY <5>1, PreTokenizedTyped
        <5> QED
          BY <3>1, <5>1, <5>2, <5>3
      <4>3. \/ Levels(tok.pre) # {}
            \/ \A c \in ToSet(FlattenSeq(text)) : CharBytes(c) = Utf8[c]
        BY <3>3 DEF Spells
      <4>4. Unmapped(FlattenSeq(text)) = RawBytes(FlattenSeq(raw))
        BY <4>2, <4>3, TextBack
      <4>5. Decoded(ids, skip) = Unmapped(FlattenSeq(text))
        BY <4>1 DEF Decoded
      <4>6. HasBpe /\ tok.decoder
        BY <3>3 DEF Spells
      <4> QED
        BY <3>2, <4>4, <4>5, <4>6
    <3> HIDE DEF ids, text, raw
    <3>4. Spells(last.text, last.skip)' => Spells(text, skip)
      BY <3>1, <3>2 DEF Spells, HasBpe
    <3> QED
      BY <3>2, <3>3, <3>4 DEF DecodeExact
  <2>11. CASE UNCHANGED vars
    BY <1>2, <2>11 DEF vars, DecodeExact, Spells, HasBpe
  <2> QED
    BY <1>2, <2>3, <2>4, <2>5, <2>6, <2>7, <2>8, <2>9, <2>10, <2>11 DEF Next
<1> QED
  BY <1>1, <1>2, Invariant, PTL DEF Spec

===============================================================================
