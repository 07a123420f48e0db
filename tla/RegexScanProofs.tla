--------------------------- MODULE RegexScanProofs ---------------------------
(***************************************************************************)
(* Proofs about find_all for every set of threads, patterns and texts: a   *)
(* call that has its Regex to itself finds exactly the matches of its text.*)
(***************************************************************************)
EXTENDS RegexScan, SequenceLemmas

-------------------------------------------------------------------------------
(* The inductive invariant. *)

SubjectOf(t) == Text[subject[t]]

Running(t) == pc[t] # "idle"

Covers(t, p) == \E k \in DOMAIN out[t] : out[t][k][1] <= p /\ p < out[t][k][2]

\* Offset p is on a boundary or inside a character where the scan met the empty
\* string or one of the spans ended.
Explained(t, p, spans) ==
    \/ p \in SubjectOf(t).starts
    \/ \E q \in SubjectOf(t).starts :
          /\ Inside(t, p, q)
          /\ EmptyFrom(t, q) \/ (spans # <<>> /\ q < spans[Len(spans)][2])

SpanExplained(t, k) ==
    \/ {out[t][k][1], out[t][k][2]} \subseteq SubjectOf(t).starts
    \/ \E q \in SubjectOf(t).starts :
          /\ Inside(t, out[t][k][1], q)
          /\ EmptyFrom(t, q) \/ (k > 1 /\ q < out[t][k - 1][2])

\* Each span found is a non-empty match, behind the one before.
SpansFound(t) ==
    \A k \in DOMAIN out[t] :
       LET p == out[t][k][1]
       IN /\ p \in 0..SubjectOf(t).len /\ SubjectOf(t).at[p] > 0
          /\ out[t][k][2] = p + SubjectOf(t).at[p]
          /\ k > 1 => out[t][k - 1][2] <= p

\* The scan has left no match behind it, and no span reaches ahead of it.
ScannedTo(t) ==
    /\ \A k \in DOMAIN out[t] : out[t][k][2] <= start[t]
    /\ \A p \in SubjectOf(t).starts : p < start[t] /\ SubjectOf(t).at[p] > 0 => Covers(t, p)

\* The match data and mstart hold the match that pcre2_match has found.
AnswerHeld(t) ==
    LET p == Least(Found(t))
    IN /\ pc[t] \in {"first", "last"} =>
             /\ Found(t) # {}
             /\ ovector[regex[t]] = <<p, p + SubjectOf(t).at[p]>>
       /\ pc[t] = "last" => first[t] = p

\* What brought the scan and its spans inside a character.
BoundariesKept(t) ==
    /\ \A k \in DOMAIN out[t] : SpanExplained(t, k)
    /\ Running(t) /\ start[t] <= SubjectOf(t).len => Explained(t, start[t], out[t])

\* What holds of a call that has had its Regex to itself.
CallInv(t) ==
    /\ SpansFound(t) /\ AnswerHeld(t) /\ BoundariesKept(t)
    /\ Running(t) => ScannedTo(t)
    /\ Returned(t) /\ ~failed[t] => NoneMissed(t)

\* Nobody else is on the Regex of a call that has it to itself.
Exclusive == \A t \in Threads : alone[t] /\ Running(t) => Rivals(t) = {}

SInv == TypeOK /\ Exclusive /\ \A t \in Threads : alone[t] => CallInv(t)

-------------------------------------------------------------------------------
(* Texts and matches. *)

\* A text and the matches at its offsets.
LEMMA SubjectFacts ==
    ASSUME TypeOK, NEW t \in Threads
    PROVE  /\ SubjectOf(t).len \in Nat /\ SubjectOf(t).starts \subseteq 0..SubjectOf(t).len
           /\ 0 \in SubjectOf(t).starts
           /\ \A p \in 0..SubjectOf(t).len :
                 /\ SubjectOf(t).at[p] \in Int /\ SubjectOf(t).at[p] >= -1
                 /\ SubjectOf(t).at[p] # NoMatch => SubjectOf(t).at[p] >= 0
                 /\ p + SubjectOf(t).at[p] <= SubjectOf(t).len
           /\ \A p \in SubjectOf(t).starts :
                 SubjectOf(t).at[p] # NoMatch => p + SubjectOf(t).at[p] \in SubjectOf(t).starts
<1>1. subject[t] \in Subjects
  BY DEF TypeOK
<1>2. IsSubject(SubjectOf(t))
  BY <1>1, SubjectAssumption DEF SubjectOf
<1> QED
  BY <1>2 DEF IsSubject, NoMatch

\* pcre2_match answers with the leftmost match from start on.
LEMMA LeastFacts ==
    ASSUME TypeOK, NEW t \in Threads, Found(t) # {}
    PROVE  LET p == Least(Found(t))
           IN /\ p \in Nat /\ p \in Found(t) /\ start[t] <= p /\ p <= SubjectOf(t).len
              /\ SubjectOf(t).at[p] >= 0 /\ p + SubjectOf(t).at[p] \in Nat
              /\ SubjectOf(t).at[p] \in Int
              /\ p = start[t] \/ p \in SubjectOf(t).starts
              /\ \A q \in Found(t) : p <= q
<1> DEFINE F == Found(t)
           p == Least(F)
<1>1. F \in SUBSET Nat
  BY SubjectFacts DEF Found, TypeOK, SubjectOf
<1>2. p \in F /\ \A q \in F : p <= q
  <2> HIDE DEF F
  <2>1. \E x \in F : \A y \in F : x <= y
    BY <1>1, LeastNat DEF F
  <2> QED
    BY <2>1 DEF Least
<1> HIDE DEF p
<1>3. /\ p \in 0..SubjectOf(t).len /\ start[t] <= p /\ SubjectOf(t).at[p] # NoMatch
      /\ p = start[t] \/ p \in SubjectOf(t).starts
  BY <1>1, <1>2, SubjectFacts DEF Found, TypeOK, SubjectOf
<1> QED
  BY <1>2, <1>3, SubjectFacts DEF p

-------------------------------------------------------------------------------
(* Types, and who is on which Regex. *)

\* One step keeps the types.
LEMMA TypeStep == ASSUME TypeOK, [Next]_vars PROVE TypeOK'
<1> USE DEF TypeOK
<1>1. CASE UNCHANGED vars
  BY <1>1 DEF vars
<1>2. ASSUME NEW t \in Threads, NEW s \in Subjects, Begin(t, s) PROVE TypeOK'
  <2>1. calls[t] + 1 \in 0..MaxCalls
    BY <1>2, CallsAssumption DEF Begin
  <2>2. pc' \in [Threads -> {"idle", "match", "first", "last"}] /\ alone' \in [Threads -> BOOLEAN]
    <3>1. CASE valid[regex[t]] /\ Text[s].len > 0
      BY <1>2, <3>1 DEF Begin
    <3>2. CASE ~(valid[regex[t]] /\ Text[s].len > 0)
      BY <1>2, <3>2 DEF Begin
    <3> QED
      BY <3>1, <3>2
  <2> QED
    BY <1>2, <2>1, <2>2 DEF Begin
<1>3. ASSUME NEW t \in Threads, Match(t) PROVE TypeOK'
  <2> DEFINE p == Least(Found(t))
             e == p + SubjectOf(t).at[p]
  <2>1. p \in Nat /\ e \in Nat
    BY <1>3, LeastFacts DEF Match
  <2>2. ovector' = [ovector EXCEPT ![regex[t]] = <<p, e>>]
    BY <1>3 DEF Match, SubjectOf
  <2> HIDE DEF p, e
  <2>3. ovector' \in [Regexes -> Nat \X Nat]
    BY <2>1, <2>2
  <2> QED
    BY <1>3, <2>3 DEF Match, locals
<1>4. ASSUME NEW t \in Threads, MatchNone(t) \/ MatchError(t) PROVE TypeOK'
  BY <1>4 DEF MatchNone, MatchError, Return, locals
<1>5. ASSUME NEW t \in Threads, ReadFirst(t) PROVE TypeOK'
  BY <1>5 DEF ReadFirst, locals
<1>6. ASSUME NEW t \in Threads, ReadLast(t) PROVE TypeOK'
  <2> DEFINE last == ovector[regex[t]][2]
  <2>1. last \in Nat /\ NextStart(t, last) \in Nat /\ <<first[t], last>> \in Nat \X Nat
    BY DEF NextStart
  <2>2. start' \in [Threads -> Nat] /\ out' \in [Threads -> Seq(Nat \X Nat)]
    <3>1. Append(out[t], <<first[t], last>>) \in Seq(Nat \X Nat)
      BY <2>1
    <3> QED
      BY <1>6, <2>1, <3>1 DEF ReadLast
  <2> QED
    BY <1>6, <2>2 DEF ReadLast, locals
<1> QED
  BY <1>1, <1>2, <1>3, <1>4, <1>5, <1>6 DEF Next, Step

\* What the steps of a thread leave alone of another, by what they change.
LEMMA OthersFrame ==
    ASSUME TypeOK, Exclusive, NEW t \in Threads,
           Step(t) \/ \E s \in Subjects : Begin(t, s),
           NEW u \in Threads, u # t
    PROVE  /\ valid' = valid /\ regex' = regex
           /\ pc'[u] = pc[u] /\ subject'[u] = subject[u] /\ start'[u] = start[u]
           /\ first'[u] = first[u] /\ out'[u] = out[u] /\ failed'[u] = failed[u]
           /\ calls'[u] = calls[u]
           /\ alone'[u] => alone[u]
           /\ alone'[u] /\ Running(u) => /\ regex[u] # regex[t] \/ ~Running(t)'
                                         /\ ovector'[regex[u]] = ovector[regex[u]]
<1> USE DEF TypeOK
<1>1. CASE Step(t)
  <2>1. Running(t)
    BY <1>1 DEF Step, Match, MatchNone, MatchError, ReadFirst, ReadLast, Running
  <2>2. alone[u] /\ Running(u) => regex[u] # regex[t]
    BY <2>1 DEF Exclusive, Rivals, Running
  <2>3. CASE Match(t)
    BY <2>2, <2>3 DEF Match, locals
  <2>4. CASE MatchNone(t)
    BY <2>2, <2>4 DEF MatchNone, Return, locals
  <2>5. CASE MatchError(t)
    BY <2>2, <2>5 DEF MatchError, Return
  <2>6. CASE ReadFirst(t)
    BY <2>2, <2>6 DEF ReadFirst, locals
  <2>7. CASE ReadLast(t)
    <3>1. out'[u] = out[u]
      BY <2>7 DEF ReadLast
    <3> QED
      BY <2>2, <2>7, <3>1 DEF ReadLast, locals
  <2> QED
    BY <1>1, <2>3, <2>4, <2>5, <2>6, <2>7 DEF Step
<1>2. ASSUME NEW s \in Subjects, Begin(t, s)
      PROVE  /\ alone'[u] => alone[u]
             /\ alone'[u] /\ Running(u) => regex[u] # regex[t] \/ ~Running(t)'
  <2>1. CASE valid[regex[t]] /\ Text[s].len > 0
    BY <1>2, <2>1 DEF Begin, Rivals, Running
  <2>2. CASE ~(valid[regex[t]] /\ Text[s].len > 0)
    BY <1>2, <2>2 DEF Begin, Running
  <2> QED
    BY <2>1, <2>2
<1>3. ASSUME NEW s \in Subjects, Begin(t, s)
      PROVE  /\ valid' = valid /\ regex' = regex /\ ovector' = ovector
             /\ pc'[u] = pc[u] /\ subject'[u] = subject[u] /\ start'[u] = start[u]
             /\ first'[u] = first[u] /\ out'[u] = out[u] /\ failed'[u] = failed[u]
             /\ calls'[u] = calls[u]
  BY <1>3 DEF Begin
<1> QED
  BY <1>1, <1>2, <1>3

\* A call that has its Regex to itself has no rival.
LEMMA ExclusiveStep == ASSUME SInv, TypeOK', [Next]_vars PROVE Exclusive'
<1> USE DEF SInv
<1>1. CASE UNCHANGED vars
  BY <1>1 DEF Exclusive, Rivals, Running, vars
<1>2. ASSUME NEW t \in Threads, Step(t) \/ \E s \in Subjects : Begin(t, s) PROVE Exclusive'
  <2>1. ASSUME NEW u \in Threads, u # t, alone'[u], Running(u)' PROVE Rivals(u)' = {}
    <3>1. /\ alone[u] /\ Running(u) /\ regex' = regex
          /\ regex[u] # regex[t] \/ ~Running(t)'
      BY <1>2, <2>1, OthersFrame DEF Running
    <3>2. Rivals(u) = {}
      BY <3>1 DEF Exclusive
    <3>3. ASSUME NEW v \in Threads, v # u, Running(v)', regex[v] = regex[u] PROVE FALSE
      <4>1. v # t
        BY <3>1, <3>3
      <4>2. Running(v)
        BY <1>2, <3>3, <4>1, OthersFrame DEF Running
      <4> QED
        BY <3>2, <3>3, <4>2 DEF Rivals, Running
    <3> QED
      BY <3>1, <3>3 DEF Rivals, Running
  <2>2. ASSUME alone'[t], Running(t)' PROVE Rivals(t)' = {}
    <3>0. regex' = regex
      BY <1>2 DEF Step, Match, MatchNone, MatchError, ReadFirst, ReadLast, Begin, locals
    <3>1. regex' = regex /\ \A v \in Threads \ {t} : pc'[v] = pc[v]
      BY <1>2, <3>0, OthersFrame
    <3>2. Rivals(t)' = Rivals(t)
      BY <3>1 DEF Rivals
    <3>3. CASE Step(t)
      <4>1. alone[t] /\ Running(t)
        BY <2>2, <3>3 DEF Step, Match, MatchNone, MatchError, ReadFirst, ReadLast, Running
      <4> QED
        BY <3>2, <4>1 DEF Exclusive
    <3>4. ASSUME NEW s \in Subjects, Begin(t, s) PROVE Rivals(t) = {}
      <4>1. valid[regex[t]] /\ Text[s].len > 0
        BY <2>2, <3>4 DEF Begin, Running
      <4> QED
        BY <2>2, <3>4, <4>1 DEF Begin
    <3> QED
      BY <1>2, <3>2, <3>3, <3>4
  <2> QED
    BY <2>1, <2>2 DEF Exclusive
<1> QED
  BY <1>1, <1>2 DEF Next

-------------------------------------------------------------------------------
(* The calls. *)

\* A step that leaves a call's text, start and spans alone leaves them explained.
LEMMA BoundariesFrame ==
    ASSUME NEW t \in Threads, BoundariesKept(t), subject'[t] = subject[t],
           out'[t] = out[t], start'[t] = start[t], Running(t)' => Running(t)
    PROVE  BoundariesKept(t)'
<1>1. /\ SubjectOf(t)' = SubjectOf(t)
      /\ \A p, q : Inside(t, p, q)' <=> Inside(t, p, q)
      /\ \A q : EmptyFrom(t, q)' <=> EmptyFrom(t, q)
  BY DEF SubjectOf, Inside, EmptyFrom
<1>2. \A k \in DOMAIN out'[t] : SpanExplained(t, k)'
  BY <1>1 DEF BoundariesKept, SpanExplained
<1>3. Explained(t, start[t], out[t])' <=> Explained(t, start[t], out[t])
  BY <1>1 DEF Explained
<1> QED
  BY <1>1, <1>2, <1>3 DEF BoundariesKept

\* An offset that starts no character is inside one.
LEMMA InsideSome ==
    ASSUME TypeOK, NEW t \in Threads, NEW p \in 0..SubjectOf(t).len, p \notin SubjectOf(t).starts
    PROVE  \E q \in SubjectOf(t).starts : Inside(t, p, q)
<1> DEFINE A == SubjectOf(t).starts
           G == {d \in 0..p : p - d \in A}
<1>1. A \subseteq Nat /\ 0 \in A /\ p \in Nat
  BY SubjectFacts
<1>2. p \in G
  <2>1. p - p = 0 /\ p \in 0..p
    BY <1>1
  <2> QED
    BY <1>1, <2>1
<1>3. PICK d \in G : \A e \in G : d <= e
  <2>1. G \in SUBSET Nat /\ G # {}
    <3>1. 0..p \subseteq Nat
      BY <1>1
    <3> QED
      BY <1>2, <3>1
  <2> HIDE DEF G
  <2> QED
    BY <2>1, LeastNat
<1>4. d \in Nat /\ p - d \in A /\ p - d < p
  BY <1>1
<1>5. ASSUME NEW r \in A, r < p PROVE r <= p - d
  <2>1. p - r \in G
    BY <1>1, <1>5
  <2> QED
    BY <1>1, <1>3, <1>4, <2>1
<1>6. \A r \in A : r <= p - d \/ p < r
  BY <1>1, <1>4, <1>5
<1> QED
  BY <1>4, <1>6 DEF Inside, SubjectOf

\* What holds of a call survives the steps of the other threads.
LEMMA OtherCallStep ==
    ASSUME SInv, NEW t \in Threads, Step(t) \/ \E s \in Subjects : Begin(t, s),
           NEW u \in Threads, u # t, alone'[u]
    PROVE  CallInv(u)'
<1>1. /\ valid' = valid /\ regex' = regex
      /\ pc'[u] = pc[u] /\ subject'[u] = subject[u] /\ start'[u] = start[u]
      /\ first'[u] = first[u] /\ out'[u] = out[u] /\ failed'[u] = failed[u]
      /\ calls'[u] = calls[u] /\ alone[u]
      /\ Running(u) => ovector'[regex[u]] = ovector[regex[u]]
  BY OthersFrame DEF SInv
<1>2. CallInv(u)
  BY <1>1 DEF SInv
<1>3. /\ SubjectOf(u)' = SubjectOf(u) /\ Found(u)' = Found(u) /\ Running(u)' = Running(u)
      /\ (Returned(u)' <=> Returned(u))
  BY <1>1 DEF SubjectOf, Found, Running, Returned
<1>4. SpansFound(u)' /\ BoundariesKept(u)'
  BY <1>1, <1>2, <1>3, BoundariesFrame DEF CallInv, SpansFound
<1>5. AnswerHeld(u)'
  BY <1>1, <1>2, <1>3 DEF CallInv, AnswerHeld, Running
<1>6. Running(u)' => ScannedTo(u)'
  BY <1>1, <1>2, <1>3 DEF CallInv, ScannedTo, Covers
<1>7. Returned(u)' /\ ~failed'[u] => NoneMissed(u)'
  BY <1>1, <1>2, <1>3 DEF CallInv, NoneMissed
<1> QED
  BY <1>4, <1>5, <1>6, <1>7 DEF CallInv

\* A call begins: the text is scanned from its start, or there is nothing to scan.
LEMMA BeginStep ==
    ASSUME SInv, TypeOK', NEW t \in Threads, NEW s \in Subjects, Begin(t, s)
    PROVE  CallInv(t)'
<1>1. /\ subject'[t] = s /\ start'[t] = 0 /\ out'[t] = <<>> /\ DOMAIN out'[t] = {}
      /\ pc'[t] \in {"idle", "match"} /\ regex' = regex /\ valid' = valid
      /\ pc'[t] = "idle" => ~(valid[regex[t]] /\ Text[s].len > 0)
  BY DEF Begin, SInv, TypeOK
<1>2. SubjectOf(t)' = Text[s] /\ IsSubject(Text[s])
  BY <1>1, SubjectAssumption DEF SubjectOf
<1>3. SpansFound(t)' /\ AnswerHeld(t)' /\ BoundariesKept(t)'
  BY <1>1, <1>2 DEF SpansFound, AnswerHeld, BoundariesKept, Explained, IsSubject
<1>4. ScannedTo(t)'
  BY <1>1, <1>2 DEF ScannedTo, IsSubject
<1>5. ASSUME Returned(t)' PROVE NoneMissed(t)'
  <2>1. Text[s].len = 0
    BY <1>1, <1>2, <1>5 DEF Returned, IsSubject
  <2>2. \A p \in Text[s].starts : ~(Text[s].at[p] > 0)
    BY <1>2, <2>1 DEF IsSubject, NoMatch
  <2> QED
    BY <1>1, <2>2 DEF NoneMissed
<1> QED
  BY <1>3, <1>4, <1>5 DEF CallInv

\* pcre2_match answers, and the answer stays in the match data.
LEMMA MatchStep ==
    ASSUME SInv, NEW t \in Threads, alone[t], Match(t) PROVE CallInv(t)'
<1>1. /\ pc[t] = "match" /\ pc'[t] = "first" /\ Found(t) # {}
      /\ ovector'[regex[t]] = <<Least(Found(t)), Least(Found(t)) + SubjectOf(t).at[Least(Found(t))]>>
      /\ UNCHANGED <<regex, subject, failed, calls, valid, start, first, out>>
      /\ CallInv(t)
  BY DEF Match, locals, SInv, TypeOK, SubjectOf
<1>2. /\ SubjectOf(t)' = SubjectOf(t) /\ Found(t)' = Found(t)
      /\ Running(t) /\ Running(t)' /\ ~Returned(t)'
  BY <1>1 DEF SubjectOf, Found, Running, Returned
<1>3. SpansFound(t)' /\ BoundariesKept(t)'
  BY <1>1, <1>2, BoundariesFrame DEF CallInv, SpansFound
<1>4. AnswerHeld(t)'
  BY <1>1, <1>2 DEF AnswerHeld
<1>5. ScannedTo(t)'
  BY <1>1, <1>2 DEF CallInv, ScannedTo, Covers
<1> QED
  BY <1>2, <1>3, <1>4, <1>5 DEF CallInv

\* The loop ends: no match is left in the text.
LEMMA ReturnStep ==
    ASSUME SInv, NEW t \in Threads, alone[t], MatchNone(t) \/ MatchError(t) PROVE CallInv(t)'
<1>1. /\ pc[t] = "match" /\ pc'[t] = "idle"
      /\ UNCHANGED <<regex, subject, calls, valid, start, first, out>>
      /\ MatchError(t) => failed'[t]
      /\ CallInv(t) /\ TypeOK
  BY DEF MatchNone, MatchError, Return, locals, SInv, TypeOK
<1>2. /\ SubjectOf(t)' = SubjectOf(t)
      /\ Running(t) /\ ~Running(t)'
  BY <1>1 DEF SubjectOf, Running
<1>3. SpansFound(t)' /\ BoundariesKept(t)'
  BY <1>1, <1>2, BoundariesFrame DEF CallInv, SpansFound
<1>4. AnswerHeld(t)'
  BY <1>1 DEF AnswerHeld
<1>5. ASSUME MatchNone(t) PROVE NoneMissed(t)'
  <2> SUFFICES ASSUME NEW p \in SubjectOf(t).starts, SubjectOf(t).at[p] > 0
               PROVE  Covers(t, p)
    BY <1>1, <1>2 DEF NoneMissed, Covers, SubjectOf
  <2>1. p \in Nat /\ p <= SubjectOf(t).len /\ start[t] \in Nat /\ SubjectOf(t).len \in Nat
    BY <1>1, SubjectFacts DEF TypeOK
  <2>2. p < start[t]
    <3> SUFFICES ASSUME start[t] <= p PROVE FALSE
      BY <2>1
    <3>1. p \in Found(t)
      BY <2>1 DEF Found, SubjectOf, NoMatch
    <3> QED
      BY <1>5, <2>1, <3>1 DEF MatchNone, SubjectOf
  <2> QED
    BY <1>1, <1>2, <2>2 DEF CallInv, ScannedTo
<1> QED
  BY <1>1, <1>2, <1>3, <1>4, <1>5 DEF CallInv

\* The start of the match is read.
LEMMA ReadFirstStep ==
    ASSUME SInv, NEW t \in Threads, alone[t], ReadFirst(t) PROVE CallInv(t)'
<1>1. /\ pc[t] = "first" /\ pc'[t] = "last" /\ first'[t] = ovector[regex[t]][1]
      /\ UNCHANGED <<regex, subject, failed, calls, valid, ovector, start, out>>
      /\ CallInv(t)
  BY DEF ReadFirst, locals, SInv, TypeOK
<1>2. /\ SubjectOf(t)' = SubjectOf(t) /\ Found(t)' = Found(t)
      /\ Running(t) /\ Running(t)' /\ ~Returned(t)'
  BY <1>1 DEF SubjectOf, Found, Running, Returned
<1>3. SpansFound(t)' /\ BoundariesKept(t)'
  BY <1>1, <1>2, BoundariesFrame DEF CallInv, SpansFound
<1>4. AnswerHeld(t)'
  BY <1>1, <1>2 DEF CallInv, AnswerHeld
<1>5. ScannedTo(t)'
  BY <1>1, <1>2 DEF CallInv, ScannedTo, Covers
<1> QED
  BY <1>2, <1>3, <1>4, <1>5 DEF CallInv

\* The end of the match is read after an empty match: one byte further.
LEMMA StepOver ==
    ASSUME SInv, NEW t \in Threads, alone[t], ReadLast(t), ovector[regex[t]][2] <= first[t]
    PROVE  CallInv(t)'
<1> DEFINE p == Least(Found(t))
<1>1. /\ pc[t] = "last" /\ pc'[t] = "match" /\ start'[t] = start[t] + 1
      /\ UNCHANGED <<regex, subject, failed, calls, valid, out>>
      /\ CallInv(t) /\ TypeOK /\ start[t] \in Nat
  BY DEF ReadLast, NextStart, locals, SInv, TypeOK
<1>2. /\ SubjectOf(t)' = SubjectOf(t)
      /\ Running(t) /\ Running(t)' /\ ~Returned(t)'
  BY <1>1 DEF SubjectOf, Running, Returned
<1>3. /\ Found(t) # {} /\ first[t] = p /\ ovector[regex[t]][2] = p + SubjectOf(t).at[p]
  BY <1>1 DEF CallInv, AnswerHeld
<1>4. /\ p \in Nat /\ start[t] <= p /\ SubjectOf(t).at[p] \in Int /\ SubjectOf(t).at[p] >= 0
      /\ p = start[t] \/ p \in SubjectOf(t).starts
      /\ \A q \in Found(t) : p <= q
  BY <1>1, <1>3, LeastFacts
<1> HIDE DEF p
<1>5. SubjectOf(t).at[p] = 0
  BY <1>3, <1>4
<1>6. SpansFound(t)'
  BY <1>1, <1>2 DEF CallInv, SpansFound
<1>7. AnswerHeld(t)'
  BY <1>1 DEF AnswerHeld
<1>8. BoundariesKept(t)'
  <2>1. /\ \A k \in DOMAIN out[t] : SpanExplained(t, k)
        /\ start[t] <= SubjectOf(t).len => Explained(t, start[t], out[t])
    BY <1>1, <1>2 DEF CallInv, BoundariesKept
  <2>2. /\ \A x, q : Inside(t, x, q)' <=> Inside(t, x, q)
        /\ \A q : EmptyFrom(t, q)' <=> EmptyFrom(t, q)
    BY <1>1 DEF Inside, EmptyFrom
  <2>3. ASSUME start[t] + 1 <= SubjectOf(t).len, start[t] + 1 \notin SubjectOf(t).starts
        PROVE  Explained(t, start[t] + 1, out[t])
    <3>1. SubjectOf(t).len \in Nat /\ \A r \in SubjectOf(t).starts : r \in Nat
      BY <1>1, SubjectFacts
    <3>2. CASE start[t] \in SubjectOf(t).starts
      <4>1. Inside(t, start[t] + 1, start[t])
        BY <1>1, <2>3, <3>1, <3>2 DEF Inside, SubjectOf
      <4>2. EmptyFrom(t, start[t])
        <5>1. {x \in SubjectOf(t).starts : start[t] <= x /\ SubjectOf(t).at[x] # NoMatch} = Found(t)
          BY <1>1, <3>1, <3>2, SubjectFacts DEF Found, SubjectOf
        <5> QED
          BY <1>3, <1>5, <5>1 DEF EmptyFrom, SubjectOf, p
      <4> QED
        BY <3>2, <4>1, <4>2 DEF Explained
    <3>3. ASSUME start[t] \notin SubjectOf(t).starts PROVE Explained(t, start[t] + 1, out[t])
      <4>1. PICK q \in SubjectOf(t).starts :
               /\ Inside(t, start[t], q)
               /\ EmptyFrom(t, q) \/ (out[t] # <<>> /\ q < out[t][Len(out[t])][2])
        BY <1>1, <2>1, <2>3, <3>1, <3>3 DEF Explained
      <4>2. Inside(t, start[t] + 1, q)
        BY <1>1, <2>3, <3>1, <4>1 DEF Inside, SubjectOf
      <4> QED
        BY <4>1, <4>2 DEF Explained
    <3> QED
      BY <3>2, <3>3
  <2>4. start[t] + 1 <= SubjectOf(t).len => Explained(t, start[t] + 1, out[t])
    BY <2>3 DEF Explained
  <2>5. \A k \in DOMAIN out'[t] : SpanExplained(t, k)'
    BY <1>1, <1>2, <2>1, <2>2 DEF SpanExplained
  <2>6. Explained(t, start[t], out[t])' <=> Explained(t, start[t] + 1, out[t])
    BY <1>1, <1>2, <2>2 DEF Explained
  <2> QED
    BY <1>1, <1>2, <2>4, <2>5, <2>6 DEF BoundariesKept
<1>9. ScannedTo(t)'
  <2>0. ScannedTo(t)
    BY <1>1, <1>2 DEF CallInv
  <2>1. \A k \in DOMAIN out[t] : out[t][k][2] <= start[t] + 1
    <3>1. \A k \in DOMAIN out[t] : out[t][k][2] \in Nat /\ out[t][k][2] <= start[t]
      BY <1>1, <2>0 DEF ScannedTo, TypeOK
    <3> QED
      BY <1>1, <3>1
  <2>2. ASSUME NEW q \in SubjectOf(t).starts, q < start[t] + 1, SubjectOf(t).at[q] > 0
        PROVE  Covers(t, q)
    <3>1. q \in Nat /\ q <= SubjectOf(t).len /\ SubjectOf(t).len \in Nat
      BY <1>1, SubjectFacts
    <3>2. CASE q < start[t]
      BY <2>0, <2>2, <3>2 DEF ScannedTo
    <3>3. CASE q = start[t]
      <4>1. q \in Found(t)
        BY <1>1, <2>2, <3>1, <3>3 DEF Found, SubjectOf, NoMatch
      <4> QED
        BY <1>4, <1>5, <2>2, <3>1, <3>3, <4>1
    <3> QED
      BY <1>1, <2>2, <3>1, <3>2, <3>3
  <2> QED
    BY <1>1, <1>2, <2>1, <2>2 DEF ScannedTo, Covers
<1> QED
  BY <1>2, <1>6, <1>7, <1>8, <1>9 DEF CallInv

\* The end of a match that is not empty is read: the span is kept.
LEMMA KeepSpan ==
    ASSUME SInv, NEW t \in Threads, alone[t], ReadLast(t), ~(ovector[regex[t]][2] <= first[t])
    PROVE  CallInv(t)'
<1> DEFINE p == Least(Found(t))
           e == p + SubjectOf(t).at[p]
           n == Len(out[t])
<1>1. /\ pc[t] = "last" /\ pc'[t] = "match"
      /\ UNCHANGED <<regex, subject, failed, calls, valid>>
      /\ CallInv(t) /\ TypeOK /\ start[t] \in Nat /\ out[t] \in Seq(Nat \X Nat)
  BY DEF ReadLast, locals, SInv, TypeOK
<1>2. /\ SubjectOf(t)' = SubjectOf(t)
      /\ Running(t) /\ Running(t)' /\ ~Returned(t)'
      /\ ScannedTo(t)
  BY <1>1 DEF SubjectOf, Running, Returned, CallInv
<1>3. /\ Found(t) # {} /\ first[t] = p /\ ovector[regex[t]][2] = e
  BY <1>1 DEF CallInv, AnswerHeld
<1>4. /\ p \in Nat /\ e \in Nat /\ start[t] <= p /\ p <= SubjectOf(t).len
      /\ SubjectOf(t).at[p] \in Int /\ SubjectOf(t).at[p] >= 0 /\ e = p + SubjectOf(t).at[p]
      /\ p = start[t] \/ p \in SubjectOf(t).starts
      /\ \A q \in Found(t) : p <= q
  BY <1>1, <1>3, LeastFacts
<1>5. start'[t] = e /\ out'[t] = Append(out[t], <<p, e>>)
  BY <1>1, <1>3 DEF ReadLast, NextStart, TypeOK
<1> HIDE DEF p, e, n
<1>6. p < e /\ SubjectOf(t).at[p] > 0
  BY <1>3, <1>4
<1>7. /\ n \in Nat /\ DOMAIN out[t] = 1..n /\ DOMAIN out'[t] = 1..(n + 1)
      /\ \A k \in 1..n : out'[t][k] = out[t][k]
      /\ out'[t][n + 1] = <<p, e>>
  BY <1>1, <1>4, <1>5, AppendProperties DEF n
<1>8. \A k \in 1..n : /\ out[t][k][1] \in Nat /\ out[t][k][2] \in Nat
                      /\ out[t][k][2] <= start[t]
  BY <1>1, <1>2, <1>7 DEF ScannedTo
<1>9. SpansFound(t)'
  <2> SUFFICES ASSUME NEW k \in 1..(n + 1)
               PROVE  /\ out'[t][k][1] \in 0..SubjectOf(t).len
                      /\ SubjectOf(t).at[out'[t][k][1]] > 0
                      /\ out'[t][k][2] = out'[t][k][1] + SubjectOf(t).at[out'[t][k][1]]
                      /\ k > 1 => out'[t][k - 1][2] <= out'[t][k][1]
    BY <1>2, <1>7 DEF SpansFound
  <2>1. CASE k \in 1..n
    <3>1. k > 1 => k - 1 \in 1..n
      BY <1>7, <2>1
    <3> QED
      BY <1>1, <1>7, <2>1, <3>1 DEF CallInv, SpansFound
  <2>2. CASE k = n + 1
    <3>1. p \in 0..SubjectOf(t).len
      BY <1>1, <1>4, SubjectFacts
    <3>2. k - 1 = n /\ (k > 1 => n \in 1..n)
      BY <1>7, <2>2
    <3>3. \A l \in 1..n : out'[t][l][2] <= p
      <4>1. start[t] \in Nat /\ start[t] <= p /\ p \in Nat
        BY <1>1, <1>4
      <4>2. \A l \in 1..n : out[t][l][2] <= p
        BY <1>8, <4>1
      <4> QED
        BY <1>7, <4>2
    <3>4. k > 1 => out'[t][k - 1][2] <= p
      BY <3>2, <3>3
    <3> QED
      BY <1>4, <1>6, <1>7, <2>2, <3>1, <3>4
  <2> QED
    BY <1>7, <2>1, <2>2
<1>10. AnswerHeld(t)'
  BY <1>1 DEF AnswerHeld
<1>11. BoundariesKept(t)'
  <2>1. /\ \A k \in 1..n : SpanExplained(t, k)
        /\ start[t] <= SubjectOf(t).len => Explained(t, start[t], out[t])
    BY <1>1, <1>2, <1>7 DEF CallInv, BoundariesKept
  <2>2. /\ \A x, q : Inside(t, x, q)' <=> Inside(t, x, q)
        /\ \A q : EmptyFrom(t, q)' <=> EmptyFrom(t, q)
    BY <1>1 DEF Inside, EmptyFrom
  <2>3. ASSUME NEW k \in 1..n PROVE SpanExplained(t, k)'
    <3>1. k > 1 => k - 1 \in 1..n
      BY <1>7
    <3>2. out'[t][k] = out[t][k] /\ (k > 1 => out'[t][k - 1] = out[t][k - 1])
      BY <1>7, <3>1
    <3> QED
      BY <1>2, <2>1, <2>2, <3>2 DEF SpanExplained
  <2>4. ASSUME NEW k \in Nat, k = n + 1 PROVE SpanExplained(t, k)'
    <3>0. out'[t][k] = <<p, e>>
      BY <1>7, <2>4
    <3>1. CASE p \in SubjectOf(t).starts
      <4>1. e \in SubjectOf(t).starts
        BY <1>1, <1>4, <1>6, <3>1, SubjectFacts DEF NoMatch
      <4> QED
        BY <1>2, <3>0, <3>1, <4>1 DEF SpanExplained
    <3>2. CASE p \notin SubjectOf(t).starts
      <4>1. PICK q \in SubjectOf(t).starts :
               /\ Inside(t, p, q)
               /\ EmptyFrom(t, q) \/ (out[t] # <<>> /\ q < out[t][n][2])
        BY <1>4, <2>1, <3>2 DEF Explained, n
      <4>2. out[t] # <<>> => k > 1 /\ k - 1 = n /\ n \in 1..n
        BY <1>1, <1>7, <2>4 DEF n
      <4>3. out[t] # <<>> => out'[t][k - 1] = out[t][n]
        BY <1>7, <4>2
      <4>4. EmptyFrom(t, q) \/ (k > 1 /\ q < out'[t][k - 1][2])
        BY <4>1, <4>2, <4>3
      <4>5. Inside(t, out'[t][k][1], q)
        BY <3>0, <4>1
      <4> QED
        BY <1>2, <2>2, <4>4, <4>5 DEF SpanExplained
    <3> QED
      BY <3>1, <3>2
  <2>5. ASSUME e <= SubjectOf(t).len PROVE Explained(t, start[t], out[t])'
    <3>1. CASE e \in SubjectOf(t).starts
      BY <1>2, <1>5, <3>1 DEF Explained
    <3>2. CASE e \notin SubjectOf(t).starts
      <4>1. PICK q \in SubjectOf(t).starts : Inside(t, e, q)
        BY <1>1, <1>4, <2>5, <3>2, InsideSome, SubjectFacts
      <4>2. q < e
        BY <4>1 DEF Inside
      <4>3. out'[t] # <<>> /\ Len(out'[t]) = n + 1
        <5>1. <<p, e>> \in Nat \X Nat
          BY <1>4
        <5>2. ASSUME NEW z \in Seq(Nat \X Nat), NEW x \in Nat \X Nat
              PROVE  Append(z, x) # <<>> /\ Len(Append(z, x)) = Len(z) + 1
          BY AppendProperties
        <5> QED
          BY <1>1, <1>5, <5>1, <5>2 DEF n
      <4> QED
        BY <1>2, <1>5, <1>7, <2>2, <4>1, <4>2, <4>3 DEF Explained
    <3> QED
      BY <3>1, <3>2
  <2>6. \A k \in 1..(n + 1) : k \in 1..n \/ k = n + 1
    BY <1>7
  <2>7. \A k \in DOMAIN out'[t] : SpanExplained(t, k)'
    <3> SUFFICES ASSUME NEW k \in DOMAIN out'[t] PROVE SpanExplained(t, k)'
      OBVIOUS
    <3>1. k \in Nat /\ (k \in 1..n \/ k = n + 1)
      BY <1>7, <2>6
    <3> QED
      BY <2>3, <2>4, <3>1
  <2> QED
    BY <1>2, <1>5, <2>5, <2>7 DEF BoundariesKept
<1>12. ScannedTo(t)'
  <2>1. \A k \in 1..(n + 1) : out'[t][k][2] <= e
    <3>1. \A k \in 1..n : out[t][k][2] <= e
      BY SMTT(30), <1>1, <1>4, <1>6, <1>8
    <3>2. out'[t][n + 1][2] <= e
      BY <1>4, <1>7
    <3>3. \A k \in 1..n : out'[t][k][2] <= e
      BY <1>7, <3>1
    <3>4. \A k \in 1..(n + 1) : k \in 1..n \/ k = n + 1
      BY <1>7
    <3> QED
      BY <3>2, <3>3, <3>4
  <2>2. ASSUME NEW q \in SubjectOf(t).starts, q < e, SubjectOf(t).at[q] > 0
        PROVE  \E k \in 1..(n + 1) : out'[t][k][1] <= q /\ q < out'[t][k][2]
    <3>1. q \in Nat /\ q <= SubjectOf(t).len /\ SubjectOf(t).len \in Nat
      BY <1>1, SubjectFacts
    <3>2. CASE q < start[t]
      <4>1. PICK k \in 1..n : out[t][k][1] <= q /\ q < out[t][k][2]
        BY <1>2, <1>7, <2>2, <3>2 DEF ScannedTo, Covers
      <4>2. k \in 1..(n + 1)
        BY <1>7
      <4> QED
        BY <1>7, <4>1, <4>2
    <3>3. CASE start[t] <= q
      <4>1. q \in Found(t)
        BY <1>1, <2>2, <3>1, <3>3 DEF Found, SubjectOf, NoMatch
      <4>2. p <= q /\ n + 1 \in 1..(n + 1)
        BY <1>4, <1>7, <4>1
      <4> QED
        BY <1>7, <2>2, <4>2
    <3> QED
      BY <1>1, <3>1, <3>2, <3>3
  <2> QED
    BY <1>2, <1>5, <1>7, <2>1, <2>2 DEF ScannedTo, Covers
<1> QED
  BY <1>2, <1>9, <1>10, <1>11, <1>12 DEF CallInv

\* The steps of a call that has its Regex to itself.
LEMMA OwnCallStep ==
    ASSUME SInv, TypeOK', NEW t \in Threads, Step(t) \/ \E s \in Subjects : Begin(t, s), alone'[t]
    PROVE  CallInv(t)'
<1>1. CASE Step(t)
  <2>1. alone[t]
    BY <1>1 DEF Step, Match, MatchNone, MatchError, ReadFirst, ReadLast
  <2> QED
    BY <1>1, <2>1, MatchStep, ReturnStep, ReadFirstStep, StepOver, KeepSpan DEF Step
<1>2. CASE \E s \in Subjects : Begin(t, s)
  BY <1>2, BeginStep
<1> QED
  BY <1>1, <1>2

-------------------------------------------------------------------------------
(* The invariant holds throughout. *)

\* Nobody has begun a call.
LEMMA InitSInv == ASSUME Init PROVE SInv
<1>1. TypeOK
  <2>1. (CHOOSE s \in Subjects : TRUE) \in Subjects
    BY SomeSubject
  <2> QED
    BY <2>1, CallsAssumption DEF Init, TypeOK
<1>2. Exclusive
  BY DEF Init, Exclusive, Running
<1>3. ASSUME NEW t \in Threads PROVE CallInv(t)
  <2>1. out[t] = <<>> /\ DOMAIN out[t] = {} /\ pc[t] = "idle" /\ calls[t] = 0
    BY <1>3 DEF Init
  <2> QED
    BY <2>1 DEF CallInv, SpansFound, AnswerHeld, BoundariesKept, Running, Returned
<1> QED
  BY <1>1, <1>2, <1>3 DEF SInv

\* Every step keeps the invariant.
LEMMA NextSInv == ASSUME SInv, [Next]_vars PROVE SInv'
<1>1. TypeOK' /\ Exclusive'
  BY TypeStep, ExclusiveStep DEF SInv
<1>2. CASE UNCHANGED vars
  <2>1. \A t \in Threads : CallInv(t)' <=> CallInv(t)
    BY <1>2 DEF vars, CallInv, SpansFound, AnswerHeld, BoundariesKept, SpanExplained, Explained,
                Inside, EmptyFrom, ScannedTo, Covers, Running, Returned, NoneMissed, SubjectOf, Found
  <2> QED
    BY <1>1, <1>2, <2>1 DEF SInv, vars
<1>3. ASSUME NEW t \in Threads, Step(t) \/ \E s \in Subjects : Begin(t, s) PROVE SInv'
  <2>1. \A u \in Threads : alone'[u] => CallInv(u)'
    BY <1>1, <1>3, OtherCallStep, OwnCallStep
  <2> QED
    BY <1>1, <2>1 DEF SInv
<1> QED
  BY <1>2, <1>3 DEF Next

\* The invariant holds in every state.
LEMMA SpecSInv == Spec => []SInv
<1>1. Init => SInv
  BY InitSInv
<1>2. SInv /\ [Next]_vars => SInv'
  BY NextSInv
<1> QED
  BY <1>1, <1>2, PTL DEF Spec

(***************************************************************************)
(* find_all's variables keep their types.                                  *)
(***************************************************************************)
THEOREM TypeCorrect == Spec => []TypeOK
<1>1. SInv => TypeOK
  BY DEF SInv
<1> QED
  BY <1>1, SpecSInv, PTL

(***************************************************************************)
(* A call that has its Regex to itself returns exactly the matches of its  *)
(* text: spans of matches in order, and none missed unless PCRE2 gave up.  *)
(***************************************************************************)
THEOREM ScansExactly == Spec => []ScanExact
<1>1. ASSUME SInv PROVE ScanExact
  <2> SUFFICES ASSUME NEW t \in Threads, alone[t]
               PROVE  InScanOrder(t) /\ (Returned(t) /\ ~failed[t] => NoneMissed(t))
    BY DEF ScanExact
  <2>1. CallInv(t) /\ TypeOK
    BY <1>1 DEF SInv
  <2>2. ASSUME NEW k \in DOMAIN out[t] PROVE out[t][k][1] < SubjectOf(t).len
    <3>1. /\ out[t][k][1] \in 0..SubjectOf(t).len /\ SubjectOf(t).at[out[t][k][1]] > 0
      BY <2>1, <2>2 DEF CallInv, SpansFound
    <3> QED
      BY <2>1, <3>1, SubjectFacts
  <2>3. InScanOrder(t)
    BY <2>1, <2>2 DEF InScanOrder, CallInv, SpansFound, SubjectOf
  <2> QED
    BY <2>1, <2>3 DEF CallInv
<1> QED
  BY <1>1, SpecSInv, PTL

(***************************************************************************)
(* The spans of a call that has its Regex to itself are whole characters,  *)
(* but where the scan stepped over an empty match into a character.        *)
(***************************************************************************)
THEOREM StaysOnBoundaries == Spec => []OnBoundaries
<1>1. SInv => OnBoundaries
  BY DEF SInv, CallInv, BoundariesKept, SpanExplained, OnBoundaries, SubjectOf
<1> QED
  BY <1>1, SpecSInv, PTL
===============================================================================
