------------------------------ MODULE RegexScan ------------------------------
(***************************************************************************)
(* Regex::find_all of src/pretokenizers/regex_engine.cpp: the scan of a    *)
(* text for all matches of a pattern, by several threads.  The matching    *)
(* itself is PCRE2's: a text comes with the length of the match at each of *)
(* its offsets.  pcre2_match answers through a match data block that the   *)
(* Regex owns, so threads that use one Regex write and read the same block;*)
(* find_all reads the two ends of the match one after the other.           *)
(***************************************************************************)
EXTENDS Integers, Sequences, FiniteSets

CONSTANTS Threads, Regexes,
          Subjects,   \* names of the texts
          Text,       \* [Subjects -> [len, starts (of characters, and len), at]]
          MaxCalls    \* bound of the model: calls a thread makes

NoMatch == -1

\* at[p] is the length of the match at offset p.  One at the start of a character
\* ends at one; inside a character (PCRE2_NO_UTF_CHECK) anything may be found.
IsSubject(s) ==
    /\ s.len \in Nat /\ s.starts \subseteq 0..s.len /\ {0, s.len} \subseteq s.starts
    /\ s.at \in [0..s.len -> {NoMatch} \cup 0..s.len]
    /\ \A p \in 0..s.len : p + s.at[p] <= s.len
    /\ \A p \in s.starts : s.at[p] # NoMatch => p + s.at[p] \in s.starts

ASSUME SomeSubject       == Subjects # {}
ASSUME SubjectAssumption == \A s \in Subjects : IsSubject(Text[s])
ASSUME CallsAssumption   == MaxCalls \in Nat

VARIABLES valid,     \* [Regexes -> BOOLEAN]: code_ is not null
          ovector,   \* [Regexes -> <<start, end>>]: the match data of a Regex
          pc,        \* [Threads -> "idle", "match", "first" or "last"]
          regex,     \* the Regex a thread's call is on
          subject,   \* the text of the call
          start,     \* start
          first,     \* mstart
          out,       \* out, kept after the return
          failed,    \* history: PCRE2 gave up in the call (an error other than NOMATCH)
          alone,     \* history: no other call on the Regex overlapped with this one
          calls      \* calls begun so far

vars == <<valid, ovector, pc, regex, subject, start, first, out, failed, alone, calls>>

locals == <<regex, subject, failed, calls>>

Init ==
    /\ valid \in [Regexes -> BOOLEAN]
    /\ ovector = [r \in Regexes |-> <<0, 0>>]
    /\ pc = [t \in Threads |-> "idle"]
    /\ regex \in [Threads -> Regexes]
    /\ subject = [t \in Threads |-> CHOOSE s \in Subjects : TRUE]
    /\ start = [t \in Threads |-> 0] /\ first = [t \in Threads |-> 0]
    /\ out = [t \in Threads |-> <<>>]
    /\ failed = [t \in Threads |-> FALSE] /\ alone = [t \in Threads |-> TRUE]
    /\ calls = [t \in Threads |-> 0]

\* The other calls that are running on the same Regex.
Rivals(t) == {u \in Threads \ {t} : pc[u] # "idle" /\ regex[u] = regex[t]}

\* The early return on an invalid pattern or an empty text leaves out empty.
Begin(t, s) ==
    /\ pc[t] = "idle" /\ calls[t] < MaxCalls
    /\ calls' = [calls EXCEPT ![t] = @ + 1]
    /\ subject' = [subject EXCEPT ![t] = s]
    /\ start' = [start EXCEPT ![t] = 0] /\ out' = [out EXCEPT ![t] = <<>>]
    /\ failed' = [failed EXCEPT ![t] = FALSE]
    /\ IF valid[regex[t]] /\ Text[s].len > 0
       THEN /\ pc' = [pc EXCEPT ![t] = "match"]
            /\ alone' = [u \in Threads |->
                           IF u = t THEN Rivals(t) = {} ELSE alone[u] /\ u \notin Rivals(t)]
       ELSE /\ alone' = [alone EXCEPT ![t] = TRUE]
            /\ UNCHANGED pc
    /\ UNCHANGED <<valid, ovector, regex, first>>

Return(t) == pc' = [pc EXCEPT ![t] = "idle"]

\* PCRE2 tries the offset it is given, then every start of a character after it.
Found(t) ==
    {p \in start[t]..Text[subject[t]].len :
       (p = start[t] \/ p \in Text[subject[t]].starts) /\ Text[subject[t]].at[p] # NoMatch}

Least(S) == CHOOSE p \in S : \A q \in S : p <= q

\* Mutant: the answer NOMATCH is not looked at.
MatchUnchecked(t) ==
    /\ pc[t] = "match" /\ start[t] <= Text[subject[t]].len
    /\ Found(t) # {} =>
          LET p == Least(Found(t))
          IN ovector' = [ovector EXCEPT ![regex[t]] = <<p, p + Text[subject[t]].at[p]>>]
    /\ Found(t) = {} => UNCHANGED ovector
    /\ pc' = [pc EXCEPT ![t] = "first"]
    /\ UNCHANGED <<locals, valid, start, first, out, alone>>

\* Mutant: the match is taken to be at start.
MatchHere(t) ==
    /\ pc[t] = "match" /\ start[t] <= Text[subject[t]].len /\ Found(t) # {}
    /\ ovector' = [ovector EXCEPT ![regex[t]] =
                      <<start[t], start[t] + Text[subject[t]].at[start[t]]>>]
    /\ pc' = [pc EXCEPT ![t] = "first"]
    /\ UNCHANGED <<locals, valid, start, first, out, alone>>

\* pcre2_match finds the leftmost match from start on and stores its ends.
Match(t) ==
    /\ pc[t] = "match" /\ start[t] <= Text[subject[t]].len /\ Found(t) # {}
    /\ LET p == Least(Found(t))
       IN ovector' = [ovector EXCEPT ![regex[t]] = <<p, p + Text[subject[t]].at[p]>>]
    /\ pc' = [pc EXCEPT ![t] = "first"]
    /\ UNCHANGED <<locals, valid, start, first, out, alone>>

\* NOMATCH, or start is behind the text: the loop ends.
MatchNone(t) ==
    /\ pc[t] = "match" /\ (start[t] > Text[subject[t]].len \/ Found(t) = {})
    /\ Return(t)
    /\ UNCHANGED <<locals, valid, ovector, start, first, out, alone>>

\* Another error, such as a resource limit, ends the loop in the same way.
MatchError(t) ==
    /\ pc[t] = "match" /\ start[t] <= Text[subject[t]].len
    /\ failed' = [failed EXCEPT ![t] = TRUE]
    /\ Return(t)
    /\ UNCHANGED <<valid, ovector, regex, subject, start, first, out, alone, calls>>

ReadFirst(t) ==
    /\ pc[t] = "first"
    /\ first' = [first EXCEPT ![t] = ovector[regex[t]][1]]
    /\ pc' = [pc EXCEPT ![t] = "last"]
    /\ UNCHANGED <<locals, valid, ovector, start, out, alone>>

\* Mutant: an empty match is not stepped over.
NextStartStuck(t, last) == last

\* Mutant: the scan goes on behind the first byte after the match.
NextStartGap(t, last) == IF last <= first[t] THEN start[t] + 1 ELSE last + 1

\* After an empty match one byte further than before, otherwise behind the match.
NextStart(t, last) == IF last <= first[t] THEN start[t] + 1 ELSE last

ReadLast(t) ==
    /\ pc[t] = "last"
    /\ LET last == ovector[regex[t]][2]
       IN /\ start' = [start EXCEPT ![t] = NextStart(t, last)]
          /\ out' = IF last <= first[t] THEN out
                    ELSE [out EXCEPT ![t] = Append(@, <<first[t], last>>)]
    /\ pc' = [pc EXCEPT ![t] = "match"]
    /\ first' = [first EXCEPT ![t] = 0]
    /\ UNCHANGED <<locals, valid, ovector, alone>>

Step(t) == Match(t) \/ MatchNone(t) \/ MatchError(t) \/ ReadFirst(t) \/ ReadLast(t)

Next == \E t \in Threads : Step(t) \/ \E s \in Subjects : Begin(t, s)

Spec == Init /\ [][Next]_vars

\* A thread in the loop of find_all goes on.
FairSpec == Spec /\ \A t \in Threads : WF_vars(Step(t))

-------------------------------------------------------------------------------
(***************************************************************************)
(* Types of find_all's variables.                                          *)
(***************************************************************************)
TypeOK ==
    /\ valid \in [Regexes -> BOOLEAN] /\ ovector \in [Regexes -> Nat \X Nat]
    /\ pc \in [Threads -> {"idle", "match", "first", "last"}]
    /\ regex \in [Threads -> Regexes] /\ subject \in [Threads -> Subjects]
    /\ start \in [Threads -> Nat] /\ first \in [Threads -> Nat]
    /\ out \in [Threads -> Seq(Nat \X Nat)]
    /\ failed \in [Threads -> BOOLEAN] /\ alone \in [Threads -> BOOLEAN]
    /\ calls \in [Threads -> 0..MaxCalls]

\* A call that ran to its end.
Returned(t) == pc[t] = "idle" /\ calls[t] > 0 /\ valid[regex[t]]

(***************************************************************************)
(* Each span found is a match of the call's own text, and starts at or     *)
(* after the end of the one before.                                        *)
(***************************************************************************)
InScanOrder(t) ==
    \A k \in DOMAIN out[t] :
       LET p == out[t][k][1]
       IN /\ p < Text[subject[t]].len /\ out[t][k][2] = p + Text[subject[t]].at[p]
          /\ k > 1 => out[t][k - 1][2] <= p

(***************************************************************************)
(* No match is missed: every offset that starts a character and a          *)
(* non-empty match lies in a span found.                                   *)
(***************************************************************************)
NoneMissed(t) ==
    \A p \in Text[subject[t]].starts : Text[subject[t]].at[p] > 0 =>
       \E k \in DOMAIN out[t] : out[t][k][1] <= p /\ p < out[t][k][2]

(***************************************************************************)
(* A call that has its Regex to itself finds exactly the matches of its    *)
(* text, though the match data still holds another call's answer, and      *)
(* though empty matches are stepped over byte by byte.  After an error the *)
(* spans found before it are returned.                                     *)
(***************************************************************************)
ScanExact ==
    \A t \in Threads : alone[t] =>
       /\ InScanOrder(t)
       /\ Returned(t) /\ ~failed[t] => NoneMissed(t)

\* Offset p lies inside the character that starts at q.
Inside(t, p, q) ==
    /\ q \in Text[subject[t]].starts /\ q < p
    /\ \A r \in Text[subject[t]].starts : r <= q \/ p < r

\* A search from the character at q finds the empty string first.
EmptyFrom(t, q) ==
    LET F == {p \in Text[subject[t]].starts : q <= p /\ Text[subject[t]].at[p] # NoMatch}
    IN F # {} /\ Text[subject[t]].at[Least(F)] = 0

(***************************************************************************)
(* Spans are whole characters, but for what empty matches bring about: the *)
(* step over one is a single byte from where the search began, so it may   *)
(* end inside a character, and a match there may end inside a character    *)
(* too.  A span begins inside a character only if a search from that       *)
(* character found the empty string, or the span before ended in it; a     *)
(* pattern that never matches the empty string keeps to whole characters.  *)
(***************************************************************************)
OnBoundaries ==
    \A t \in Threads : alone[t] =>
       \A k \in DOMAIN out[t] :
          \/ {out[t][k][1], out[t][k][2]} \subseteq Text[subject[t]].starts
          \/ \E q \in Text[subject[t]].starts :
                /\ Inside(t, out[t][k][1], q)
                /\ EmptyFrom(t, q) \/ (k > 1 /\ q < out[t][k - 1][2])

(***************************************************************************)
(* A call returns once no other call runs on its Regex, whatever spans and *)
(* whatever start the rivals' matches have left it with.  While rivals go  *)
(* on nothing makes it return: a match of theirs may set its start back    *)
(* again and again.                                                        *)
(***************************************************************************)
CallsReturn == \A t \in Threads : <>[](Rivals(t) = {}) => []<>(pc[t] = "idle")

(***************************************************************************)
(* "match_data is thread_local (each thread's own), which avoids conflicts *)
(* of concurrent JIT matches": every call finds the matches of its text.   *)
(***************************************************************************)
EachCallExact ==
    \A t \in Threads : InScanOrder(t) /\ (Returned(t) /\ ~failed[t] => NoneMissed(t))
===============================================================================
