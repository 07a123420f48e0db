------------------------------ MODULE MCRegexScan ------------------------------
(***************************************************************************)
(* RegexScan for TLC: the empty text, and a text of a one-byte and a       *)
(* two-byte character with the ways a pattern may match in it: the empty   *)
(* string at any character, inside the second character too, and at the    *)
(* end if it matches empty at the front.                                   *)
(***************************************************************************)
EXTENDS RegexScan, TLC

\* A name lists the match lengths at the offsets 0 to 3; offset 2 is inside the
\* second character.
MCSubjects ==
    {<<NoMatch>>} \cup
    {<<a, b, inside, IF a = 0 THEN 0 ELSE NoMatch>> :
       a \in {NoMatch, 0, 1, 3}, b \in {NoMatch, 0, 2}, inside \in {NoMatch, 1}}

MCTexts ==
    [s \in MCSubjects |-> [len    |-> Len(s) - 1,
                           starts |-> IF Len(s) = 1 THEN {0} ELSE {0, 1, 3},
                           at     |-> [p \in 0..(Len(s) - 1) |-> s[p + 1]]]]
===============================================================================
