----------------------------- MODULE MCWordMerge -----------------------------
(***************************************************************************)
(* HeapMerge for TLC.  A token is the text it stands for, a sequence over  *)
(* two letters; the merge tables are those a training run of three merges  *)
(* could write, so that merges overlap, nest and share merged ids (aa+a    *)
(* and a+aa); the words are all words of each length in Lengths and one with*)
(* an unknown symbol of three bytes.                                       *)
(***************************************************************************)
EXTENDS HeapMerge, TLC

CONSTANTS Lengths,     \* lengths of the words of one-byte symbols
          MaxText      \* longest token a merge may form

Letters == {"a", "b"}

Texts(n) == UNION {[1..k -> Letters] : k \in 1..n}

Unk == <<"?">>

MCId == Texts(MaxText) \cup {Unk}

MCWidth == [t \in MCId |-> Len(t)]

Text(p) == p[1] \o p[2]

\* The pairs that can be merged once the tokens of the pairs in ps exist.
Extensions(ps) ==
    LET toks == {<<l>> : l \in Letters} \cup {Text(ps[k]) : k \in DOMAIN ps}
    IN {p \in toks \X toks : Len(Text(p)) <= MaxText /\ \A k \in DOMAIN ps : ps[k] # p}

\* By the symmetry of the letters the first merge is aa or ab.
Trainings ==
    LET first  == {<< <<"a">>, <<"a">> >>, << <<"a">>, <<"b">> >>}
        second == UNION {{<<p, q>> : q \in Extensions(<<p>>)} : p \in first}
    IN UNION {{Append(ps, q) : q \in Extensions(ps)} : ps \in second}

Table(ps) ==
    [p \in {ps[k] : k \in DOMAIN ps} |->
       [rank |-> (CHOOSE k \in DOMAIN ps : ps[k] = p) - 1, id |-> Text(p)]]

MCMergeTables == {Table(ps) : ps \in Trainings}

WordOf(s) == [i \in 0..(Len(s) - 1) |-> [c |-> <<s[i + 1]>>, at |-> i, len |-> 1]]

UnkWord ==
    (0 :> [c |-> <<"a">>, at |-> 0, len |-> 1]) @@ (1 :> [c |-> Unk, at |-> 1, len |-> 3])
      @@ (2 :> [c |-> <<"a">>, at |-> 4, len |-> 1]) @@ (3 :> [c |-> <<"b">>, at |-> 5, len |-> 1])

MCWords == {WordOf(s) : s \in UNION {[1..n -> Letters] : n \in Lengths}} \cup {UnkWord}
===============================================================================
