----------------------------- MODULE MCBpeTrainer -----------------------------
(***************************************************************************)
(* BpeTrainer for TLC: characters 1, 2 and 3 (3 takes two bytes), words in *)
(* which pairs repeat, overlap (111) and share characters, so that one     *)
(* merge disturbs others in several words and in several slices.           *)
(***************************************************************************)
EXTENDS BpeTrainer

MCCharLen == <<1, 1, 2>>

W1 == <<1, 2, 1, 2>>
W2 == <<1, 1, 1>>
W3 == <<2, 1, 2, 3>>
W4 == <<1, 2, 3>>

MCBatches == {(W1 :> 2) @@ (W2 :> 1), (W3 :> 1), (W4 :> 2) @@ (W2 :> 2)}

Plain == [special |-> <<>>, limit |-> NoLimit, initial |-> {}, prefix |-> FALSE,
          suffix |-> FALSE, max_len |-> NoLimit, min_frequency |-> 1, vocab_size |-> 8]

UnkToken == [pre |-> FALSE, text |-> <<9>>, suf |-> FALSE]

\* A special token, duplicated and equal to a character; trimming; a small
\* vocabulary; rare pairs; short tokens; both affixes.
MCOptionSets ==
    {Plain,
     [Plain EXCEPT !.special = <<UnkToken, UnkToken, Char(1)>>, !.min_frequency = 2],
     [Plain EXCEPT !.limit = 2, !.min_frequency = 2],
     [Plain EXCEPT !.vocab_size = 4],
     [Plain EXCEPT !.max_len = 3],
     [Plain EXCEPT !.prefix = TRUE, !.vocab_size = 10, !.min_frequency = 2],
     [Plain EXCEPT !.suffix = TRUE, !.vocab_size = 9, !.initial = {2, 3}, !.limit = 2]}

MCModels == {[prefix |-> FALSE, suffix |-> FALSE], [prefix |-> TRUE, suffix |-> FALSE]}

\* (1,2) is the most frequent pair; (2,3) is also in a word without it.
SharedBatches == {(<<1, 2>> :> 3) @@ (W4 :> 1) @@ (<<2, 3>> :> 2)}

OneOption == {[Plain EXCEPT !.min_frequency = 2]}
PlainModel == {[prefix |-> FALSE, suffix |-> FALSE]}
===============================================================================
