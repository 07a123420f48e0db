----------------------------- MODULE MCEncodeOne -----------------------------
(***************************************************************************)
(* EncodeOne for TLC: texts of at most four bytes with spaces, letters of  *)
(* both cases, delimiters and characters of two and three bytes, and the   *)
(* normalizer and pre-tokenizer sequences the factories build.             *)
(***************************************************************************)
EXTENDS EncodeOne

Short == UNION {[1..n -> {"space", "lower", "dash"}] : n \in 0..3}

MCTexts == Short \cup
    {<<"space", "upper", "space">>, <<"lower", "dash", "dash", "lower">>,
     <<"lower", "space", "lower">>, <<"space", "space", "lower", "space">>,
     <<"space", "two", "cont", "space">>, <<"two", "cont", "lower">>, <<"three", "cont", "cont">>}

SplitOf(behavior, invert) == [type |-> "Split", behavior |-> behavior, invert |-> invert]
ByteLevelOf(prefix, regex) == [type |-> "ByteLevel", prefix |-> prefix, regex |-> regex]

NoTrim == [trim |-> FALSE, prefix |-> FALSE]
Trimmed == [trim |-> TRUE, prefix |-> FALSE]
NoTruncation == [max |-> -1, fromEnd |-> FALSE]

Pipeline == [normalizers |-> <<>>, pretokenizers |-> <<>>, post |-> NoTrim, truncation |-> NoTruncation]

\* Every split behaviour alone; Split and ByteLevel in both orders, with
\* trimming; strip and truncation from either end.
MCConfigs ==
    {[Pipeline EXCEPT !.pretokenizers = <<SplitOf(b, i)>>, !.normalizers = <<"Strip">>] :
        b \in Behaviors, i \in BOOLEAN}
    \cup {[Pipeline EXCEPT !.pretokenizers = <<SplitOf(b, FALSE), ByteLevelOf(FALSE, FALSE)>>,
                           !.post = Trimmed] : b \in {"Isolated", "Contiguous"}}
    \cup {[Pipeline EXCEPT !.pretokenizers = <<ByteLevelOf(TRUE, r)>>, !.normalizers = <<"Strip">>,
                           !.post = [trim |-> r, prefix |-> TRUE]] : r \in BOOLEAN}
    \cup {[Pipeline EXCEPT !.pretokenizers = <<ByteLevelOf(FALSE, TRUE)>>, !.post = Trimmed,
                           !.normalizers = <<"Lowercase", "Strip">>],
          [Pipeline EXCEPT !.pretokenizers = <<SplitOf("Isolated", FALSE), ByteLevelOf(TRUE, FALSE)>>],
          [Pipeline EXCEPT !.pretokenizers = <<ByteLevelOf(FALSE, FALSE), SplitOf("MergedWithNext", FALSE)>>,
                           !.truncation = [max |-> 1, fromEnd |-> TRUE]],
          [Pipeline EXCEPT !.normalizers = <<"Strip", "Uppercase">>,
                           !.truncation = [max |-> 2, fromEnd |-> FALSE]]}

\* The space is inserted; the post-processor knows, or there is none.
PrefixConfigs == {[Pipeline EXCEPT !.pretokenizers = <<ByteLevelOf(TRUE, FALSE)>>]}
CaseConfigs == {[Pipeline EXCEPT !.normalizers = <<n>>, !.pretokenizers = <<SplitOf("Isolated", FALSE)>>] :
                   n \in {"Lowercase", "Uppercase"}}

-------------------------------------------------------------------------------
(***************************************************************************)
(* The bytes under the texts.  TLC evaluates these facts of ByteText at    *)
(* start-up: on every byte, and on all texts of at most two boundary bytes *)
(* and the encoded boundary characters, whole, cut short and followed by   *)
(* another byte.                                                           *)
(***************************************************************************)
Text == INSTANCE ByteText

Boundary == {0, 32, 97, 127, 128, 160, 173, 191, 192, 194, 223, 224, 237, 239, 240, 244, 247, 255}

Characters == {0, 127, 128, 255, 256, 323, 2047, 2048, 55295, 57344, 65533, 65535, 65536, 1114111}

ByteTexts ==
    UNION {[1..n -> Boundary] : n \in 0..2}
    \cup UNION {{SubSeq(Text!Encode(c), 1, k) : k \in DOMAIN Text!Encode(c)} : c \in Characters}
    \cup {Text!Encode(c) \o <<b>> : c \in Characters, b \in {97, 128, 240}}

\* build_table counts the invisible bytes in order.
Counted(b) ==
    IF Text!IsVisible(b) THEN b ELSE 256 + Cardinality({c \in 0..(b - 1) : ~Text!IsVisible(c)})

\* The table by its ranges is the table by counting.
ASSUME TableAsCounted == \A b \in Text!Byte : Text!CharOf(b) = Counted(b)

\* char_to_byte undoes the table.
ASSUME TableUndone == \A b \in Text!Byte : Text!ByteOf(Text!CharOf(b)) = b

\* decode_bytes undoes encode_bytes, valid UTF-8 or not.
ASSUME BytesUndone == \A s \in ByteTexts : Text!DecodeBytes(Text!EncodeBytes(s)) = s

\* The values of a text hold its bytes, each once and in order.
ASSUME ValuesTile ==
    \A s \in ByteTexts :
        FlattenSeq([k \in DOMAIN Text!Values(s) |-> Text!Values(s)[k].bytes]) = s
===============================================================================
