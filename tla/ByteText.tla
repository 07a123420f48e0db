------------------------------- MODULE ByteText -------------------------------
(***************************************************************************)
(* Texts as bytes: the UTF-8 iteration every other part goes through       *)
(* (src/utils/unicode.h), the table of byte-level characters               *)
(* (src/utils/bytes_char.cpp), and the two conversions of a ByteLevel      *)
(* (byte_level.cpp).  A text is a sequence of bytes, positions count from  *)
(* 1.                                                                      *)
(***************************************************************************)
EXTENDS Integers, Sequences, SequencesExt

Byte == 0..255

\* Unicode scalar values: all code points but the surrogates.
Scalar == {cp \in Nat : cp <= 1114111 /\ ~(55296 <= cp /\ cp <= 57343)}

-------------------------------------------------------------------------------
(* decode_utf8 *)

ReplacementChar == 65533

Replaced == [cp |-> ReplacementChar, len |-> 1]

\* utf8_seq_len
SeqLen(c) ==
    CASE c \div 32 = 6  -> 2
      [] c \div 16 = 14 -> 3
      [] c \div 8 = 30  -> 4
      [] OTHER          -> 1

IsCont(b) == b \div 64 = 2

\* The six bits of a continuation byte.
Low(b) == b % 64

\* The bits of len bytes from p on.
CodeAt(s, p, len) ==
    IF len = 1 THEN s[p]
    ELSE IF len = 2 THEN ((s[p] % 32) * 64) + Low(s[p + 1])
    ELSE IF len = 3 THEN ((s[p] % 16) * 4096) + (Low(s[p + 1]) * 64) + Low(s[p + 2])
    ELSE ((s[p] % 8) * 262144) + (Low(s[p + 1]) * 4096) + (Low(s[p + 2]) * 64) + Low(s[p + 3])

\* cp is a scalar value that takes len bytes and no less.
Shortest(cp, len) ==
    /\ cp \in Scalar
    /\ \/ len = 1 /\ cp <= 127
       \/ len = 2 /\ cp > 127 /\ cp <= 2047
       \/ len = 3 /\ cp > 2047 /\ cp <= 65535
       \/ len = 4 /\ cp > 65535

\* Truncated, broken and over-long sequences and surrogates are replaced, byte by byte.
Decode(s, p) ==
    LET len == SeqLen(s[p])
    IN IF /\ p + len - 1 <= Len(s)
          /\ \A k \in 1..(len - 1) : IsCont(s[p + k])
          /\ Shortest(CodeAt(s, p, len), len)
       THEN [cp |-> CodeAt(s, p, len), len |-> len]
       ELSE Replaced

\* codepoint_iter: one value after the other, each with its bytes.
Values(s) ==
    LET from[p \in 1..(Len(s) + 1)] ==
          IF p > Len(s) THEN <<>>
          ELSE LET v == Decode(s, p)
               IN <<[cp |-> v.cp, bytes |-> SubSeq(s, p, p + v.len - 1)]>> \o from[p + v.len]
    IN from[1]

-------------------------------------------------------------------------------
(* Byte-level characters *)

\* Bytes that are printable characters of Latin-1 stand for themselves.
IsVisible(b) == b \in 33..126 \/ b \in 161..172 \/ b \in 174..255

\* The other 68 are numbered from U+0100 on: 33, then 34, then the last one.
CharOf(b) ==
    CASE IsVisible(b)   -> b
      [] b \in 0..32    -> 256 + b
      [] b \in 127..160 -> 256 + 33 + (b - 127)
      [] b = 173        -> 256 + 67

\* char_to_byte: -1 if the table has no such character.
ByteOf(cp) == IF \E b \in Byte : CharOf(b) = cp THEN CHOOSE b \in Byte : CharOf(b) = cp ELSE -1

Cont(bits) == 128 + Low(bits)

\* append_byte_char's UTF-8 of a code point.
Encode(cp) ==
    IF cp <= 127 THEN <<cp>>
    ELSE IF cp <= 2047 THEN <<192 + (cp \div 64), Cont(cp)>>
    ELSE IF cp <= 65535 THEN <<224 + (cp \div 4096), Cont(cp \div 64), Cont(cp)>>
    ELSE <<240 + (cp \div 262144), Cont(cp \div 4096), Cont(cp \div 64), Cont(cp)>>

EncodeBytes(s) == FlattenSeq([k \in DOMAIN s |-> Encode(CharOf(s[k]))])

\* A character that stands for no byte is left as it is.
DecodeBytes(s) ==
    FlattenSeq([k \in DOMAIN Values(s) |->
                  LET b == ByteOf(Values(s)[k].cp)
                  IN IF b = -1 THEN Values(s)[k].bytes ELSE <<b>>])
===============================================================================
