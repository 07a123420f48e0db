---------------------------- MODULE ByteTextProofs ----------------------------
(***************************************************************************)
(* Theorems about UTF-8 iteration and the byte-level characters, for every *)
(* text.  They hold byte by byte and character by character; that the      *)
(* characters of a text follow from its values (an induction) is checked   *)
(* on short texts.                                                         *)
(***************************************************************************)
EXTENDS ByteText, TLAPS

(***************************************************************************)
(* decode_utf8 makes progress and never reads behind the end of the text,  *)
(* whatever the bytes are: a value has one to four of them, all in the     *)
(* text.  So codepoint_iter ends, and its values tile the text.            *)
(***************************************************************************)
THEOREM DecodeStaysInside ==
    ASSUME NEW s \in Seq(Byte), NEW p \in 1..Len(s)
    PROVE  /\ Decode(s, p).len \in 1..4
           /\ p + Decode(s, p).len <= Len(s) + 1
<1>1. SeqLen(s[p]) \in 1..4
  BY DEF SeqLen
<1>2. CASE Decode(s, p) = Replaced
  BY <1>2 DEF Replaced
<1>3. CASE Decode(s, p) # Replaced
  BY <1>1, <1>3 DEF Decode
<1> QED
  BY <1>2, <1>3

(***************************************************************************)
(* What decode_utf8 returns is a Unicode scalar value: neither a surrogate *)
(* nor a code point behind the last one.                                   *)
(***************************************************************************)
THEOREM DecodesToScalars ==
    ASSUME NEW s \in Seq(Byte), NEW p \in 1..Len(s)
    PROVE  Decode(s, p).cp \in Scalar
<1>1. SeqLen(s[p]) \in 1..4
  BY DEF SeqLen
<1>2. CASE Decode(s, p) = Replaced
  <2>1. Decode(s, p).cp = 65533
    BY <1>2 DEF Replaced, ReplacementChar
  <2>2. 65533 \in Scalar
    BY DEF Scalar
  <2> QED
    BY <2>1, <2>2
<1>3. CASE Decode(s, p) # Replaced
  <2>1. Shortest(Decode(s, p).cp, SeqLen(s[p]))
    BY <1>3 DEF Decode
  <2> QED
    BY <2>1 DEF Shortest
<1> QED
  BY <1>2, <1>3

\* A continuation byte carries the six lowest bits.
LEMMA Low6 ==
    \A n \in Nat : Cont(n) \in 128..191 /\ IsCont(Cont(n)) /\ Low(Cont(n)) = n % 64
  BY DEF Low, Cont, IsCont

\* The table by its ranges.
LEMMA CharCases ==
    ASSUME NEW b \in Byte
    PROVE  \/ /\ b \in 33..126 \cup 161..172 \cup 174..255 /\ CharOf(b) = b
           \/ b \in 0..32 /\ CharOf(b) = 256 + b
           \/ b \in 127..160 /\ CharOf(b) = 162 + b
           \/ b = 173 /\ CharOf(b) = 323
<1>1. CASE IsVisible(b)
  BY <1>1 DEF CharOf, IsVisible
<1>2. CASE ~IsVisible(b) /\ b \in 0..32
  BY <1>2 DEF CharOf
<1>3. CASE ~IsVisible(b) /\ b \in 127..160
  BY <1>3 DEF CharOf
<1>4. CASE ~IsVisible(b) /\ b = 173
  BY <1>4 DEF CharOf
<1> QED
  BY <1>1, <1>2, <1>3, <1>4 DEF IsVisible, Byte

(***************************************************************************)
(* A byte that stands for itself or for a character from U+0100 on: no two *)
(* bytes share a character, so char_to_byte undoes the table.              *)
(***************************************************************************)
THEOREM TableIsInvertible ==
    ASSUME NEW b \in Byte
    PROVE  ByteOf(CharOf(b)) = b
<1>1. ASSUME NEW c \in Byte, CharOf(c) = CharOf(b)
      PROVE  c = b
  <2>1. /\ c \in 33..126 \cup 161..172 \cup 174..255 => CharOf(c) = c
        /\ c \in 0..32 => CharOf(c) = 256 + c
        /\ c \in 127..160 => CharOf(c) = 162 + c
        /\ c = 173 => CharOf(c) = 323
    BY CharCases
  <2>2. /\ b \in 33..126 \cup 161..172 \cup 174..255 => CharOf(b) = b
        /\ b \in 0..32 => CharOf(b) = 256 + b
        /\ b \in 127..160 => CharOf(b) = 162 + b
        /\ b = 173 => CharOf(b) = 323
    BY CharCases
  <2> QED
    BY <1>1, <2>1, <2>2 DEF Byte
<1> QED
  BY <1>1 DEF ByteOf

\* What the first byte of a sequence says of its length.
LEMMA LeadBytes ==
    ASSUME NEW c \in Nat
    PROVE  /\ c <= 127 => SeqLen(c) = 1
           /\ c >= 192 /\ c <= 223 => SeqLen(c) = 2
           /\ c >= 224 /\ c <= 239 => SeqLen(c) = 3
           /\ c >= 240 /\ c <= 247 => SeqLen(c) = 4
<1>1. c <= 127 => /\ c \div 32 # 6 /\ c \div 16 # 14 /\ c \div 8 # 30
  OBVIOUS
<1>2. c >= 192 /\ c <= 223 => c \div 32 = 6
  OBVIOUS
<1>3. c >= 224 /\ c <= 239 => c \div 32 # 6 /\ c \div 16 = 14
  OBVIOUS
<1>4. c >= 240 /\ c <= 247 => c \div 32 # 6 /\ c \div 16 # 14 /\ c \div 8 = 30
  OBVIOUS
<1> QED
  BY <1>1, <1>2, <1>3, <1>4 DEF SeqLen

\* The first byte of a sequence holds the highest bits.
LEMMA HighBits ==
    ASSUME NEW h \in Nat
    PROVE  /\ h <= 31 => (192 + h) % 32 = h
           /\ h <= 15 => (224 + h) % 16 = h
           /\ h <= 7 => (240 + h) % 8 = h
  OBVIOUS

\* The first bytes of a text, one to four of them.
LEMMA Front1 ==
    ASSUME NEW a \in Nat, NEW rest \in Seq(Nat)
    PROVE  <<a>> \o rest \in Seq(Nat) /\ Len(<<a>> \o rest) >= 1 /\ (<<a>> \o rest)[1] = a
  OBVIOUS

LEMMA Front2 ==
    ASSUME NEW a \in Nat, NEW b \in Nat, NEW rest \in Seq(Nat)
    PROVE  /\ <<a, b>> \o rest \in Seq(Nat) /\ Len(<<a, b>> \o rest) >= 2
           /\ (<<a, b>> \o rest)[1] = a
           /\ (<<a, b>> \o rest)[2] = b
<1> DEFINE s == <<a, b>> \o rest
<1>1. s \in Seq(Nat)
  OBVIOUS
<1>2. Len(s) >= 2 /\ s[1] = a /\ s[2] = b
  OBVIOUS
<1> QED
  BY <1>1, <1>2

LEMMA Front3 ==
    ASSUME NEW a \in Nat, NEW b \in Nat, NEW d \in Nat, NEW rest \in Seq(Nat)
    PROVE  /\ <<a, b, d>> \o rest \in Seq(Nat) /\ Len(<<a, b, d>> \o rest) >= 3
           /\ (<<a, b, d>> \o rest)[1] = a
           /\ (<<a, b, d>> \o rest)[2] = b
           /\ (<<a, b, d>> \o rest)[3] = d
<1> DEFINE s == <<a, b, d>> \o rest
<1>1. s \in Seq(Nat)
  OBVIOUS
<1>2. Len(s) >= 3 /\ s[1] = a /\ s[2] = b /\ s[3] = d
  OBVIOUS
<1> QED
  BY <1>1, <1>2

LEMMA Front4 ==
    ASSUME NEW a \in Nat, NEW b \in Nat, NEW d \in Nat, NEW e \in Nat, NEW rest \in Seq(Nat)
    PROVE  /\ <<a, b, d, e>> \o rest \in Seq(Nat) /\ Len(<<a, b, d, e>> \o rest) >= 4
           /\ (<<a, b, d, e>> \o rest)[1] = a
           /\ (<<a, b, d, e>> \o rest)[2] = b
           /\ (<<a, b, d, e>> \o rest)[3] = d
           /\ (<<a, b, d, e>> \o rest)[4] = e
<1> DEFINE s == <<a, b, d, e>> \o rest
<1>1. s \in Seq(Nat)
  OBVIOUS
<1>2. Len(s) >= 4 /\ s[1] = a /\ s[2] = b /\ s[3] = d /\ s[4] = e
  OBVIOUS
<1> QED
  BY <1>1, <1>2

LEMMA Nested ==
    ASSUME NEW c \in Nat
    PROVE  /\ c \div 64 \in Nat /\ c \div 4096 \in Nat /\ c \div 262144 \in Nat
           /\ c = (64 * (c \div 64)) + (c % 64)
           /\ c \div 64 = (64 * (c \div 4096)) + ((c \div 64) % 64)
           /\ c \div 4096 = (64 * (c \div 262144)) + ((c \div 4096) % 64)
  BY SMT

LEMMA ContNat ==
    \A n \in Nat : Cont(n) \in Nat
  BY SMT DEF Cont, Low

\* A sequence of one to four bytes at the front of s.
LEMMA Reads1 ==
    ASSUME NEW s \in Seq(Nat), NEW c \in Nat, Len(s) >= 1, Shortest(c, 1), s[1] = c
    PROVE  Decode(s, 1) = [cp |-> c, len |-> 1]
<1>1. c <= 127
  BY DEF Shortest
<1>2. SeqLen(s[1]) = 1 /\ CodeAt(s, 1, 1) = c
  BY <1>1, LeadBytes DEF CodeAt
<1> QED
  BY <1>2 DEF Decode

LEMMA Reads2 ==
    ASSUME NEW s \in Seq(Nat), NEW c \in Nat, NEW h \in Nat,
           h <= 31, c = (64 * h) + (c % 64),
           Len(s) >= 2, Shortest(c, 2), s[1] = 192 + h, s[2] = Cont(c)
    PROVE  Decode(s, 1) = [cp |-> c, len |-> 2]
<1>1. SeqLen(s[1]) = 2
  BY LeadBytes
<1>2. IsCont(s[2]) /\ Low(s[2]) = c % 64
  BY Low6
<1>3. s[1] % 32 = h
  BY HighBits
<1>4. CodeAt(s, 1, 2) = ((s[1] % 32) * 64) + Low(s[2])
  BY DEF CodeAt
<1>5. CodeAt(s, 1, 2) = c
  BY <1>2, <1>3, <1>4
<1>6. \A k \in 1..1 : IsCont(s[1 + k])
  <2>1. \A k \in 1..1 : 1 + k = 2
    OBVIOUS
  <2> QED
    BY <1>2, <2>1
<1> QED
  BY <1>1, <1>5, <1>6 DEF Decode

LEMMA Reads3 ==
    ASSUME NEW s \in Seq(Nat), NEW c \in Nat, NEW h \in Nat, NEW m \in Nat,
           h <= 15, m = (64 * h) + (m % 64), c = (64 * m) + (c % 64),
           Len(s) >= 3, Shortest(c, 3), s[1] = 224 + h, s[2] = Cont(m), s[3] = Cont(c)
    PROVE  Decode(s, 1) = [cp |-> c, len |-> 3]
<1>1. SeqLen(s[1]) = 3
  BY LeadBytes
<1>2. IsCont(s[2]) /\ Low(s[2]) = m % 64
  BY Low6
<1>3. IsCont(s[3]) /\ Low(s[3]) = c % 64
  BY Low6
<1>4. s[1] % 16 = h
  BY HighBits
<1>5. CodeAt(s, 1, 3) = ((s[1] % 16) * 4096) + (Low(s[2]) * 64) + Low(s[3])
  BY SMT DEF CodeAt
<1>6. CodeAt(s, 1, 3) = (h * 4096) + ((m % 64) * 64) + (c % 64)
  BY SMT, <1>2, <1>3, <1>4, <1>5
<1>7. (h * 4096) + ((m % 64) * 64) + (c % 64) = c
  BY SMT
<1>8. \A k \in 1..(SeqLen(s[1]) - 1) : IsCont(s[1 + k])
  <2>1. \A k \in 1..(SeqLen(s[1]) - 1) : 1 + k = 2 \/ 1 + k = 3
    BY <1>1
  <2> QED
    BY <1>2, <1>3, <2>1
<1>9. CodeAt(s, 1, SeqLen(s[1])) = c /\ Shortest(c, SeqLen(s[1]))
  BY <1>1, <1>6, <1>7
<1>10. 1 + SeqLen(s[1]) - 1 <= Len(s)
  BY <1>1
<1> QED
  BY <1>1, <1>8, <1>9, <1>10 DEF Decode

LEMMA Reads4 ==
    ASSUME NEW s \in Seq(Nat), NEW c \in Nat, NEW h \in Nat, NEW m \in Nat, NEW l \in Nat,
           h <= 7, m = (64 * h) + (m % 64), l = (64 * m) + (l % 64), c = (64 * l) + (c % 64),
           Len(s) >= 4, Shortest(c, 4),
           s[1] = 240 + h, s[2] = Cont(m), s[3] = Cont(l), s[4] = Cont(c)
    PROVE  Decode(s, 1) = [cp |-> c, len |-> 4]
<1>1. SeqLen(s[1]) = 4
  BY LeadBytes
<1>2. IsCont(s[2]) /\ Low(s[2]) = m % 64
  BY Low6
<1>3. IsCont(s[3]) /\ Low(s[3]) = l % 64
  BY Low6
<1>4. IsCont(s[4]) /\ Low(s[4]) = c % 64
  BY Low6
<1>5. s[1] % 8 = h
  BY HighBits
<1>6. CodeAt(s, 1, 4) =
        ((s[1] % 8) * 262144) + (Low(s[2]) * 4096) + (Low(s[3]) * 64) + Low(s[4])
  BY SMT DEF CodeAt
<1>7. CodeAt(s, 1, 4) = (h * 262144) + ((m % 64) * 4096) + ((l % 64) * 64) + (c % 64)
  BY SMTT(30), <1>2, <1>3, <1>4, <1>5, <1>6
<1>8. (h * 262144) + ((m % 64) * 4096) + ((l % 64) * 64) + (c % 64) = c
  BY SMT
<1>9. \A k \in 1..(SeqLen(s[1]) - 1) : IsCont(s[1 + k])
  <2>1. \A k \in 1..(SeqLen(s[1]) - 1) : 1 + k = 2 \/ 1 + k = 3 \/ 1 + k = 4
    BY <1>1
  <2> QED
    BY <1>2, <1>3, <1>4, <2>1
<1>10. CodeAt(s, 1, SeqLen(s[1])) = c /\ Shortest(c, SeqLen(s[1]))
  BY <1>1, <1>7, <1>8
<1>11. 1 + SeqLen(s[1]) - 1 <= Len(s)
  BY <1>1
<1> QED
  BY <1>1, <1>9, <1>10, <1>11 DEF Decode

(***************************************************************************)
(* What append_byte_char writes for a scalar value, decode_utf8 reads back *)
(* whole, whatever follows it in the text.                                 *)
(***************************************************************************)
THEOREM DecodeUndoesEncode ==
    ASSUME NEW c \in Scalar, NEW rest \in Seq(Nat)
    PROVE  Decode(Encode(c) \o rest, 1) = [cp |-> c, len |-> Len(Encode(c))]
<1>1. c \in Nat /\ c <= 1114111
  BY SMT DEF Scalar
<1>2. c \in Nat
  BY <1>1
<1>3. CASE c <= 127
  <2>1. Encode(c) = <<c>> /\ Shortest(c, 1)
    BY SMT, <1>3 DEF Encode, Shortest
  <2>2. Decode(<<c>> \o rest, 1) = [cp |-> c, len |-> 1]
    BY Zenon, <1>2, <2>1, Front1, Reads1
  <2>3. Len(<<c>>) = 1
    OBVIOUS
  <2> QED
    BY Zenon, <2>1, <2>2, <2>3
<1>4. CASE c > 127 /\ c <= 2047
  <2>1. PICK h \in Nat : h = c \div 64
    BY <1>1, Nested
  <2>2. Encode(c) = <<192 + h, Cont(c)>> /\ Shortest(c, 2)
    BY SMT, <1>1, <1>4, <2>1 DEF Encode, Shortest
  <2>3. h <= 31 /\ c = (64 * h) + (c % 64)
    BY SMT, <1>1, <1>4, <2>1
  <2>4. PICK a, b : a = 192 + h /\ b = Cont(c)
    OBVIOUS
  <2>5. Encode(c) = <<a, b>>
    BY Zenon, <2>2, <2>4
  <2>6. a \in Nat
    BY SMT, <2>4
  <2>7. b \in Nat
    BY Zenon, <1>2, <2>4, ContNat
  <2> DEFINE s == <<a, b>> \o rest
  <2>8. /\ s \in Seq(Nat) /\ Len(s) >= 2
        /\ s[1] = a /\ s[2] = b
    BY SMT, <2>6, <2>7, Front2
  <2> HIDE DEF s
  <2>9. /\ s \in Seq(Nat) /\ Len(s) >= 2
        /\ s[1] = 192 + h /\ s[2] = Cont(c)
    BY Zenon, <2>4, <2>8
  <2>10. Decode(s, 1) = [cp |-> c, len |-> 2]
    BY ZenonT(60), <1>2, <2>2, <2>3, <2>9, Reads2
  <2>11. Len(<<a, b>>) = 2
    OBVIOUS
  <2> QED
    BY Zenon, <2>5, <2>10, <2>11 DEF s
<1>5. CASE c > 2047 /\ c <= 65535
  <2>1. PICK h \in Nat, m \in Nat : h = c \div 4096 /\ m = c \div 64
    BY SMT, <1>1, Nested
  <2>2. Encode(c) = <<224 + h, Cont(m), Cont(c)>> /\ Shortest(c, 3)
    BY SMT, <1>1, <1>5, <2>1 DEF Encode, Shortest
  <2>3. h <= 15 /\ m = (64 * h) + (m % 64) /\ c = (64 * m) + (c % 64)
    BY SMT, <1>1, <1>5, <2>1
  <2>4. PICK a, b, d : a = 224 + h /\ b = Cont(m) /\ d = Cont(c)
    OBVIOUS
  <2>5. Encode(c) = <<a, b, d>>
    BY Zenon, <2>2, <2>4
  <2>6. a \in Nat
    BY SMT, <2>4
  <2>7. b \in Nat /\ d \in Nat
    BY Zenon, <1>2, <2>4, ContNat
  <2> DEFINE s == <<a, b, d>> \o rest
  <2>8. /\ s \in Seq(Nat) /\ Len(s) >= 3
        /\ s[1] = a /\ s[2] = b /\ s[3] = d
    BY SMT, <2>6, <2>7, Front3
  <2> HIDE DEF s
  <2>9. /\ s \in Seq(Nat) /\ Len(s) >= 3
        /\ s[1] = 224 + h /\ s[2] = Cont(m) /\ s[3] = Cont(c)
    BY Zenon, <2>4, <2>8
  <2>10. Decode(s, 1) = [cp |-> c, len |-> 3]
    BY ZenonT(60), <1>2, <2>2, <2>3, <2>9, Reads3
  <2>11. Len(<<a, b, d>>) = 3
    OBVIOUS
  <2> QED
    BY Zenon, <2>5, <2>10, <2>11 DEF s
<1>6. CASE c > 65535
  <2>1. PICK h \in Nat, m \in Nat, l \in Nat :
          h = c \div 262144 /\ m = c \div 4096 /\ l = c \div 64
    BY SMT, <1>1, Nested
  <2>2. Encode(c) = <<240 + h, Cont(m), Cont(l), Cont(c)>> /\ Shortest(c, 4)
    BY SMT, <1>1, <1>6, <2>1 DEF Encode, Shortest
  <2>3. /\ h <= 7 /\ m = (64 * h) + (m % 64)
        /\ l = (64 * m) + (l % 64) /\ c = (64 * l) + (c % 64)
    BY SMT, <1>1, <2>1
  <2>4. PICK a, b, d, e : a = 240 + h /\ b = Cont(m) /\ d = Cont(l) /\ e = Cont(c)
    OBVIOUS
  <2>5. Encode(c) = <<a, b, d, e>>
    BY Zenon, <2>2, <2>4
  <2>6. a \in Nat
    BY SMT, <2>4
  <2>7. b \in Nat /\ d \in Nat /\ e \in Nat
    BY Zenon, <1>2, <2>4, ContNat
  <2> DEFINE s == <<a, b, d, e>> \o rest
  <2>8. /\ s \in Seq(Nat) /\ Len(s) >= 4
        /\ s[1] = a /\ s[2] = b /\ s[3] = d /\ s[4] = e
    BY SMT, <2>6, <2>7, Front4
  <2> HIDE DEF s
  <2>9. /\ s \in Seq(Nat) /\ Len(s) >= 4
        /\ s[1] = 240 + h /\ s[2] = Cont(m) /\ s[3] = Cont(l) /\ s[4] = Cont(c)
    BY Zenon, <2>4, <2>8
  <2>10. Decode(s, 1) = [cp |-> c, len |-> 4]
    BY ZenonT(60), <1>2, <2>2, <2>3, <2>9, Reads4
  <2>11. Len(<<a, b, d, e>>) = 4
    OBVIOUS
  <2> QED
    BY Zenon, <2>5, <2>10, <2>11 DEF s
<1> QED
  BY SMT, <1>1, <1>3, <1>4, <1>5, <1>6
===============================================================================
