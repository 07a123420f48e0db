------------------------------- MODULE PreTokens -------------------------------
(***************************************************************************)
(* Text with offsets: NormalizedString (src/core/normalized_string.cpp) and*)
(* the pre-tokenizers Split and ByteLevel (src/pretokenizers/).            *)
(*                                                                         *)
(* A byte is [b, src]: its class, and the offset in the original text it   *)
(* comes from (Inserted if none).  src is what the properties compare the  *)
(* program's offset tables with; no definition that models code reads it.  *)
(* Offsets count from 0, sequences from 1.                                 *)
(***************************************************************************)
EXTENDS Selections, FiniteSetsExt, SequencesExt

Inserted == -1

(***************************************************************************)
(* Byte classes.  "two" and "three" are the first bytes 0xC0-0xDE and      *)
(* 0xE0-0xEF of a UTF-8 sequence, "cont" continues one.  ByteLevel writes  *)
(* a byte that is not printable ASCII as a character of two bytes: g1 g2   *)
(* for a space, m1 m2 for any other.  "space" is 0x20, the one white byte  *)
(* considered; a character of several bytes is not white.                  *)
(***************************************************************************)
PlainClasses == {"space", "upper", "lower", "dash", "two", "three", "cont"}
MappedClasses == {"g1", "g2", "m1", "m2"}

\* No character starts in front of the i-th byte (from 0) of a text.
InsideChar(text, i) == i < Len(text) /\ text[i + 1].b \in {"cont", "g2", "m2"}

Boundaries(text) == {i \in 0..Len(text) : ~InsideChar(text, i)}

-------------------------------------------------------------------------------
(* NormalizedString: [bytes |-> normalized_, align |-> aligned_to_original_] *)

Fresh(text) ==
    [bytes |-> [k \in DOMAIN text |-> [b |-> text[k], src |-> k - 1]],
     align |-> [k \in DOMAIN text |-> k - 1]]

\* Mutant: the alignment table is cut at the wrong end.
DeleteRangeMisaligned(ns, start, end) ==
    IF start > end \/ end > Len(ns.bytes) THEN ns
    ELSE [bytes |-> SubSeq(ns.bytes, 1, start) \o SubSeq(ns.bytes, end + 1, Len(ns.bytes)),
          align |-> SubSeq(ns.align, 1, Len(ns.align) - (end - start))]

\* Mutant: the alignment table is not cut.
DeleteRangeBytesOnly(ns, start, end) ==
    IF start > end \/ end > Len(ns.bytes) THEN ns
    ELSE [ns EXCEPT !.bytes = SubSeq(@, 1, start) \o SubSeq(@, end + 1, Len(@))]

\* replace_range with an empty replacement, the only one in use.
DeleteRange(ns, start, end) ==
    IF start > end \/ end > Len(ns.bytes) THEN ns
    ELSE [bytes |-> SubSeq(ns.bytes, 1, start) \o SubSeq(ns.bytes, end + 1, Len(ns.bytes)),
          align |-> SubSeq(ns.align, 1, start) \o SubSeq(ns.align, end + 1, Len(ns.align))]

\* How many bytes at the front of a text are spaces.
Leading(text) ==
    Max({n \in 0..Len(text) : \A k \in 1..n : text[k].b = "space"})

Strip(ns) ==
    LET start == Leading(ns.bytes)
        end   == Max({start, Len(ns.bytes) - Leading(Reverse(ns.bytes))})
        cut   == DeleteRange(ns, 0, start)
    IN DeleteRange(cut, end - start, Len(cut.bytes))

\* Case mapping byte by byte, without regard to UTF-8: 0xC0-0xDE and 0xE0-0xFE
\* are taken for Latin-1 letters.
LowerByte ==
    [b \in PlainClasses |-> CASE b = "upper" -> "lower" [] b = "two" -> "three" [] OTHER -> b]
UpperByte ==
    [b \in PlainClasses |-> CASE b = "lower" -> "upper" [] b = "three" -> "two" [] OTHER -> b]

MapBytes(ns, map) ==
    [ns EXCEPT !.bytes = [k \in DOMAIN @ |-> [b |-> map[@[k].b], src |-> @[k].src]]]

\* Mutant: an end behind the table is not clamped.
AlignToOriginalUnclamped(align, start, end) ==
    IF align = <<>> THEN <<start, end>>
    ELSE LET s == IF start >= Len(align) THEN Last(align) ELSE align[start + 1]
             e == IF end = 0 \/ end > Len(align) THEN end ELSE align[end] + 1
         IN <<s, Max({s, e})>>

\* align_to_original
AlignToOriginal(align, start, end) ==
    IF align = <<>> THEN <<start, end>>
    ELSE LET s == IF start >= Len(align) THEN Last(align) ELSE align[start + 1]
             e == IF end = 0 \/ end > Len(align) THEN Last(align) + 1 ELSE align[end] + 1
         IN <<s, Max({s, e})>>

-------------------------------------------------------------------------------
(* PreToken: [text, first, last, align]; an empty align is the identity. *)

\* map_parent_byte
MapParent(i, align) ==
    IF align = <<>> THEN i ELSE IF i >= Len(align) THEN Last(align) ELSE align[i + 1]

\* The absolute offsets of bytes lo..hi-1 of a parent's text.
SpanFirst(pt, lo) == pt.first + MapParent(lo, pt.align)

\* Mutant: the end of the last byte is its start.
SpanLastShort(pt, lo, hi) ==
    IF hi > lo THEN Max({SpanFirst(pt, lo), pt.first + MapParent(hi - 1, pt.align)})
    ELSE SpanFirst(pt, lo)

SpanLast(pt, lo, hi) ==
    IF hi > lo THEN Max({SpanFirst(pt, lo), pt.first + MapParent(hi - 1, pt.align) + 1})
    ELSE SpanFirst(pt, lo)

\* The ways to cut a text into non-empty intervals <<lo, hi>>, from left to
\* right, at some of the places given.
Tilings(text, places) ==
    {LET ends == Ascending(cuts)
     IN [k \in 1..(Len(ends) - 1) |-> <<ends[k], ends[k + 1]>>] :
        cuts \in {c \cup {0, Len(text)} : c \in SUBSET (places \cap (1..(Len(text) - 1)))}}

\* What the regex engine may answer: disjoint non-empty matches, left to
\* right, on character boundaries; and matches that leave no gap, as the pattern of
\* ByteLevel does.  That the engine gives up on a text is not followed here: Split
\* keeps what is left of it, and ByteLevel would lose that.
Covering(text) == Tilings(text, Boundaries(text))
FindAll(text) == UNION {{Pick(t, K) : K \in SUBSET DOMAIN t} : t \in Covering(text)}

-------------------------------------------------------------------------------
(* Split *)

Behaviors == {"Removed", "Isolated", "MergedWithPrevious", "MergedWithNext", "Contiguous"}

\* The gap between prev and the next match, or the end, if there is one.
AddGap(segs, prev, next) == IF prev < next THEN Append(segs, <<prev, next, FALSE>>) ELSE segs

AddMatch(acc, m) ==
    [segs |-> Append(AddGap(acc.segs, acc.prev, m[1]), <<m[1], m[2], TRUE>>), prev |-> m[2]]

AddMatches(matches) == FoldLeft(AddMatch, [segs |-> <<>>, prev |-> 0], matches)

\* build_segments: matches and the gaps between them; no match: one gap.
BuildSegments(text, matches) ==
    AddGap(AddMatches(matches).segs, AddMatches(matches).prev, Len(text))

\* Whether a segment is joined to the piece before it, by whether it and the
\* segment before are matches.
Joins(behavior, match, prev, first) ==
    CASE behavior = "Contiguous" -> ~first /\ match = prev
      [] behavior \in {"MergedWithPrevious", "MergedWithNext"} -> match /\ ~prev
      [] OTHER -> FALSE

\* Mutant: a segment with no piece before it to join is lost.
JoinOrLose(out, s) ==
    IF out = <<>> THEN <<>>
    ELSE [out EXCEPT ![Len(out)] = <<Min({@[1], s[1]}), Max({@[2], s[2]})>>]

\* A segment joins the last piece, whichever side of it that piece lies on.
Join(out, s) ==
    IF out = <<>> THEN << <<s[1], s[2]>> >>
    ELSE [out EXCEPT ![Len(out)] = <<Min({@[1], s[1]}), Max({@[2], s[2]})>>]

AddSegment(acc, s, behavior) ==
    [out |-> IF Joins(behavior, s[3], acc.prev, acc.first) THEN Join(acc.out, s)
             ELSE Append(acc.out, <<s[1], s[2]>>),
     prev |-> s[3], first |-> FALSE]

AddSegments(segs, behavior) ==
    FoldLeft(LAMBDA acc, s : AddSegment(acc, s, behavior),
             [out |-> <<>>, prev |-> FALSE, first |-> TRUE], segs)

Pieces(segs, behavior) == AddSegments(segs, behavior).out

ApplyBehavior(segs, behavior) ==
    CASE behavior = "Removed" ->
           Pieces(Pick(segs, {k \in DOMAIN segs : ~segs[k][3]}), behavior)
      [] behavior = "MergedWithNext" -> Reverse(Pieces(Reverse(segs), behavior))
      [] OTHER -> Pieces(segs, behavior)

\* The pre-token for bytes lo..hi-1 of its parent.
SplitPiece(pt, lo, hi) ==
    [text  |-> SubSeq(pt.text, lo + 1, hi),
     first |-> SpanFirst(pt, lo),
     last  |-> SpanLast(pt, lo, hi),
     align |-> IF pt.align = <<>> THEN <<>>
               ELSE [k \in 1..(hi - lo) |-> MapParent(lo + k - 1, pt.align) - MapParent(lo, pt.align)]]

SplitOne(pt, matches, split) ==
    LET found == BuildSegments(pt.text, matches)
        segs  == [k \in DOMAIN found |-> <<found[k][1], found[k][2], found[k][3] # split.invert>>]
        spans == ApplyBehavior(segs, split.behavior)
    IN IF pt.text = <<>> THEN <<pt>>
       ELSE [k \in DOMAIN spans |-> SplitPiece(pt, spans[k][1], spans[k][2])]

-------------------------------------------------------------------------------
(* ByteLevel *)

Mapped(byte) ==
    CASE byte.b = "space" -> <<[byte EXCEPT !.b = "g1"], [byte EXCEPT !.b = "g2"]>>
      [] byte.b \in {"upper", "lower", "dash"} -> <<byte>>
      [] OTHER -> <<[byte EXCEPT !.b = "m1"], [byte EXCEPT !.b = "m2"]>>

MapByte(acc, segment, k) ==
    LET m == Mapped(segment[k])
    IN [text |-> acc.text \o m, align |-> acc.align \o [j \in DOMAIN m |-> k - 1]]

\* map_segment: the mapped bytes, and for each its byte in the segment.
MapSegment(segment) ==
    FoldLeft(LAMBDA acc, k : MapByte(acc, segment, k),
             [text |-> <<>>, align |-> <<>>], [k \in DOMAIN segment |-> k])

\* span_to_original: the inserted space is not part of the parent's text.
Shift(pos, prefixed) == IF prefixed /\ pos > 0 THEN pos - 1 ELSE pos

Prefixed(pt, bl) == bl.prefix /\ (pt.text = <<>> \/ pt.text[1].b # "space")

PrefixedText(pt, bl) ==
    (IF Prefixed(pt, bl) THEN <<[b |-> "space", src |-> Inserted]>> ELSE <<>>) \o pt.text

\* Mutant: the alignment of a piece is not made relative to its own start.
ByteLevelPieceAbsolute(pt, bl, lo, hi) ==
    LET start == Shift(lo, Prefixed(pt, bl))
        end   == Shift(hi, Prefixed(pt, bl))
        m     == MapSegment(SubSeq(PrefixedText(pt, bl), lo + 1, hi))
    IN [text  |-> m.text,
        first |-> SpanFirst(pt, start),
        last  |-> SpanLast(pt, start, end),
        align |-> [k \in DOMAIN m.align |-> MapParent(start + m.align[k], pt.align)]]

\* The pre-token for bytes lo..hi-1 of the text with its inserted space.
ByteLevelPiece(pt, bl, lo, hi) ==
    LET start == Shift(lo, Prefixed(pt, bl))
        end   == Shift(hi, Prefixed(pt, bl))
        m     == MapSegment(SubSeq(PrefixedText(pt, bl), lo + 1, hi))
    IN [text  |-> m.text,
        first |-> SpanFirst(pt, start),
        last  |-> SpanLast(pt, start, end),
        align |-> [k \in DOMAIN m.align |->
                     MapParent(start + m.align[k], pt.align) - MapParent(start, pt.align)]]

ByteLevelOne(pt, spans, bl) ==
    [k \in DOMAIN spans |-> ByteLevelPiece(pt, bl, spans[k][1], spans[k][2])]
===============================================================================
