------------------------------- MODULE EncodeOne -------------------------------
(***************************************************************************)
(* Tokenizer::encode for one text (src/core/tokenizer.cpp, encode_one):    *)
(* normalizers, pre-tokenizers, the model, the post-processor, the mapping *)
(* of offsets back to the original text, and truncation.                   *)
(*                                                                         *)
(* The model is abstract: BPE::tokenize gives tokens whose offsets tile    *)
(* the pre-token's text (OffsetsTile in HeapMergeProofs), or no tokens when*)
(* merge_word fails.                                                       *)
(***************************************************************************)
EXTENDS PreTokens

CONSTANTS Texts,    \* the original texts, sequences of byte classes
          Configs   \* [normalizers, pretokenizers, post, truncation]

Normalizers == {"Identity", "Strip", "Lowercase", "Uppercase"}
Splits == [type : {"Split"}, behavior : Behaviors, invert : BOOLEAN]
ByteLevels == [type : {"ByteLevel"}, prefix : BOOLEAN, regex : BOOLEAN]

ASSUME TextAssumption == Texts \subseteq Seq(PlainClasses)
ASSUME ConfigAssumption ==
    Configs \subseteq [normalizers : Seq(Normalizers), pretokenizers : Seq(Splits \cup ByteLevels),
                      post : [trim : BOOLEAN, prefix : BOOLEAN],
                      truncation : [max : Int, fromEnd : BOOLEAN]]

VARIABLES original, config,
          ran,      \* how many normalizers, then pre-tokenizers, have run
          ns,       \* the NormalizedString
          pretokens,
          tokens,   \* sequence of [text, first, last]
          stage

vars == <<original, config, ran, ns, pretokens, tokens, stage>>

Init ==
    /\ original \in Texts /\ config \in Configs
    /\ ran = 0
    /\ ns = Fresh(original)
    /\ pretokens = <<>> /\ tokens = <<>>
    /\ stage = "normalize"

Normalized(n) ==
    CASE n = "Strip"     -> Strip(ns)
      [] n = "Lowercase" -> MapBytes(ns, LowerByte)
      [] n = "Uppercase" -> MapBytes(ns, UpperByte)
      [] OTHER           -> ns

\* One normalizer of the sequence.
Normalize ==
    /\ stage = "normalize" /\ ran < Len(config.normalizers)
    /\ ns' = Normalized(config.normalizers[ran + 1])
    /\ ran' = ran + 1
    /\ UNCHANGED <<original, config, pretokens, tokens, stage>>

\* The normalized text is one pre-token.
Normalization ==
    /\ stage = "normalize" /\ ran = Len(config.normalizers)
    /\ pretokens' = <<[text |-> ns.bytes, first |-> 0, last |-> Len(ns.bytes), align |-> <<>>]>>
    /\ ran' = 0 /\ stage' = "pretokenize"
    /\ UNCHANGED <<original, config, ns, tokens>>

\* The ways a pre-tokenizer may cut one pre-token.
Cuts(pt, p) ==
    CASE p.type = "Split" -> {SplitOne(pt, m, p) : m \in FindAll(pt.text)}
      [] p.type = "ByteLevel" ->
           LET text == PrefixedText(pt, p)
           IN IF text = <<>> THEN {<<>>}
              ELSE {ByteLevelOne(pt, m, p) :
                      m \in IF p.regex THEN Covering(text) ELSE {<< <<0, Len(text)>> >>}}

\* One of the results for each element, concatenated.
Extended(heads, tails) == {a \o c : a \in heads, c \in tails}
Concatenations(results) == FoldLeft(Extended, {<<>>}, results)

\* One pre-tokenizer of the sequence.
PreTokenize ==
    /\ stage = "pretokenize" /\ ran < Len(config.pretokenizers)
    /\ pretokens' \in Concatenations([k \in DOMAIN pretokens |->
                                         Cuts(pretokens[k], config.pretokenizers[ran + 1])])
    /\ ran' = ran + 1
    /\ UNCHANGED <<original, config, ns, tokens, stage>>

\* A token of bytes lo..hi-1 of a pre-token, in normalized offsets.
TokenOf(pt, lo, hi) ==
    [text  |-> SubSeq(pt.text, lo + 1, hi),
     first |-> SpanFirst(pt, lo),
     last  |-> SpanLast(pt, lo, hi)]

\* A token may end anywhere but inside a byte-level character.
TokenEnds(text) == {i \in 0..Len(text) : i < Len(text) => text[i + 1].b \notin {"g2", "m2"}}

Tokenizations(pt) ==
    IF pt.text = <<>> THEN {<<>>}
    ELSE {<<>>} \cup {[k \in DOMAIN t |-> TokenOf(pt, t[k][1], t[k][2])] :
                        t \in Tilings(pt.text, TokenEnds(pt.text))}

\* The model tokenizes every pre-token; an error leaves a pre-token out.
Tokenize ==
    /\ stage = "pretokenize" /\ ran = Len(config.pretokenizers)
    /\ tokens' \in Concatenations([k \in DOMAIN pretokens |-> Tokenizations(pretokens[k])])
    /\ ran' = 0 /\ stage' = "process"
    /\ UNCHANGED <<original, config, ns, pretokens>>

\* The characters of a token, as far as trim_token_offsets tells them apart: a
\* byte that continues a character is one more that is not white.
Chars(token) == Pick(token.text, {i \in DOMAIN token.text : token.text[i].b \notin {"g2", "m2"}})
White(token) == [k \in DOMAIN Chars(token) |-> Chars(token)[k].b \in {"space", "g1"}]

RunLength(flags) == Max({n \in 0..Len(flags) : \A k \in 1..n : flags[k]})

\* Mutant: a token of spaces only is trimmed from both sides.
TrimBoth(token, index, prefix) ==
    LET white == White(token)
        front == RunLength(white)
        trailing == RunLength(Reverse(white))
        leading == IF index = 1 /\ prefix /\ front = 1 THEN 0 ELSE front
    IN [token EXCEPT !.first = @ + leading, !.last = @ - trailing]

\* trim_token_offsets: leading and trailing white characters leave the offsets,
\* but not a single space in front of the first token with add_prefix_space.
Trim(token, index, prefix) ==
    LET white == White(token)
        front == RunLength(white)
        trailing == Min({RunLength(Reverse(white)), Len(white) - front})
        leading == IF index = 1 /\ prefix /\ front = 1 THEN 0 ELSE front
        first == Min({token.first + leading, token.last})
    IN [token EXCEPT !.first = first,
                     !.last = IF @ >= first + trailing THEN @ - trailing ELSE first]

Process ==
    /\ stage = "process"
    /\ tokens' = IF config.post.trim
                 THEN [k \in DOMAIN tokens |-> Trim(tokens[k], k, config.post.prefix)]
                 ELSE tokens
    /\ stage' = "align"
    /\ UNCHANGED <<original, config, ran, ns, pretokens>>

Align ==
    /\ stage = "align"
    /\ tokens' = [k \in DOMAIN tokens |->
                    LET o == AlignToOriginal(ns.align, tokens[k].first, tokens[k].last)
                    IN [tokens[k] EXCEPT !.first = o[1], !.last = o[2]]]
    /\ stage' = "truncate"
    /\ UNCHANGED <<original, config, ran, ns, pretokens>>

\* apply_truncation; max = -1 stands for no truncation.
Truncate ==
    /\ stage = "truncate"
    /\ LET max == config.truncation.max
       IN tokens' = IF max < 0 \/ Len(tokens) <= max THEN tokens
                    ELSE IF config.truncation.fromEnd
                         THEN SubSeq(tokens, Len(tokens) - max + 1, Len(tokens))
                         ELSE SubSeq(tokens, 1, max)
    /\ stage' = "done"
    /\ UNCHANGED <<original, config, ran, ns, pretokens>>

Terminating == stage = "done" /\ UNCHANGED vars

Next ==
    \/ Normalize \/ Normalization \/ PreTokenize \/ Tokenize
    \/ Process \/ Align \/ Truncate \/ Terminating

Spec == Init /\ [][Next]_vars

-------------------------------------------------------------------------------
Offset == 0..(2 * Len(original) + 2)
ByteSet == [b : PlainClasses \cup MappedClasses, src : (0..(Len(original) - 1)) \cup {Inserted}]

(***************************************************************************)
(* Types of the pipeline's variables.                                      *)
(***************************************************************************)
TypeOK ==
    /\ Len(ns.align) = Len(ns.bytes)
    /\ \A k \in DOMAIN ns.align : ns.align[k] \in Offset /\ ns.bytes[k] \in ByteSet
    /\ \A k \in DOMAIN pretokens :
          /\ pretokens[k].first \in Offset /\ pretokens[k].last \in Offset
          /\ pretokens[k].align = <<>> \/ Len(pretokens[k].align) = Len(pretokens[k].text)
    /\ \A k \in DOMAIN tokens : tokens[k].first \in Offset /\ tokens[k].last \in Offset
    /\ stage \in {"normalize", "pretokenize", "process", "align", "truncate", "done"}

\* The offsets a text's bytes come from.
Sources(text) == {text[k].src : k \in DOMAIN text} \ {Inserted}

\* Where the pre-tokenizers put a byte: its offset in the normalized text.
NormalOffset(byte) == (CHOOSE k \in DOMAIN ns.bytes : ns.bytes[k].src = byte.src) - 1

WellAligned(pt) ==
    \A i \in DOMAIN pt.text :
       pt.text[i].src # Inserted => SpanFirst(pt, i - 1) = NormalOffset(pt.text[i])

HasInserted(pt) == \E i \in DOMAIN pt.text : pt.text[i].src = Inserted

Inserts(p) == p.type = "ByteLevel" /\ p.prefix

\* What another pre-tokenizer makes of a pre-token with an inserted space is off
\* by one (AlignmentContract); so only the last one may insert spaces.
PrefixLast ==
    \A k \in DOMAIN config.pretokenizers :
       Inserts(config.pretokenizers[k]) => k = Len(config.pretokenizers)

(***************************************************************************)
(* Through any sequence of pre-tokenizers, a pre-token's offsets.first plus*)
(* its alignment is where each of its bytes comes from, unless it begins   *)
(* with the space that add_prefix_space inserts.                           *)
(***************************************************************************)
AlignmentExact ==
    PrefixLast =>
       \A k \in DOMAIN pretokens : ~HasInserted(pretokens[k]) => WellAligned(pretokens[k])

(***************************************************************************)
(* "alignment[i] = the offset in the original segment of the i-th byte of  *)
(* text" (interfaces.h:69): the same of every pre-token.                   *)
(***************************************************************************)
AlignmentContract == \A k \in DOMAIN pretokens : WellAligned(pretokens[k])

(***************************************************************************)
(* A pre-token's own offsets are exactly the bytes it holds, an inserted   *)
(* space left aside.                                                       *)
(***************************************************************************)
SpansExact ==
    PrefixLast =>
       \A k \in DOMAIN pretokens :
          LET at == {NormalOffset(x) : x \in {y \in Range(pretokens[k].text) : y.src # Inserted}}
          IN at # {} => pretokens[k].first = Min(at) /\ pretokens[k].last = Max(at) + 1

\* The offsets of the bytes of a text that are not spaces.
NonSpace(text) ==
    {text[k].src : k \in {i \in DOMAIN text : text[i].b \notin {"space", "g1", "g2"}}} \ {Inserted}

NoPrefix == \A k \in DOMAIN config.pretokenizers : ~Inserts(config.pretokenizers[k])

\* A second ByteLevel spells the bytes of a byte-level character, and tokens
\* may then share a byte of the text.
OneByteLevel ==
    \A j, k \in DOMAIN config.pretokenizers :
       config.pretokenizers[j].type = "ByteLevel" /\ config.pretokenizers[k].type = "ByteLevel" => j = k

(***************************************************************************)
(* Without an inserted space, the offsets of a finished token name exactly *)
(* the bytes of the original text it was made of; with trimming they lie   *)
(* within these and still hold every byte that is not a space.             *)
(***************************************************************************)
Traceable ==
    stage \in {"truncate", "done"} /\ NoPrefix =>
       \A k \in DOMAIN tokens :
          LET all  == Sources(tokens[k].text)
              kept == NonSpace(tokens[k].text)
              span == tokens[k].first..(tokens[k].last - 1)
          IN all # {} =>
               /\ span \subseteq Min(all)..Max(all)
               /\ kept \subseteq span
               /\ ~config.post.trim => span = Min(all)..Max(all)

(***************************************************************************)
(* Without an inserted space, finished tokens come in text order and their *)
(* offsets do not overlap, whatever was trimmed and truncated.             *)
(***************************************************************************)
Ordered ==
    stage = "done" /\ NoPrefix /\ OneByteLevel =>
       \A k \in 1..(Len(tokens) - 1) : tokens[k].last <= tokens[k + 1].first

(***************************************************************************)
(* With an inserted space too, the offsets of a finished token lie in the  *)
(* original text, if that is not empty.                                    *)
(***************************************************************************)
WithinText ==
    stage = "done" /\ original # <<>> =>
       \A k \in DOMAIN tokens :
          tokens[k].first <= tokens[k].last /\ tokens[k].last <= Len(original)

\* A byte of the text, or the first one it was mapped to.
Whole(byte) == byte.src # Inserted /\ byte.b \notin {"g2", "m2"}

Lossless ==
    \A k \in DOMAIN config.pretokenizers :
       config.pretokenizers[k].type = "Split" => config.pretokenizers[k].behavior # "Removed"

(***************************************************************************)
(* Only "Removed" drops text: under every other behaviour, inverted or not,*)
(* the pieces put together are the normalized text again, each byte of it  *)
(* once and in order.                                                      *)
(***************************************************************************)
NothingLost ==
    stage = "process" /\ Lossless /\ OneByteLevel =>
       LET places == {p \in UNION {{k} \X DOMAIN pretokens[k].text : k \in DOMAIN pretokens} :
                         Whole(pretokens[p[1]].text[p[2]])}
           src(p) == pretokens[p[1]].text[p[2]].src
       IN /\ {src(p) : p \in places} = {ns.bytes[i].src : i \in DOMAIN ns.bytes}
          /\ \A p, q \in places :
                p[1] < q[1] \/ (p[1] = q[1] /\ p[2] < q[2]) => src(p) < src(q)

ValidUtf8(text) ==
    \A k \in DOMAIN text :
       LET follows(n) == \A j \in 1..n : k + j \in DOMAIN text /\ text[k + j].b = "cont"
       IN CASE text[k].b = "two"   -> follows(1) /\ (k + 2 \in DOMAIN text => text[k + 2].b # "cont")
            [] text[k].b = "three" -> follows(2) /\ (k + 3 \in DOMAIN text => text[k + 3].b # "cont")
            [] text[k].b = "cont"  -> k > 1 /\ text[k - 1].b \in {"two", "three", "cont"}
            [] OTHER -> TRUE

(***************************************************************************)
(* "This wrapper handles UTF-8 only" (regex_engine.cpp:3): what reaches    *)
(* the regex engine is UTF-8, as the text was.                             *)
(***************************************************************************)
Utf8Kept == stage = "pretokenize" => ValidUtf8(ns.bytes)
===============================================================================
