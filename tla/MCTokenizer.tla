------------------------------ MODULE MCTokenizer ------------------------------
(***************************************************************************)
(* Tokenizer for TLC.  The characters of the texts are a, b and c, U+00E9  *)
(* of two bytes, and the three of a special token; its bytes stand as      *)
(* U+00C3 and U+00A9 in the byte table, and U+00E9 itself is there for the *)
(* byte E9.  The merge lists overlap (ab, ba), name a pair twice, and have *)
(* entries that cannot be used; one vocabulary is written with a prefix    *)
(* and a suffix, and one is byte-level.                                    *)
(***************************************************************************)
EXTENDS Tokenizer, TLC

MCUtf8 ==
    [c \in {"a", "b", "c", "<", "u", ">"} |-> <<c>>]
    @@ ("U+00E9" :> <<"C3", "A9">>) @@ ("U+00C3" :> <<"C3", "83">>) @@ ("U+00A9" :> <<"C2", "A9">>)

MCByteChar ==
    [b \in {"a", "b", "c", "<", "u", ">"} |-> b]
    @@ ("C3" :> "U+00C3") @@ ("A9" :> "U+00A9") @@ ("E9" :> "U+00E9")

Numbered(list) == [t \in ToSet(list) |-> (CHOOSE k \in DOMAIN list : list[k] = t) - 1]

Unk == <<"<", "u", ">">>

Plain ==
    [vocab  |-> Numbered(<< <<"a">>, <<"b">>, <<"<">>, <<"u">>, <<">">>, Unk, <<"a", "b">>,
                            <<"b", "a">>, <<"a", "b", "a">>, ByteToken("C3") >>),
     merges |-> << <<<<"b">>, <<"a">>>>, <<<<"a">>, <<"c">>>>, <<<<"a">>, <<"b">>>>,
                   <<<<"a", "b">>, <<"a">>>>, <<<<"a">>, <<"b">>>> >>]

Affixed ==
    [vocab  |-> Numbered(<< <<"a">>, <<"a", "$">>, <<"#", "a">>, <<"#", "a", "$">>, <<"#", "b">>,
                            <<"#", "b", "$">>, <<"a", "#", "b">>, <<"#", "b", "#", "a">>, Unk,
                            <<"a", "#", "b", "$">> >>),
     merges |-> << <<<<"#", "b">>, <<"#", "a">>>>, <<<<"a">>, <<"#", "b">>>>,
                   <<<<"a">>, <<"#", "b", "$">>>> >>]

\* U+00E9 is in this vocabulary for the byte E9.
ByteLevelled ==
    [vocab  |-> Numbered(<< <<"a">>, <<"U+00C3">>, <<"U+00A9">>, <<"U+00C3", "U+00A9">>, <<"U+00E9">> >>),
     merges |-> << <<<<"U+00C3">>, <<"U+00A9">>>> >>]

MCInputs == {Plain, [vocab |-> Plain.vocab, merges |-> << <<<<"a">>, <<"c">>>> >>]}

\* What becomes of an unknown character: fuse_unk counts with an unknown token only.
UnkOptions ==
    {[NoOptions EXCEPT !.unk = u, !.fallback = f] : u \in {None, Unk, <<"?">>}, f \in BOOLEAN}
    \cup {[NoOptions EXCEPT !.unk = Unk, !.fuse = TRUE, !.fallback = f] : f \in BOOLEAN}

WordOptions == {[NoOptions EXCEPT !.ignore = TRUE, !.dropout = d] : d \in {"none", "all", "bad"}}

BuilderOf(in, opts, paths) == [vocab |-> in.vocab, merges |-> in.merges, opts |-> opts, files |-> paths]

Builders ==
    {BuilderOf(Plain, o, FALSE) : o \in UnkOptions \cup WordOptions}
    \cup {BuilderOf(Affixed, [o EXCEPT !.prefix = <<"#">>, !.suffix = <<"$">>], FALSE) :
             o \in {u \in UnkOptions : u.unk = Unk /\ ~u.fallback} \cup {NoOptions}}

\* Built from files; a "bad" dropout is found out when the files have been read.
FileBuilders ==
    {BuilderOf([vocab |-> None, merges |-> None], [NoOptions EXCEPT !.dropout = d], TRUE) :
        d \in {"none", "bad"}}

\* Training without affixes, and with a prefix that the merge strips.
MCTrained ==
    {[vocab  |-> Numbered(<< <<"a">>, <<"b">>, <<"a", "b">>, <<"a", "b", "a", "b">> >>),
      merges |-> (<<0, 1>> :> [rank |-> 0, id |-> 2]) @@ (<<2, 2>> :> [rank |-> 1, id |-> 3]),
      prefix |-> None, suffix |-> None],
     [vocab  |-> Numbered(<< <<"a">>, <<"#", "b">>, <<"a", "b">> >>),
      merges |-> (<<0, 1>> :> [rank |-> 0, id |-> 2]),
      prefix |-> <<"#">>, suffix |-> <<>>]}

Split(pattern) == [type |-> "Split", pattern |-> pattern]
SequenceOf(subs) == [type |-> "Sequence", subs |-> subs]

Pipeline == [Fresh EXCEPT !.decoder = TRUE]

Components ==
    {Pipeline, [Fresh EXCEPT !.model = Foreign, !.post = Foreign, !.normalizer = "Strip"],
     [Pipeline EXCEPT !.pre = ByteLevel(FALSE, TRUE, TRUE), !.post = ByteLevel(TRUE, TRUE, FALSE)],
     [Pipeline EXCEPT !.pre = SequenceOf(<<Split(<<"-">>), None, SequenceOf(<<>>), Split(<<>>)>>)],
     [Pipeline EXCEPT !.pre = SequenceOf(<<Foreign, Split(<<>>)>>)],
     [Pipeline EXCEPT !.pre = Split(<<>>)], [Pipeline EXCEPT !.pre = Foreign]}

NoPad == [trunc |-> None, pad |-> None]
PadTo(max, id, token) == [max |-> max, id |-> id, token |-> token]

\* Truncation on either side; padding to the longest and to a length that some
\* rows exceed, with a special token, an unknown id and the default id 0 (a token
\* of the text).
MCRowOptions ==
    {NoPad,
     [trunc |-> [max |-> 2, fromEnd |-> TRUE], pad |-> PadTo(3, 5, Unk)],
     [trunc |-> [max |-> 1, fromEnd |-> FALSE], pad |-> PadTo(None, 99, Unk)],
     [NoPad EXCEPT !.pad = PadTo(2, 0, <<>>)], [NoPad EXCEPT !.pad = PadTo(None, 5, Unk)]}

NoFiles == [vocab |-> None, merges |-> None]

OldFiles ==
    {NoFiles, [vocab |-> Plain.vocab, merges |-> Plain.merges],
     [vocab |-> Affixed.vocab, merges |-> Affixed.merges]}

\* What build makes of Plain: a + c cannot be used, and a + b counts where it is named last.
PlainModel ==
    [vocab  |-> Plain.vocab,
     merges |-> (<<1, 0>> :> [rank |-> 0, id |-> 7]) @@ (<<6, 0>> :> [rank |-> 3, id |-> 8])
                  @@ (<<0, 1>> :> [rank |-> 4, id |-> 6]),
     opts   |-> NoOptions]

Start(b, t, f) == [builder |-> b, tok |-> t, files |-> f]

MCStarts ==
    {Start(b, Pipeline, NoFiles) : b \in Builders}
    \cup {Start(BuilderOf(ByteLevelled, NoOptions, FALSE), [Pipeline EXCEPT !.pre = p], NoFiles) :
            p \in {None, ByteLevel(FALSE, TRUE, TRUE)}}
    \cup {Start(BuilderOf(Plain, NoOptions, FALSE), t, NoFiles) : t \in Components}
    \cup {Start(b, Pipeline, f) : b \in FileBuilders, f \in OldFiles}
    \cup {Start(b, [Pipeline EXCEPT !.model = PlainModel], NoFiles) : b \in FileBuilders}

MCBatches ==
    {<< << <<"a", "b", "a">> >>, << <<"a">>, <<"b", "a", "b", "a">> >> >>,
     << << <<"c">> >>, << <<"c", "U+00E9", "a", "c">>, <<"a", "U+00E9">>, <<>> >> >>,
     << << <<"a", "U+00E9">>, <<"U+00E9">> >> >>, << << Unk, <<"a", "b">> >> >>}

\* Row options are tried without saved files, the two file formats one at a time,
\* and a torn file is not followed: only another save does anything to it.
OneStory ==
    LET rows == <<tok.trunc, tok.pad>> # <<None, None>>
    IN /\ ~(rows /\ json # None)
       /\ ~(files \notin OldFiles /\ (rows \/ json # None))
       /\ Torn \notin {json, files.vocab}
===============================================================================
