----------------------------- MODULE TokenizerFile -----------------------------
(***************************************************************************)
(* What of a tokenizer is written to tokenizer.json (to_file), and what a  *)
(* tokenizer read from it is (from_file): src/core/tokenizer.cpp; and the  *)
(* two files of a plain BPE model (serialization.cpp).                     *)
(*                                                                         *)
(* A tokenizer is [model, normalizer, pre, post, decoder, trunc, pad].  A  *)
(* file is None if there is none and Torn if writing it stopped half-way:  *)
(* JSON that was cut off does not parse.                                   *)
(***************************************************************************)
EXTENDS BpeModel

CONSTANTS Torn,      \* a file that was not written to its end
          Foreign    \* a component of a class that is not the library's own

NoOptions == [unk |-> None, prefix |-> None, suffix |-> None, fuse |-> FALSE,
              fallback |-> FALSE, ignore |-> FALSE, dropout |-> "none"]

Fresh == [model |-> None, normalizer |-> None, pre |-> None, post |-> None,
          decoder |-> FALSE, trunc |-> None, pad |-> None]

ByteLevel(prefix, trim, regex) ==
    [type |-> "ByteLevel", prefix |-> prefix, trim |-> trim, regex |-> regex]

-------------------------------------------------------------------------------
(* to_file *)

\* Every model is called BPE; one of another class has no vocabulary to write.
SavedModel(model) ==
    CASE model = None -> None
      [] model = Foreign -> [vocab |-> <<>>, list |-> <<>>, opts |-> NoOptions]
      [] OTHER -> [vocab |-> model.vocab, list |-> MergesList(model),
                   opts |-> [model.opts EXCEPT !.dropout = "none"]]

\* serialize_pretokenizer: ByteLevel and Split, nothing else (a Sequence in a
\* Sequence is left out).
SavesElement(p) == p # None /\ p # Foreign /\ p.type \in {"ByteLevel", "Split"}

SavedPre(p) ==
    IF p = None \/ p = Foreign THEN None
    ELSE IF p.type = "Sequence" THEN [p EXCEPT !.subs = SelectSeq(@, SavesElement)]
    ELSE p

Saved(tok) ==
    [model      |-> SavedModel(tok.model),
     normalizer |-> IF tok.normalizer = None THEN None ELSE "Identity",
     pre        |-> SavedPre(tok.pre),
     post       |-> IF tok.post = Foreign THEN None ELSE tok.post,
     decoder    |-> tok.decoder]

-------------------------------------------------------------------------------
(* from_file *)

\* build() on the vocabulary and the merges of the file.
LoadedModel(m) ==
    IF m = None THEN None
    ELSE [vocab |-> m.vocab, merges |-> MergeMap(m.vocab, m.list), opts |-> m.opts]

\* parse_split_pretokenizer gives nothing for an empty pattern.
Parsed(p) == IF p.type = "Split" /\ p.pattern = <<>> THEN None ELSE p

\* A Sequence of which nothing is left becomes a ByteLevel.
LoadedPre(p) ==
    IF p = None THEN None
    ELSE IF p.type # "Sequence" THEN Parsed(p)
    ELSE LET subs == SelectSeq(p.subs, LAMBDA q : Parsed(q) # None)
         IN IF subs = <<>> THEN ByteLevel(TRUE, TRUE, TRUE) ELSE [p EXCEPT !.subs = subs]

\* A post-processor always gets use_regex = true; a missing decoder is ByteLevel.
Loaded(json) ==
    [Fresh EXCEPT !.model      = LoadedModel(json.model),
                  !.normalizer = json.normalizer,
                  !.pre        = LoadedPre(json.pre),
                  !.post       = IF json.post = None THEN None ELSE [json.post EXCEPT !.regex = TRUE],
                  !.decoder    = TRUE]

\* The file is there, parses, and its model can be built.
Loadable(json) ==
    /\ json \notin {None, Torn}
    /\ json.model # None => ~AllSkipped(json.model.vocab, json.model.list)

-------------------------------------------------------------------------------
(* vocab.json and merges.txt *)

\* read_merges_txt takes a line that starts with # for a comment.
ReadMerges(lines) ==
    FoldLeft(LAMBDA read, mr : IF mr[1][1] = "#" THEN read ELSE Append(read, mr), <<>>, lines)
===============================================================================
