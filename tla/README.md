# Verification of bpe.cpp

TLA+ models of the tokenizer in this repository, TLC runs that check them on
small instances, and TLAPS proofs about the parts whose correctness is hardest
to test: the merge loop of the encoder with its array heap, the encoding cache,
the conversions of bytes, the regex scan shared by threads, the offsets that the
encoding pipeline carries from stage to stage, the trainer's vocabulary, pair
counts and choice of merges, and the life of a tokenizer through builds,
trainings, saves and loads.

Source paths are relative to the repository root.

## 1. The system

```
text -> Normalizer -> PreTokenizer -> BPE::tokenize -> PostProcessor -> offsets -> Encoding -> decode
                          |              |      ^                                    |
                        Regex         BpeCache  | vocab, merges                truncation, padding
                                                BpeTrainer::train, BpeBuilder::build, files
```

| Component | State | Operations | What makes it correct |
|---|---|---|---|
| `Word`, encoder side (`src/models/bpe/word.h`, `word.cpp`) | `symbols_`, a doubly linked list in a vector; `live_count_`; during `merge_all` a queue of candidates and the candidates dropout skipped | `add`, `extend_last`, `merge_all`, `compact`, `ids`, `offsets` | the result is that of merging the pair of lowest rank, leftmost first, until none is left; offsets tile the word; the loop ends |
| `Word`, trainer side (`word.cpp`) | the same list, never compacted | `merge`: one scan that merges a pair and reports how neighbour counts change | text and list kept; changes complete |
| `d_heap` (`src/utils/dheap.h`) | an array | `push`, `pop`, `top` | `top` is a largest element; nothing is lost or doubled |
| `BpeTrainer` (`trainer.cpp`, `trainer_impl.h`) | the word counts and options; during `train` the vocabulary, words, pair counts with positions, a lazy heap, the merges | `feed`, `train` | counts right, most frequent pair first, stops only when nothing frequent is left, options honoured, consistent vocabulary |
| `BpeCache` (`cache.h`, `cache.cpp`) | per thread: id -> text -> word; per object: the id; two global counters | constructor, destructor, `get`, `put`, `clear` | no answer of an old model, bounded |
| `BPE` (`bpe_impl.cpp`) | vocabulary, merges, options, cache | `tokenize`, `merge_word`, `clear_cache`, `merges_list` | transparent caching; errors give no tokens; tokens tile the word |
| `BpeBuilder` (`builder.cpp`) and model files (`serialization.cpp`) | what was set; `vocab.json`, `merges.txt` | `vocab_and_merges`, `files`, `build` | every model that is built has merges that join its tokens |
| `NormalizedString`, normalizers | normalized text and alignment table | `strip`, `lowercase`, `uppercase`, `replace_range`, `align_to_original` | table as long as the text and right; text stays UTF-8 |
| `Split`, `ByteLevel`, `Sequence` (`src/pretokenizers/`) | a list of pre-tokens with offsets and alignments | `pre_tokenize`, `process`, `decode` | no text lost, offsets and alignments name the bytes |
| `Regex` (`regex_engine.cpp`) | compiled pattern, match data | `find_all` | disjoint matches from left to right; the call returns; calls do not disturb each other |
| `Tokenizer` (`src/core/tokenizer.cpp`) | the parts above, truncation, padding; `tokenizer.json` | `encode`, `encode_batch`, `decode`, `from_file`, `to_file`, `to_vocab_merges` | offsets name the original bytes; rows are rectangular; decoding undoes encoding; a loaded tokenizer is the saved one |
| UTF-8 and byte-level characters (`src/utils/unicode.h`, `bytes_char.cpp`) | none | `decode_utf8`, `codepoint_iter`, `append_byte_char`, `char_to_byte` | progress, no read behind the end, one to one |

Interaction: `Tokenizer` calls the stages one after the other for each text.
`BPE::tokenize` and `Regex::find_all` are const and may run in several threads
on one object; the threads share the model and the pattern, and each has its own
cache entries. `train` writes the model and calls `clear_cache` on the training
thread. `train` itself starts worker threads that own disjoint slices of the
words.

What is hard here: the lazily invalidated queues (encoder and trainer), which
are validated when popped; dropout's re-push; the trainer's incremental counts
and positions; cache entries that outlive ids, clears and instances; match data
shared by threads; empty matches; alignment tables composed through several
stages; builders and files that are left half-used. `PROJECT.json` lists each
hazard at its line with the properties that watch it.

## 2. The modules

| Module | Models | State and actions against the code |
|---|---|---|
| `BpeReference` | the abstract encoder | `seg`: start index -> token id. `MergePair` merges the least pair in the order (rank, position), or any pair under dropout; `Finish` |
| `WordMerge` | `Word::merge_all` over a set of candidates | `sym` is `symbols_`, `live` is `live_count_`, `heap` and `skipped` the locals, `out` the list after `compact`. One action per way through the loop: `PopStale` (the three lazy checks), `PopDropped`, `PopMerge` (the merge, its two pushes, the re-push), `Seed` (the first scan), `EmptyWord`, `Compact`; what each does to one candidate is an operator (`DropStale`, `SetAside`, `Apply`, `Finish`) that `HeapMerge` uses with the top of the array |
| `DHeap` | `d_heap` | `data` is `data_`; `Push` and `Pop` change the array, `Rise`, `Sink` and `Settle` are the iterations of the sifting loops |
| `HeapMerge` | `merge_all` with the array heap: `WordMerge` and `DHeap` composed | each `H` action is the action of `WordMerge` with the heap calls it makes; `todo` holds the pushes of the step still to be made, `aside` is the vector `skipped` |
| `HeapMergeProofs` | theorems about `WordMerge` and `HeapMerge` | section 5 |
| `TrainWord` | `Word::merge` and what the trainer reads from a word | operators: `MergeWord` is the scan, `ChangesAt` the reported changes, `AbsorbRight` the relinking |
| `BpeTrainer` | `feed` and `train` | one action per phase (`StartTrain`, `TokenizeWords`, `CountPairs`, `WriteBack`) and per way through the merge loop (`RefreshStale`, `MergeTop`, `StopLoop`) |
| `BpeTrainerProofs` | theorems about `BpeTrainer` | section 5 |
| `BpeCache` | the cache and its callers | `storage` is the thread-local map, `id` is `id_`, `ctorNext` and `clearNext` are the two `next_id`; `Construct`, `BuildRejected`, `Destroy`, `TokenizeHit`, `TokenizeMiss`, `ClearCache`, `Train` |
| `BpeCacheHistory` | the cache and the threads that have cleared | `clearers` is a history variable; the actions are those of `BpeCache` |
| `BpeCacheProofs` | theorems about `BpeCache` and `BpeCacheHistory` | section 5 |
| `Selections` | elements of a sequence at a set of places | `NthLeast`, `Pick`; what a loop keeps that skips the rest |
| `PreTokens` | `NormalizedString`, `Split`, `ByteLevel` | operators over texts whose bytes carry the offset they come from; a loop is a fold over a named step (`AddMatch`, `AddSegment`, `MapByte`) |
| `EncodeOne` | `Tokenizer::Impl::encode_one` | `ns`, `pretokens`, `tokens` are its locals; one action per stage and per element of a sequence |
| `EncodeOneProofs` | theorems about `EncodeOne` and `PreTokens` | section 5 |
| `RegexScan` | `Regex::find_all` in several threads | `ovector` belongs to a `Regex`, the other locals to a thread; the match, the two reads of the ovector and the return are separate steps |
| `RegexScanProofs` | theorems about `RegexScan` | section 5 |
| `BpeModel` | the model as a function: `convert_merges_to_hashmap`, `merges_list`, `merge_word`, `tokenize` | operators over `[vocab, merges, opts]` |
| `TokenizerFile` | what `to_file` writes and `from_file` reads | `Saved`, `Loaded`, and one operator per section of the file |
| `Tokenizer` | the life of a tokenizer | `builder`, `tok`, the files, and the last answer; the ways through `build` (`BuildHalfRead`, `BuildSkipped`, `BuildRejected`, `Build`), `Train`, `SaveJson`, `LoadJson`, `SavePair`, `SetRowOptions`, `EncodeBatch`, `Decode` |
| `TokenizerProofs` | theorems about `Tokenizer` | section 5 |
| `ByteText` | UTF-8 and byte-level characters on actual bytes | operators with the source's names or near them |
| `ByteTextProofs` | theorems about `ByteText` | section 5 |
| `SequenceLemmas` | facts about least numbers, sequences without repetition, folds and divisions that the proofs share | |
| `MCWordMerge`, `MCBpeTrainer`, `MCBpeCache`, `MCEncodeOne`, `MCRegexScan`, `MCTokenizer` | values for TLC | |

How they fit together: `HeapMerge` instantiates `DHeap` and extends `WordMerge`,
which instantiates `BpeReference` with `seg <- [i \in Live |-> sym[i].c]`. The
chain `HSpec => Spec => Ref!RefSpec` is proved, and the run of `HeapMerge` checks
it. `Tokenizer` extends `TokenizerFile`, which
extends `BpeModel`; `BpeModel` takes `merge_all` by what `BpeReference` says, and
the cache by what `BpeCache` promises. `EncodeOne` uses the encoder only through
its offsets: tokens that tile the pre-token, which is what the theorem
`OffsetsTile` says, or none after an error; and the regex engine through what
`RegexScan`'s `ScanExact` and `OnBoundaries` say of a call on its own, with a
pattern that never matches the empty string inside a text.

### What is abstracted

* `WordMerge`: the heap is a set; `HeapMerge` puts the array in its place and
  `QueueExact` shows that no candidate is ever queued twice, so a set loses
  nothing (`HeapImplementsQueue`). A merge table concatenates tokens (`IsMergeTable`: widths add up),
  which the trainer and `convert_merges_to_hashmap` guarantee; symbols have at
  least one byte, and lengths do not overflow 32 bits. `Word`s that share no
  symbol are independent, so one word is modelled. `extend_last` shows in the
  words as a symbol longer than a character. A symbol's length is not tied to its
  id, so unknown tokens of any length are covered. The byte offset `at` is only
  read by properties.
* `HeapMerge`: `merge_all` pushes at once everything a step pushes, in the code's
  order; the re-push after a merge happens only when candidates were put aside,
  which for an empty vector is the same. The run uses arity 2, which gives the
  deepest trees with few elements.
* `BpeTrainer`: token strings are `[pre, text, suf]`, so prefix stripping and
  string equality are exact and characters are numbers. `HalfInt32` stands for
  2^31: `ToInt32` and `ToUint64` narrow as the casts do. From 2^31 fed symbols on
  a 32-bit count or delta may be wrong, so the properties about counts are stated
  for fewer (`CountsFit`); the runs stay below, and the proofs show that then no
  cast changes a count. The sum of 32-bit deltas itself is not wrapped. The trainer's
  threads only write their own slice and their own map; their joint effect is
  one step, for every hash order of the positions. `Word::merge` looks at a
  position again after merging there; that can never match, because the new
  token is longer than the first part of the pair. The progress callback is left
  out. `texts` is a history variable. What is assumed of the inputs is named:
  characters are numbers with a length in bytes (`CharAssumption`), options have
  the types of `BpeTrainerOptions` and finitely many forced characters
  (`OptionAssumption`), a model may have either affix (`ModelAssumption`), and
  `feed` adds finitely many words of these characters (`BatchAssumption`). Words
  are well-formed UTF-8: of a malformed character the alphabet gets U+FFFD
  (trainer.cpp:98) and the word its raw bytes (trainer.cpp:146), so that it is
  dropped, which is not followed. `max_token_length` is below 2^32, so that its
  cast (trainer.cpp:315) changes nothing.
* `BpeCache`: a word is represented by the model it was computed with. The
  class has no lock; the caller keeps `train` and `clear_cache` apart from other
  calls on the instance, so each call is one step. `MaxIds` and `MaxContents`
  bound the counters. There is at least one capacity an instance may be given.
* `PreTokens`, `EncodeOne`: bytes are classes. The regex engine may answer any
  disjoint non-empty matches on character boundaries; the GPT-2 pattern's
  alternatives cover every character, so with it the matches leave no gap. That
  PCRE2 gives up with an error is not followed there: `ByteLevel` then loses the
  rest of the text (byte_level.cpp:136), while `Split` keeps it as one segment,
  which is among the answers tried. Nor is UTF-8 that case mapping has broken.
  `replace_range` is only called with an empty replacement and `append` is not
  called at all. A token's value is taken to be the text it covers, which
  trimming looks at. Tokens do not end inside a byte-level character
  (`byte_fallback` is not combined with `ByteLevel`). The only white-space
  character is 0x20. Masks and type ids have the tokens' length by construction
  and are left out.
* `RegexScan`: a pattern is, for each offset, the length of the match there, if
  any; PCRE2 finds the first offset from `start` on, or gives up with an error. A
  match writes the ovector in one step, and its two ends are read in two, so a
  call may read one end of its own match and one of another's. `MaxCalls` bounds
  the calls of a thread, which the code does not; no property relies on it. There
  is at least one text, as a thread holds one before
  its first call.
* `BpeModel`, `TokenizerFile`, `Tokenizer`: texts and tokens are sequences of
  characters, a text is the sequence of the pieces the pre-tokenizer cuts it into
  (with the space a ByteLevel inserts), and vocabularies map
  tokens to ids one to one, which `vocab_r` presupposes. A character has its UTF-8
  bytes (`Utf8`, at least one: `Utf8Assumption`), and a byte its byte-level character
  (`ByteChar`, one to one as `ByteTextProofs` shows of the table:
  `ByteCharAssumption`). With a ByteLevel in the pre-tokenizer the model is given
  each piece in byte-level characters (`PreTokenized`); spans then count their
  bytes, and the way back to the original text is that of `EncodeOne`. Two
  ByteLevels, one after the other, are not followed. `decode` reads a character as
  the byte it stands for, whether it was written for that byte or not (`CharBytes`). A file is its content, absent, or torn (a write that
  stopped half-way; JSON that was cut off does not parse). Dropout is off, 1, or
  outside 0..1; what lies between is in `WordMerge`. `special_tokens_mask` and
  `type_ids` go with the tokens like `attention_mask`. A normalizer has only its
  kind. What is assumed of the inputs is named: a builder and the files hold
  vocabularies and lists of merges, well formed but with any content
  (`StartAssumption`, `InputAssumption`); a tokenizer may start with a model, which
  is then sound, as the models of this module are (`ModelsStaySound`); a trained
  model is what the theorem `VocabularyConsistent` shows of `BpeTrainer`, with a rank
  for each merge (`TrainedAssumption`); texts are made of known characters whose bytes the table has (`TextAssumption`), and
  lengths and ids of `set_truncation` and `set_padding` are numbers
  (`RowAssumption`). A call that returns an error and changes nothing is not a step.
* `ByteText` has no abstraction but arithmetic in place of shifts and masks.

## 3. The runs

| Run | Bounds | Checks |
|---|---|---|
| `word_merge` | all tables of three merges over two letters that a training could write (up to symmetry of the letters, tokens up to 4 letters); all words of 0, 1, 3 and 5 letters and one with an unknown three-byte symbol; without and with dropout; binary heap | types, list, tiling, coverage of pairs by candidates, current ranks, irreducibility, `compact`, an exact queue, a least candidate in front, refinement of the abstract encoder, termination |
| `bpe_trainer` | three batches of words with repeated, overlapping and shared pairs; two feeds, two trainings; seven option sets (duplicate special tokens, trimming, small vocabulary, short tokens, prefix, suffix, forced characters); two workers | types, counts, greedy choice, complete stop, texts of the words, consistent vocabulary, a variant of the loop |
| `cache` | 2 threads, 2 instances, 2 cacheable texts and one of every other kind, capacities 0 and 1, 2 ids per counter, 3 models | no stale entry under an id given out once; none for a thread that does its own clearing with one cache built; transparent until the first clear; capacity and admission |
| `encode` | texts of up to 4 bytes with spaces, cases, delimiters and multi-byte characters; 18 configurations; every match and every tokenization | alignment tables, spans, offsets of finished tokens, order, containment, no text lost |
| `regex` | two threads, one pattern, one call each, which may overlap or not; an empty text and a text of a one-byte and a two-byte character, with 24 ways for the pattern to match in it, empty matches among them | a call that met no other is exact, and leaves character boundaries only after an empty match; every call returns once its rivals are done |
| `tokenizer` | 2 vocabularies (with overlapping, repeated and unusable merges, with prefix and suffix, with byte tokens), 14 option sets, old and missing files, 7 sets of components, 5 row options, 3 batches, with and without a ByteLevel, and with a character (U+00E9) that the decoder takes for a byte; two trained models | types, sound models, reloading, faithful rows, rectangular batches, decoding to the same bytes |

Why these bounds are enough to be interesting: five letters give overlaps
(`aaaaa`), three-merge tables nest merges and give two rules for one token
(`aa`+`a`, `a`+`aa`), which is where stale candidates look valid; with up to
four candidates the heap has three levels, and dropout's re-push comes on top.
The trainer's words make one merge raise, lower and cancel counts in different
words and in different slices, and its second training starts from sticky
options and a trained model. Two ids per counter are the least with which the
counters meet. In `encode` every behaviour sees leading, trailing, adjacent and
missing matches, and alignments are composed twice in both orders of `Split` and
`ByteLevel`. In `regex` a scan makes empty matches at and inside characters and
at the end of the text, and its last match may be read over by the other
thread. In `tokenizer` a builder is used up to its exhaustion, and the
constraint `OneStory` keeps the two file formats and the row options apart, as
they do not read each other's state.

`MCEncodeOne` also has TLC evaluate, when the run `encode` starts, four
assumptions about `ByteText`: the table is the one that counts up, `char_to_byte`
undoes it for all 256 bytes, `decode_bytes` undoes `encode_bytes`, and the values
of a text hold all of its bytes, for all texts of up to two boundary bytes and
for characters at the borders of each length.

Deadlock is checked in the runs of `WordMerge`, `BpeTrainer` and `EncodeOne`,
whose modules have an explicit terminating step, and in `tokenizer`. In the cache
and regex runs the callers may stop calling, so the deadlock check is off.

### Runs that end in a violation

Each shows a statement of the source that the code does not keep.

| Run | Statement | What happens |
|---|---|---|
| `trainer_positions` | trainer.cpp:356, rescanning positions "guarantees correctness" | only the words of the merged pair are rescanned; with 12, 123 and 23, merging (1,2) clears the positions of (2,3), which 123 loses, and 23 is forgotten for the merge of (2,3) |
| `trainer_frequency` | trainer.h:28, `min_frequency` is a lower bound | the merged pair's own count is not lowered; in an overlap (111) it is refreshed to a value that is too high and merged again |
| `cache_old_entries` | cache.h:6, a clear makes other threads' entries invalid | the constructor's and `clear`'s counters give the same numbers |
| `regex_shared` | regex_engine.cpp:7, match data is thread_local | there is one per compiled pattern; a call reads the match of another thread's call |
| `encode_prefix` | interfaces.h:69, the meaning of `alignment` | the inserted space is counted as a byte of the parent |
| `encode_utf8` | regex_engine.cpp:3, UTF-8 only | case mapping of single bytes changes the first bytes of UTF-8 characters |

Other divergences were met while reading and have no run:

* The rescan of positions compares adjacent slots of the vector and skips
  absorbed symbols (trainer.cpp:364), so it also misses a pair that has an
  absorbed symbol between its parts, in the words it does visit.
* ids of instances are not unique (cache.h:5) for the same reason as in
  `cache_old_entries`; the cache does not evict, although README.md:11 calls it
  LRU (cache.cpp:31 says so itself).
* Forced initial characters are trimmed when there are more of them than
  `limit_alphabet` (trainer.cpp:80).
* `max_token_length` (trainer.h:35) limits what words are merged to; a longer
  token still gets an id and a merge (trainer.cpp:293). `WordsKeepText` states
  the part that holds.
* A merge read from a file does not strip the continuing prefix
  (serialization.cpp:76 leaves that to `build`, which does not do it), so models
  trained with a prefix lose merges when they are loaded. `ReloadEncodesSame`
  excludes such models.
* With a fixed padding length rows that are longer stay longer (tokenizer.cpp:286,
  against the equal length tokenizer.h:62 describes). `BatchRectangular` says how
  far this goes: such a row has no padding, and there is none after truncation to
  that length.
* The decoder is a ByteLevel one by default (tokenizer.cpp:514), also if no
  ByteLevel wrote the text, and takes a character such as U+00E9 for the byte E9.
  `DecodeExact` asks, without a ByteLevel, for characters it leaves alone.
* `decode` skips tokens by their brackets, so byte tokens such as `<0x41>` and
  text tokens in brackets are skipped as special ones; with the ByteLevel decoder
  a byte token that is not skipped is spelled out.
* `to_file` does not look at the result of its write, writes every normalizer as
  Identity, and leaves out what is not ByteLevel or Split in a sequence; a
  sequence with nothing left is read as a default ByteLevel.
* After `build` a builder holds an empty vocabulary; a second `build` gives an
  empty model, or fails because every merge is skipped.

## 4. Fairness and termination

`HeapMerge` assumes `WF_allVars(HNext)`: `merge_all` is a loop of one thread and
takes its next step whenever it has one. Nothing is assumed of dropout's random
choices; even if every candidate is skipped each time, the loop ends, because
skipped candidates return only after a merge and merges are bounded by the
number of symbols. `Termination` thus covers the sifting loops too.

`RegexScan` assumes `WF_vars(Step(t))` for each thread: a thread inside
`find_all` waits for nobody, so the scheduler gets it on. Beginning another call
is not fair. `CallsReturn` says that a call returns once no other call runs on its
`Regex`, whatever the rivals' matches have left it with. That is all the code
gives: a rival that calls `find_all` again and again can write its own match between
the match and the two reads of a call, each time, and so set `start` back for ever.

`BpeTrainer` states termination without fairness: `LoopDecreases` is a
lexicographic variant (live symbols, heap size, stale entries), which section 5
proves, and the run has no deadlock, so a training that keeps taking steps returns.

`BpeCache`, `EncodeOne` and `Tokenizer` have no liveness property: a call is one
step, or a fixed number of steps.

## 5. What is proved

Every theorem holds for all values of the constants that satisfy the named
assumptions of its module; what TLC says of the same property is limited to the
run's instance.

`HeapMergeProofs`, first part, for any ids, widths, merge tables, words and dropout:

* `TypeCorrect`, `ListWellFormed`, `OffsetsTile`, `PairsCovered`,
  `RanksCurrent`, `EndsIrreducible`, `ImplementsReference`, `CountsAndCompacts`.
* The inductive invariant is `IInv`: types, `Linked`, `Tiled`, `Covered`, what
  each phase starts from (`Phases`), and `CandidatesTrue`: a candidate whose
  position still has a right neighbour either stands for the pair there, or has
  been overtaken, which means that the pair now there covers more text than the
  candidate's token. The text under a position only grows, so an overtaken
  candidate can not become valid again. This is what makes comparing ids enough,
  and `RanksCurrent` follows from it.
* `ImplementsReference` maps `PopMerge` to `MergePair`, `EmptyWord` and
  `Compact` to `Finish`, and every other step to a stutter. That the popped pair
  is the best one needs `Covered` (no better pair without a candidate) and
  `CandidatesTrue` (no stale candidate in front).
* `CountsAndCompacts` (`Compacted`) adds `Counted` to the invariant: `live_count_`
  is the number of live symbols after every merge, and the compacted list is the
  live symbols in order, with each link pointing to the neighbour's new place. It
  needs the order number of a symbol among the live ones (`Nth`), and that the
  next link leads from one order number to the one after it.

`HeapMergeProofs`, second part, for any arity from 2 on, the loop with the array:

* `HeapImplementsQueue` (`HSpec => Spec`): whatever the array holds, the loop with
  the heap takes the steps of the loop with the set. So it has all properties
  above (`LoopCorrect`) and implements the abstract encoder
  (`LoopImplementsReference`). `QueueStaysExact` and `TopStaysLeast` are the two
  properties of the queue itself.
* The invariant `HInv` adds to `IInv`: each candidate is in the array or still to
  be pushed, and once (`HeldOnce`); what dropout has put aside is valid, in order,
  and before everything queued (`AsideOrdered`), so that pushing it back queues
  nothing twice; and the array is a heap but for the element that is being sifted
  (`HeapButOne`). That the order is a strict weak one is a lemma, and that the
  root is then a least element is shown along the parents, by the least index that
  would be smaller.

`BpeCacheProofs`, for any threads, instances, texts, capacities and bounds:

* `CacheTypeCorrect`, `UniqueIdsAreCurrent`, `TransparentBeforeClears`: the
  invariant `CInv` says that ids in use were given out, that nothing is stored
  under an id not given out yet, that an id given out once has one owner, and that
  its entries are current. The condition "given out once" is needed:
  `cache_old_entries` shows what happens without it.
* `MapsStayBounded` (`Bounded`): the maps of all ids are bounded, the ones that
  no instance uses any more included (`BInv`); a step to an id drawn again meets
  such a map.
* `OwnClearsSuffice` (`OwnClearsCurrent`): with one cache ever built and one
  thread that clears, that thread is never answered from an old model. `OwnInv`
  adds that the cache has the first id or the last one that `clear` drew.

`BpeTrainerProofs`, for any characters, options, models and fed words:

* `VocabularyConsistent` (`VocabConsistent`): what `train` writes into the model
  has no token string under two ids, and each merge's id is the token its parts
  spell. An id is looked up before it is given out in four places (special tokens,
  the alphabet, composite characters, merged tokens), and a merge may spell a token
  that exists.
* `TypeCorrect` (`TypeOK`): words, pair counts, heap entries and merges only name
  ids of the vocabulary and positions of words, at every point of a training. This
  is what the vector accesses by id and by position in `merge_loop` rely on.
* The invariant `IInv` needs both at once. That a merge keeps spelling its token
  holds because the vocabulary only grows behind the ids there are (`Extends`,
  `AppendMerge`) and a popped pair is one of them, thus the heap must be typed;
  the heap comes from the counts, the counts from what `Word::merge` reports
  (`MergeWordTyped`), and a word's symbols from the tokens added so far
  (`TokenizeAllTyped`). `PhaseInv` says what is still empty in each phase.
* The slices of the positions stay inside them for any number of workers
  (`SlicesTyped`), and sums of changes over words and slices are integers
  (`SumInt`).
* `TrainerCountsExact` (`CountsExact`): the counts that a merge adjusts by deltas
  are what the words contain, for every pair that was not merged. The changes one
  `Word::merge` reports account for every occurrence that comes or goes, also where
  matches touch (`MergeWordAccounts`); only the merged pair's own count stays. The
  sums over words, positions and slices are exchanged by `SumParts`. A word
  that lost its position (`trainer_positions`) is not merged, so its occurrences
  stay, and stay counted.
* `TrainerGreedy` (`GreedyChoice`) and `TrainerStopsComplete` (`StopsComplete`): the
  heap is only refreshed when an entry is popped, but a pair whose count a merge
  changed gets a new entry at once (`HeapInv`). So each pair that was not merged
  and still occurs has an entry with its true count, and the top entry is not
  below it.
* `TrainerKeepsText` (`WordsKeepText`): a live symbol spells the characters from its
  place to the next symbol's (`Covers`), so the symbols followed along the list
  spell the whole word (`CoversSpelled`). That needs the list to be linked both
  ways and every token to have at least one character (`Voiced`).
* `TrainerLoopEnds` (`LoopDecreases`): a refresh pops a stale entry and pushes one
  that is not (`RefreshStaleDecreases`); a merge takes live symbols away, or it
  matches nowhere, then no pair is affected and its entry is all that leaves the
  heap (`MergeTopDecreases`). The heap is a bag: `WeightPopped` and `WeightPushed`
  say what one entry more or less does to the number of entries of a kind. Its
  entries are finitely many (`HeapStaysFinite`), as they name pairs of ids.
* The invariant is `TInv`: `IInv`, then `ListInv` (lists linked both ways),
  `CountInv`, `HeapInv` and `StopInv`, together `CInv`, then `TextInv`.

`EncodeOneProofs`, for any texts, any sequences of normalizers and pre-tokenizers,
any post-processor and truncation (`TextAssumption`, `ConfigAssumption`), whatever
the regex engine matches and the model makes of a pre-token:

* `EncodeTypeOK` (`TypeOK`) and `EncodeWithinText` (`WithinText`) need `Shape`: what
  the normalizers leave is one stretch of the original text, so its alignment
  table counts up without a gap (`Contiguous`); each pre-token has as many entries
  in its table as bytes, and its offsets, its table and those of the tokens lie in
  the normalized text. A cut keeps that (`CutBounded`), because the pieces are
  non-empty intervals of the parent and `map_parent_byte` is bounded by the
  parent's own span.
* `EncodeAlignment` (`AlignmentExact`) and `EncodeSpans` (`SpansExact`) need
  `Placement`: the bytes of a pre-token come from places that go up by at most one
  (`Steps`), begin at `offsets.first`, end at `offsets.second`, and each is where
  the table says (`Placed`). A piece inherits this from the bytes of its span
  (`OriginPlaced`). A space that was inserted breaks it for the piece it is in
  (`Opened`), and further cuts of that piece would spread the error, which is why
  both properties ask that only the last pre-tokenizer inserts a space
  (`PrefixLast`).
* `EncodeTraceable` (`Traceable`) needs `Tracing`: the offsets of a token lie within
  the sources of its bytes and hold those that are not spaces (`Inside`). Trimming
  counts characters and subtracts bytes; that is right because a white character is
  a byte of its own and shares its source with no other character (`WhiteAlone`).
  Two ByteLevels in a row spell one byte with several characters, and then it is
  `Clean` that keeps these apart from white ones.
* `EncodeNothingLost` (`NothingLost`) and `EncodeOrdered` (`Ordered`) need `Order`: the
  sources of the bytes go up through a pre-token and from each pre-token to the
  next (`Rising`), and with no delimiter removed they are all of the text. With
  two ByteLevels two pieces may hold parts of one byte; both properties ask for one
  at most (`OneByteLevel`).
* The pieces of `apply_behavior` are intervals without gaps (`Forward`), also when
  the loop runs from right to left and joins to the wrong side (`PiecesBackward`),
  and without the delimiters an ascending selection of such (`PiecesRemoved`).

`RegexScanProofs`, for any patterns, texts and threads:

* `TypeCorrect`; `ScansExactly`: a call that met no other call on its `Regex`
  returns exactly the matches from left to right, none missed; and
  `StaysOnBoundaries`: its spans are whole characters, but for what the step of one
  byte after an empty match brings about. A span begins inside a character only if
  the search from that character found the empty string, or the span before ended
  in it. The invariant `SInv` says this of the call so far: what
  lies before `start` has been scanned completely, and between the match and its
  two reads the match data is the call's own, which `Exclusive` gives.

`TokenizerProofs`, for any vocabularies, merge lists, options, components, texts
and trained models:

* `ModelsStaySound` (`SoundModels`): after any sequence of builds, trainings, saves
  and loads, each merge of the model joins two tokens of the vocabulary into a
  third, and no two merges have the same rank. Repeated and unusable entries of
  the list, and lists that come out of a file, are where this could go wrong.
* `TypeCorrect` (`TypeOK`), which covers the answers too: tokens and offsets of
  all rows, with truncation and padding.
* `BatchesRectangular` (`BatchRectangular`): rows padded to the longest are equally
  long; under a fixed length none is shorter, and one that is longer is so for its
  own tokens, and not after truncation to that length.
* `ReloadKeepsEncoding` (`ReloadEncodesSame`): a model that was written to
  `tokenizer.json` and read again encodes every text alike, unless it was trained
  with a prefix. The ranks that come back are others (the file has the merges in
  order, without gaps), but `merge_all` only compares them, so each step finds the
  same pair.
* `DecodeUndoesEncoding` (`DecodeExact`): `decode` gives back the bytes of a text whose
  pre-tokens are made of characters in the vocabulary of a model without affixes,
  with special tokens skipped or not. There are two halves. What the tokens of a
  row spell is the pre-tokens (`DecodeSpells`): `merge_word` starts with symbols
  that spell the word (`ExpandSpells`), a merge leaves that alone because the merged
  token is its two parts put together (`JoinedSpells`, from `SoundModels`, for any
  order of the merges), so do `merge_all`, a whole word that `ignore_merges` takes
  (`TokenizeSpells`) and the pre-tokens of a text one after the other
  (`TokensOfSpells`); `SpeltOwn` shows that of a padded row `decode` keeps the
  tokens of the text and nothing else. And the pre-tokens, read as bytes, are the
  bytes of the text (`TextBack`): a ByteLevel wrote each byte as the one character
  that is read back as that byte (`MappedBack`), and reading goes character by
  character, so it does not matter where tokens end (`SpreadFlat`). Without a
  ByteLevel that holds only for characters that stand for no byte, or for the one
  they consist of, which `Spells` asks for. It needs `NoneAssumption`: an id that is
  not set is none.
* The invariant `TInv` says that the current model is sound, that a complete
  `tokenizer.json` holds what `to_file` writes of the model it was written from,
  which was sound, and that the last answer is the one of the current tokenizer.

`ByteTextProofs`, for all bytes and texts:

* `DecodeStaysInside`: a decoded value has one to four bytes, all in the text;
  `DecodesToScalars`: it is a scalar value, whatever the bytes are.
* `TableIsInvertible`: no two bytes share a byte-level character.
* `DecodeUndoesEncode`: a scalar value that was written is read back whole,
  whatever follows. The lemmas compute the leading byte's length, the bits of
  each byte, and the number put together from them, one lemma per length.

Induction. The library's induction theorems take an operator and cannot be used
here. `SequenceLemmas` gets along without them: a non-empty set of naturals has a
least element (`LeastNat`, from well-foundedness as a set), so a property that is
given as a set holds up to n (`InductUpto`). The fold of the community modules
chooses a function that satisfies its recursion; `FoldExists` shows that there is
one, and `FoldWithin` that what each step preserves holds of the result. With
that the merge loop, the expansion of characters, the sums of offsets and the
phases of the trainer are proved about as folds. A lemma cannot have the folded
operator as a parameter, so `BpeTrainerProofs` has one lemma for each fold, with
the same proof (`AddTokensTrace` to `MergeWordTrace`).

### Only model-checked

* Liveness (`Termination`, `CallsReturn`) is outside the prover's reach.
* `RowsFaithful`. It says of every vocabulary that the tokens of a pre-token tile
  it. That a token spells the bytes it covers it says of tokens that are not
  stand-ins for unknown characters (`StandIns`), of models whose affixes are not
  text and whose merges join no stand-in (`CanSpell`).

## 6. What is not modelled, and the plan

Not modelled: the syntax of JSON and of `merges.txt`, factories, PCRE2 itself,
benchmarks, examples and the build. A race of `clear_cache` with `tokenize` on
one instance is a caller's error and left out. `NormalizedString::append` and a
non-empty replacement have no caller in the library, so no reachable state would
come of them. The distribution of dropout's answers (a cached one is repeated)
is not a property of states.

What comes next is a proof of `RowsFaithful`.
