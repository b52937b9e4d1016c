# A verification project for scim-googlepinyin

scim-googlepinyin is a pinyin input method for SCIM built on the decoder of the
Android Google Pinyin IME. These TLA+ modules model the parts of it whose
correctness depends on long sequences of calls, so that TLC can explore those
sequences and TLAPS can prove what holds for every size of the tables.

## 1. Inventory

| Component | Source | State | Operations |
|---|---|---|---|
| Input method | `pinyin_ime.cpp` | state IDLE / INPUT / COMPOSING / PREDICT, Chinese or English mode | one handler per key and state, `choose_and_update`, `reset_to_idle_state` |
| Decoding info | `decoding_info.cpp` | surface string, cursor, fixed length, spelling starts, candidate list, page table, pending deletion | `add_spl_char`, `prepare_delete_*`, `choose_decoding_candidate`, `prepare_page`, `calculate_page` |
| Views | `candidate_view.cpp`, `composing_view.cpp` | page number, cursor in the page; edit status | cursor and page movement, drawing |
| Engine glue | `google_imengine.cpp`, `function_keys.cpp`, `pinyin_util.cpp` | configured keys, last key, width toggles | forwards SCIM events |
| Decoder service | `pinyin_decoder_service.cpp`, `share/pinyinime.cpp` | one static `MatrixSearch` | search, delete, choose, predict |
| Matrix search | `share/matrixsearch.cpp` | pinyin string, matrix rows, two pools, fixed lemmas, composing phrase, candidates | `search`, `delsearch`, `choose`, `cancel_last_choice`, `get_predicts` |
| User dictionary | `share/userdict.cpp` | lemma block, index, ids, prediction list, sync queue, caches, dirty level, file | put, update, remove, search, predict, flush, load, reclaim, defragment |
| Synchronisation | `share/sync.cpp` | a second `UserDict` on the same file, last count | begin, put_lemmas, get_lemmas, clear_last_got, finish |
| System dictionary | `share/dicttrie.cpp`, `dictlist.cpp`, `ngram.cpp`, `lpicache.cpp` | two node arrays, buffer of lemma ids, lists of words and Hanzi, mile stones, cache of one-syllable results | `extend_dict`, `get_lpis`, `get_lemma_splids`, `predict`, `reset_milestones` |
| Spelling | `share/spellingtrie.cpp`, `splparser.cpp` | read-only trie of spellings, half and full ids | parse a pinyin string into spelling ids |
| Builder | `share/dictbuilder.cpp`, `spellingtable.cpp` | lemma array, node arrays while they grow | read, sort twice, construct the trie by recursion |
| Utilities, dialog | `utf16*.cpp`, `mystdlib.cpp`, `google_imengine_setup.cpp` | none that lasts | conversions, widgets |

**How they interact.** A key goes from SCIM through the engine to `PinyinIME`,
which changes `DecodingInfo`; that calls the decoder service, which forwards to
the one `MatrixSearch`. `MatrixSearch` asks both dictionaries for lemmas with a
spelling (`extend_dict`, `get_lpis`), and when a candidate is chosen it updates
a user lemma or adds a phrase to the user dictionary, keeping lemma ids in
between. The user dictionary writes itself back when it is closed or flushed
and when a put finds no room. `Sync` opens a second object on the same file,
merges the server's lemmas into it, and uploads those the first object queued.
The two meet in the file, in `g_mutex_` and in the time of the last write.

**What is hard.** The input method runs in one thread; `Sync` may run in another
and meets it in the file, where a process may also die between two writes. The
rest is state that must move together: there is a lot
of it: four parallel arrays whose order differs, two
caches of positions in them, ids that outlive a call, a queue of raw offsets
into a block that is compacted, and a dirty level that decides which part of
the file may be left as it is; in the decoder a matrix whose rows share two pools,
mile stones of a dictionary held by number, and a fixed prefix that every edit
may cut. Every one of these is right only if every other
call in the class keeps it right. In the interface the same holds for the
surface string, the fixed length and the page table.

**What makes each component correct.**

* User dictionary: searching finds the stored lemmas, with and without caches;
  an id stands for its lemma until the next load; closing and loading loses
  nothing; a crash goes back to a dictionary that existed.
* Synchronisation: a lemma of the user's leaves the queue after it was handed
  out, or with the lemma itself; making room stores no lemma twice.
* Matrix search: the fixed prefix always covers whole spellings, the pools and
  the string are rewound together, a candidate that is shown can be chosen.
* Spelling and system dictionary: what the builder stores, the parser and both
  searches find again, every lemma once, from letters, half ids and full ids.
* Several objects on one file: no lost update, no read of half a write.
* Input method: the state agrees with surface and candidates, the active
  candidate exists, cursor and fixed length stay inside the string.

## 2. Modules

| Module | Models | Notes |
|---|---|---|
| `UserDictSearch` | comparison functions, `locate_first_in_offsets`, the scan of `locate_in_offsets`, insertion points | pure operators on a block and an index |
| `UserDict` | one `UserDict` object and its file | one operator per function, one action per call |
| `LemmaStore` | what the class promises | abstract: scores in memory and a saved copy |
| `UserDictSync` | `Sync` and the input method in turn on one file | extends `UserDict` by reclaim, defragment, the queue |
| `CandidatePages` | page table, candidate window, SCIM's lookup table | pure operators on one record |
| `PinyinIme` | key handlers, `DecodingInfo`, the composing view, over any decoder | extends `CandidatePages`, one action per handler branch |
| `UserDictFile` | several `UserDict` objects on one file: mutex, times, one write at a time, death of the process | objects keep lemmas in order of arrival; the file is a sequence of 16-bit units |
| `SpellingTrie` | ids of spellings, half to full, one turn of the parser's loop | pure operators on a table of spellings |
| `SplParser` | `splstr_to_idxs` as a process | extends `SpellingTrie` |
| `SearchMatrix` | rows, pools, match entries, mile stones, fixed lemmas, composing phrase, candidates | extends `SpellingTrie`; pure operators |
| `MatrixSearch` | `search`, `delsearch`, `choose`, `reset_search`, what is learned | extends `SearchMatrix`; one action per call of the input method |
| `DictTrie` | trie and lists as they are read; mile stones | extends `SpellingTrie`; pure operators |
| `DictBuilder` | reading, sorting, construction, loading, then extending and resetting | extends `DictTrie`; the recursion has an explicit stack |
| `UserDictProofs` | theorems about `UserDict` | order of the keys, binary search; types, closing and loading |
| `UserDictOrderProofs` | | extends `UserDictProofs`: order, ids, predictions |
| `UserDictCacheProofs` | | extends `UserDictOrderProofs`: searches and caches |
| `UserDictStoreProofs` | | extends `UserDictOrderProofs`: `UserDict` implements `LemmaStore` |
| `UserDictSyncProofs` | theorems about `UserDictSync` | extends `UserDictCacheProofs`: the heap, packing, the queue |
| `UserDictFileProofs` | theorems about `UserDictFile` | mutex, times of loads and writes, what a write-back saves |
| `PinyinImeProofs` | theorems about `PinyinIme` | the record of the input, pages, caret, commits |
| `SplParserProofs` | theorems about `SplParser` | the trie's ids, the walk |
| `MCUserDict`, `MCUserDictSync`, `MCPinyinIme`, `MCUserDictFile`, `MCSplParser`, `MCMatrixSearch`, `MCDictBuilder` | instances for TLC | |

### How state and actions correspond to the code

The object is one record `d`, and the file one record `file`. A byte offset
into `lemmas_` is a slot number: the block is only ever appended to, and
compacted as a whole by `defragment`. `index` zips `offsets_`, `scores_` and
`ids_`, which every function permutes alike; the removal bit of an offset is
the field `rm`. `predicts_` and `offsets_by_id_` stay separate because the code
orders them differently. Ids are relative to `start_id_`. `lemma_count_left_`
is `left`; the corresponding size never runs out first, since the room reserved
per lemma is that of the longest one, so it has no variable. For the same
reason `limit_lemma_size` (200000 bytes) is never what stops a put: 5000 lemmas
of the greatest length are smaller.

Each function of the class is an operator from the object before the call to
the object after it, the calls it makes included: `PutLemma` contains the flush
that makes room, `AppendALemma` the insertion into both lists and the emptying
of the caches, `RemoveLemmaByOffsetIndex` the removal from queue and prediction
list. The actions `Put`, `Update`, `Remove`, `Search`, `Flush` and `Restart`
apply one of them; `Restart` is the death of the process between two calls.
`WriteBack` follows the five `write_back_*` functions segment by segment, and
`Load` what they read back; `Validate` compares the lengths with those in
`dict_info`, as the code compares file sizes.

In `UserDictSync` the two objects take turns (the "normal invoking flow" of
`sync.h`), so there is one `d`, whose owner is given by `phase`. `Download` is
one lemma of `put_lemmas`. `put_lemma_no_sync` is modelled with its swap of
`syncs_`: the flush inside writes no queue, and the entries behind the old
queue are uninitialised words (`JunkSlots`). The heap of `reclaim` is modelled
as it is, with its treatment of equal children. `get_lemmas` of an entry that
points behind the block reads whatever is there: it formats or it does not.

In `PinyinIme` a surface is its length, since no handler tells letters apart
but by whether the decoder takes them. `info` is `DecodingInfo`, `cands` the
page table together with `CandidateView` and SCIM's table, `status` the
composing view; `dec` is the string the decoder keeps, which outlives
`DecodingInfo::reset` and goes on until the next first letter. `Decode`,
`Search`, `DelSearch` and `Choose` are the sets of answers `matrixsearch.cpp`
may give: how much of a string decodes, where spellings begin and which
candidates exist is open, while the arithmetic of what is deleted, what stays
fixed and how many candidates a fixed sentence has is the code's. A candidate
behind the last one is answered like any other: what the code reads there is
left over. `ChooseAndUpdate` is the whole of `choose_and_update`; PREDICT is
entered and left inside it, because `reset_candidates` sets the count to 0 just
before it is tested (`pinyin_ime.cpp:406`), so its handler never runs. The panel
sends page and select events only while its table is shown. `committed` holds
the pieces of the surface that the last event committed, in order; it is the
only variable without a counterpart in the code.

In `UserDictFile` an object is a record of its arrays and of the place `pc` it
has reached inside a call; `then` says what follows the closing (`close`,
`load`, or the lemma of a put that flushed). Each place is a step of its own:
the comparison of times under the lock in `_get_lpis`, the lock in
`close_dict`, every `write`, `ftruncate` with the time of the update, the
unlock, validation, the two halves of `reset` (`fopen` cuts, `fclose` writes),
`pthread_mutex_trylock` in `load`, the read, and `gettimeofday` after the lock
is given back. Between any two of them another object may move, or the process
may die. `file` is what the writes leave, word by word, and `Decoded` what a
load makes of it; a file that is too long, too short or of the wrong version is
refused as `validate` does. The clock gives the same time twice, or a later
one. The number of write-backs and the one each object has seen are history.

In `SearchMatrix` a pool is the sequence of its used entries, so that setting
back `mtrx_nd_pool_used_` or `dmi_pool_used_` cuts it; a match entry carries the
spellings it chains back to, and a mile stone the path it stands for. Every
assertion of the code that may fail ends the process: `abort` names it. What is
read uninitialised (the handle of an entry behind a composing phrase) is any
member of `Junk`. The two dictionaries are one table of lemmas `Lex` with
scores; the path of best score is computed as `extend_mtrx_nd` does, with its
cut at `PRUMING_SCORE` and its limit of nodes. `MatrixSearch` has the calls that
`DecodingInfo` makes: a first letter, a letter inserted at the cursor, a
deletion before it, candidate 0 and the others; each contains `reset_search`,
the letters searched again, `get_spl_start_id` and `prepare_candidates`.

In `SpellingTrie` the trie of a table is the set of prefixes of its spellings;
ids are given in the order `construct_spellings_subset` gives them. The sorted
buffer is the constant `SpellingBuf`; `TrieAssumption` says that its order is
the one `compare_spl` sorts by. `ParseStep` is one turn of the loop of
`splstr_to_idxs`.

In `DictBuilder` `b` is the builder, `t` the dictionary in the making and
afterwards, `m` the mile stones. A line of the raw file has its tokens looked
up already. A sort is any order its comparison allows, as `qsort` promises no
more; frequencies are whole numbers, as `compare_py` cuts them to. A frame of
`b.stack` is one activation of `construct_subset`, and each step makes one son.
Numbers are given to all lines, equal strings too, as `sort_lemmas_by_hz` does
in both of its branches. After `LoadDict` the decoder may extend any mile stone
by any id and reset to any handle.

## 3. What the runs check

Every run asks a different question; `PROJECT.json` has one line for each.
Deadlock is checked in `userdict`, `userdict_sync`, `pinyin_ime` and
`dictionary`; the parser ends, the calls on a file are bounded, and the matrix
has no call once the whole string is fixed or an assertion has failed.

### `userdict` (passes; 73,338 distinct states)

Three lemmas: two with the same initials, a third that begins with the second
and is longer; four queries with full and half ids. At most three slots and two
queue entries, room for two lemmas before a flush, rings of one entry,
frequencies up to 2 so that saturation happens, one week; room for one result or
for all.

* `IndexSorted`: the order the binary search depends on, removed entries too.
* `IdsStay`: no step but a load, the one inside a put that flushes included,
  gives an id another lemma, a second entry or none, wherever its entry moves.
* `PredictsMirrorOffsets`: the two lists hold the same lemmas and flags.
* `LpisExact`: a search through either cache, or through none, answers with the
  first matching lemmas in use, as many as there is room for. It answers with
  fewer only from a cached range that an earlier search with the same initials
  cut short (`CutShort`), and then misses only what lies behind it.
* `LocateFinds`: a stored lemma is found, unless it lies behind such a range, and
  what is found begins with the lemma looked for.
* `ReloadRestores`: closing and loading now would change nothing.
* `ImplementsStore`: seen through its calls the object is `LemmaStore`: one
  word's score changes per call, and the saved copy is always a whole store
  that was in memory. This covers what a restart finds.
* `TypeOK`: lengths and ranges of all arrays.

### `userdict_sync` (passes; 303,138 distinct states)

Four lemmas of two syllables, so that a slot number stands for a byte offset
exactly, even for an entry whose lemma is gone. The limit is three lemmas, of
which `reclaim` frees two; there is room for two lemmas before a flush, so that a
download flushes at the limit and below it; the queue has at most two entries,
and the server sends frequencies 0 and 1, which are all there are. Besides the
consistency of the prediction list through reclaim, defragment and flush
(`PredictsMirrorOffsets`):

* `FoundOnce`: a lemma in use has one entry, and `locate_in_offsets` finds it,
  whatever is put, downloaded, moved and loaded again. It is stronger than
  `LocateFinds`: nobody searches in this flow, so no range is cut short.
* `UploadedBeforeDequeued`, of every step: a lemma that can be sent, as it is in
  use and has a frequency, is still queued after it, or was handed out by
  `get_lemmas` before `clear_last_got`. There is one exception, a download at the
  limit or without room, and only if the lemma itself is gone after it: `reclaim`
  removes lemmas together with their entries (`userdict.cpp:963`), and the flush
  without room loses the whole dictionary (`sync_merge`). A queued lemma whose
  frequency the server has set to 0 cannot be formatted, and is dropped unsent;
  see below.
* `DownloadNotQueued`: what comes from the server does not enter the queue, when
  there is room, and at the limit, through reclaim, defragment and the flush of
  the retry. It leaves out the download without room below the limit, which
  *is* queued; see below. It is stated for a queue without duplicates and
  without dead entries; without that condition it fails, since an entry left in
  the queue by a removal comes to stand for the next lemma appended at its place.

### `pinyin_ime` (passes; 28,346 distinct states)

Strings of up to four letters, up to three spellings as `search` accepts, one,
four or five candidates fetched by three and shown by two or three. The passing
properties hold in spite of the disagreements below, which the model has.

* `StatusMatchesState`: the composing view edits exactly in the composing
  state, and candidates are offered only with the cursor at the end.
* `InputHasCandidates`: whenever a comma may ask for candidate 0 there is one;
  the guard of the Down key in the composing state is what keeps it true.
* `PagesFull`, `PageDownShowsMore`: fetching by ten and cutting by page size
  never leaves a short page before the last one, nor a candidate behind a page
  that cannot be left.
* `CaretAtEnd`: the two countings of spaces in the displayed string agree.
* `BackspaceDeletes`: marked position, cursor and deletion agree, in fixed
  spellings and in letters; a marked deletion does not wait for the next key.
* `CommitWhole`: whatever ends with a clean surface commits all of it once;
  above all a choice does not drop the rest that did not decode.
* `TypeOK`: ranges, and that `DecodingInfo`'s copies equal the decoder's.

### `spl_parser` (passes; 44,794 distinct states)

Every string of up to five letters and separators over four letters, among
them `c`, `h` and `ch`, room for three ids.

* `SpelledAsTyped`: no letter is lost or read twice: the letters of each id
  stand at its start, only separators follow up to the next one, and the node
  spells the rest; within the room the caller has; a syllable ends only where no
  spelling goes on.
* `IdsStandForTyped`: a spelling parses to itself, which the builder asserts;
  half and full ids agree both ways.
* `ParserStops`: the loop ends, although two of its branches do not advance.

### `matrix` (passes; 6,146 distinct states)

Three letters `a`, `n`, `o` and the separator, four spellings, lemmas of one
and two syllables, one of them the user's; every sequence of typing, inserting,
deleting anywhere, clearing or not, and choosing any candidate.

* `PoolsTight`: the rows share out both pools without gap or overlap, none with
  more nodes than it may have.
* `FixedCoversLemmas`: what is fixed ends where a lemma ends, at a row that the
  next choice can extend.
* `HandleNamesPath`: a handle kept by a match entry leads to the mile stone of
  its own spellings after others were given back.
* `SentenceSpelled`: every spelling is that of the letters of `pys_` between its
  start and the next, only separators follow it, all that is decoded is covered,
  and each character can be read as its spelling, in a phrase with deleted
  characters too. It is about `pys_`, which the input method takes over after
  each search, and not about the keys; see below.
* `LearnsSentence`: what the user dictionary learns is part of the sentence,
  with full ids.
* `ChoiceAppends`: a choice leaves what was fixed before it.
* `EditUnlocksOne`: an edit at the end gives back at most one lemma.

### `file` (passes; 114,238 distinct states)

Two objects, the input method's and `Sync`'s, on a file of one lemma; four
calls or deaths, two once calls overlap; room for one lemma between flushes.

* `SavesOnLatest`: an object writes only on the version it loaded, as long as
  calls do not overlap.
* `LatestSaves`: and it does write then, unless the two times are equal.
* `SavedIsMemory`: whatever part of the file the dirty level leaves alone, the
  next load gets what was in memory.
* `ReadsBetweenWrites`: a load never reads half a write-back.
* `TornKeepsLemmas`: after a death inside a write-back the file is refused, or
  its lemma block is that of before or of after.
* `CallsReturn`: every call returns, the lock is given back on each path.

### `dictionary` (passes; 25,128 distinct states)

Four files over the spellings `a`, `an`, `na`, `no`: words of one to three
Hanzi, two of them with two spellings, equal frequencies, two equal lines, lines
that are left out for each of the reasons, with a list of valid Hanzi and by
the GBK mark alone. All orders of the sorts. Then up to three mile
stones are pushed in any order and given back.

* `LookupExact`: every string of up to three full and half ids finds each of
  its lemmas once, as far as there is room, the most frequent of one spelling
  first.
* `ExtendAgrees`: a mile stone stands for the nodes that the walk for its ids
  reaches; extending it finds what a search in one go finds.
* `SplidsOfLemma`: from an id through its Hanzi back to the right spellings,
  whether nothing, half ids or full ids are given.
* `PredictionsRight`: prediction finds exactly the words that begin with some
  Hanzi; a string leads to the id of a lemma with that string, but for the first
  Hanzi of the list; without history the most frequent lemmas are offered in
  order, but for the last lemma of the list.

### Runs that find a disagreement

* `sync_merge` (`DownloadKeepsDictionary`): a download that has to flush while
  lemmas wait for upload writes no queue, `validate` refuses the file and
  `load_dict` resets it.
* `ime_active` (`ActiveInTable`): the place in a page is clamped with `<`.
* `matrix_choose` (`ChosenIsFound`): the list of candidates is made with the
  spellings of before the choice; one behind the sentence may not be found
  among the match entries, and the assertion of `matrixsearch.cpp:852` fails.
* `matrix_merge` (`MergeCounts`): a deletion that merges lemmas fixed behind a
  phrase into it fails the assertion of `matrixsearch.cpp:1249`.
* `file_reset` (`ResetsBetweenWrites`): `load_dict` validates and resets before
  it takes the mutex, while another object is between two writes
  (`userdict.cpp:60` says that loading and writing are thread-safe).

### Further disagreements, met while modelling

The models have all of these, and no run is about them.

* `put_lemma` takes a stored lemma for one of its proper prefixes, because only
  the first `lemma_len` syllables of an entry are compared
  (`userdict.cpp:731-741`). `LocateFinds` therefore only says that what is found
  begins with the lemma looked for.
* A search that finds more than its caller has room for caches the range up to
  there (`userdict.cpp:563`); the room is what the system dictionary has left of
  the buffer (`matrixsearch.cpp:1690`). Later searches with these initials and
  more room answer from the range alone, `locate_in_offsets` misses what lies
  behind it, and `put_lemma` appends such a lemma a second time, until the next
  append empties the caches. `LpisExact` and `LocateFinds` say that this is all
  that goes wrong.
* Ids do not outlive a load (`userdict.cpp:1195`), yet a `put_lemma` without room
  flushes, and `_get_lpis` reloads when another object wrote the file: an id its
  caller still holds may then stand for another lemma.
* `put_lemma_no_sync` is "without adding sync flag" (`userdict.h:101`), but
  `_put_lemma`'s own flush loads the dictionary with a new `syncs_`, which is no
  longer NULL: the lemma downloaded is queued (`userdict.cpp:2101`), and when the
  old buffer is put back (`userdict.cpp:1706-1709`) its entry is uninitialised.
* The binary search looks for a prefix of initials in an index sorted by length
  first; a longer lemma may lie on no probe (`userdict.cpp:445`).
* `update_lemma` queues a lemma twice, a removal takes one entry out
  (`userdict.cpp:918`).
* `clear_last_got` clears as many entries from the front as `get_lemmas` counted
  (`userdict.cpp:1689`), and that does not count what it cannot format
  (`userdict.cpp:1881`). Of three entries of which the first is passed over and
  the second handed out, the first goes and the second is handed out again,
  although `sync.h:68` says that what was got is cleared.
* SCIM's page size does not reach the table (`google_imengine.cpp:330`); the
  unsigned cursor wraps at 0 (`decoding_info.cpp:525`); a comma commits the
  chosen part twice (`decoding_info.cpp:166`).
* When a change falls inside a spelling of a phrase, `reset_search` cuts the
  phrase and decodes up to that spelling only, but `search` goes on with the
  caller's letters from the change (`matrixsearch.cpp:441-445`), so the letters
  between are lost: with "a'n", of which "a'" is a phrase, an "a" put in front
  gives "a'nn", of which "a'n" is decoded. The input method takes that string
  over, so that `SentenceSpelled` compares with it. It takes four letters to
  get there, one more than the instance has.
* Giving back the last sub-lemma of a phrase loses the lemmas fixed behind it.
* `match_dmi` compares as many spellings as the entry it has reached, not as
  many as the lemma. A phrase emptied by deletions has its count of sub-lemmas
  wrap around. Mile stones pushed by entries that are dropped are given back
  late, and `extend_dict1` and `extend_dict2` do not look at the room left.
* A write-back torn before its last segment may leave an info record that is
  read from the wrong place and sets a limit that was never set
  (`userdict.cpp:1288`). `load_time_` is taken after the unlock
  (`userdict.cpp:274`), so that a write in between counts as older. A
  `flush_cache` after a failed load uses a freed name. A put that flushed
  appends its lemma even when the reload has brought it in.
* `get_lemma_str` takes the last id for the end of the list
  (`dictlist.cpp:288`): the last lemma has no string. In the shipped data it is
  a word of four Hanzi, which therefore cannot be shown. `predict_top_lmas`
  passes over it (`dicttrie.cpp:925-929`) and offers one lemma less.
* `get_lemma_id` asserts that what it found lies behind the start of the buffer
  (`dictlist.cpp:356`), where the first Hanzi of the list is found: asked for that
  one, it ends the process.
* `get_lpis` removes a repeated string by comparing an entry with the one before
  it alone (`matrixsearch.cpp:1725`): of three equal strings the third takes the
  place of the first when its score is better than the second's.
* `calculate_size` gives wrong starts when the lengths of the words leave a gap
  (`dictlist.cpp:143`), and the quick index points to the node before for a
  spelling no lemma begins with (`dicttrie.cpp:226`). `FilesAssumption` excludes
  both; the shipped file has all 416 spellings and no gap.
* "Other nodes is less than lemma_num" (`dictbuilder.cpp:195`) is not so: a few
  long words without common beginnings have more nodes than lemmas.

### Bounds

`MaxSlots` and `MaxSyncs` bound the block and the queue; everything else is
finite by itself. Three lemmas give every case of the binary search up to two
levels, every insertion point, and, with `PreAlloc = 2`, a put with room,
without room, and after a flush. Rings of one entry make every second search
overwrite. A frequency range of 3 reaches saturation with the second update.
In the searches, room for one result cuts every range of two lemmas short. In the
sync instance `PreAlloc = 2` below a limit of three makes a download flush with
room gone below the limit and again at the limit, with entries waiting or
none; `sync_merge` has `PreAlloc = 1`, where the first flush loses the file.

In `file` four calls are enough for each object to load, write and come back
after the other has written; the interesting overlaps need two. A lemma fills
the room, so that the third put flushes. In `matrix` three letters are one to
three syllables, so that fixing, merging into a phrase and unlocking all occur,
with up to two nodes a row. In `dictionary` the room for lemmas is three, fewer
than some strings have, and three mile stones allow two branches from one.

In `pinyin_ime` four letters allow a fixed spelling of two letters, a free one
and a rest that does not decode, and four spellings, which `search` must cut to
three. Five candidates need two fetches and three pages; four end with a full
page. The runs that find a disagreement take three letters.

### Fairness

`SplParser` has weak fairness of its only step: a loop that runs goes on. In
`UserDictFile` each object's thread goes on inside a call (`WF_vars(Step(o))`),
for every object by itself; nothing is assumed of the calls, nor of the
process's life. Weak fairness is enough for the lock although it is taken in
turns, because the model's calls are finitely many. No other specification
assumes any: the calls come from the user, every key is handled to its end
before the next.

## 4. What is proved

Twenty-five of the forty properties that the passing runs check are theorems
too, for every value of the constants: all of `UserDict` and `PinyinIme`, those
of `UserDictSync` but one, the safety of `SplParser`, and in `UserDictFile` the
mutex, the times and what a write-back saves. TLC has
checked each invariant below, the auxiliary parts included, before it was
proved. `tlapm` checks each module by itself.

| Module | Theorems |
|---|---|
| `UserDictProofs` | `TypeCorrect`: `[]TypeOK`; `ReloadCorrect`: `[]ReloadRestores` |
| `UserDictOrderProofs` | `IdsCorrect`: `IdsStay`; `PredictionsCorrect`: `[]PredictsMirrorOffsets`; `IndexCorrect`: `[]IndexSorted` |
| `UserDictCacheProofs` | `LpisCorrect`: `[]LpisExact`; `LocateCorrect`: `[]LocateFinds` |
| `UserDictStoreProofs` | `StoreRefined`: `ImplementsStore`, the refinement of `LemmaStore` |
| `UserDictSyncProofs` | `UploadCorrect`: `UploadedBeforeDequeued`; `SyncPredictions`: `[]PredictsMirrorOffsets`; `SyncLocate`: `[]FoundOnce` |
| `UserDictFileProofs` | `ReadsExclusive`: `[]ReadsBetweenWrites`; `SavesLatest`: `[]SavesOnLatest`; `LatestSaved`: `LatestSaves`; `SavedCorrect`: `[]SavedIsMemory` |
| `PinyinImeProofs` | `ViewMatchesState`, `TypeCorrect`, `CandidatesThere`, `PagesCorrect`, `PageDownCorrect`, `CaretCorrect`, `BackspaceCorrect`, `CommitCorrect`: the eight properties of the run |
| `SplParserProofs` | `SpelledCorrect`: `[]SpelledAsTyped`; `IdsCorrect`: `[]IdsStandForTyped` |

### The assumptions

The proofs use the named assumptions of the modules, which TLC evaluates in the
runs:

* `SizesAssumption`: positive sizes, at least two frequencies.
* `LemmasAssumption`, `QueriesAssumption`, `SpellingsAssumption`: lemmas have one
  to `MaxLemmaSize` full ids and as many Hanzi, searches as many ids, half ids
  too; an id has an initial, a half id that of every full id it stands for.
* `PagesAssumption`, `ImeAssumption`: ten candidates are fetched at a time, more
  than the nine of SCIM's table and no fewer than any page size; there is room
  for a letter; a string of which something decoded has a candidate.
* `MutexAssumption`: `Nobody` is no object. The clock does not go back; that is
  in the model.
* `FileAssumption`: there is a lemma, a lemma is made of 16-bit units, and none is
  longer than the room reserved for one (`kUserDictAverageNchar`).
* `TrieAssumption`, `HalfIdsAssumption`: the spellings are sorted and different;
  `kHalfId2Sc_` names every initial once and C before Ch, Z before Zh, S before
  Sh (`spellingtrie.cpp`, "0ABCcDEFGHIJKLMNOPQRSsTUVWXYZz"); a letter that is a
  spelling by itself may stand for it, which is how the constructor leaves
  `char_flags_` after `szm_enable_shm(true)` and `szm_enable_ym(true)`.
* `ParserAssumption`: the caller has room for one id.
* `SyncAssumption`: the ratio is one for which `reclaim` does something and does
  not assert, and the limit is large enough that it frees a lemma
  (`kUserDictMaxLemmaCount` 5000, `kUserDictRatio` 20). Of the memory that is
  read uninitialised (`JunkSlots`) and of what the server sends nothing else is
  assumed.

`SavedCorrect` has one hypothesis more, `FileFits`: the counts that the bounded
number of calls can reach lie below `Huge`, so that a number is read back as it
was written and the size of the file, which `validate` computes in 32 bits, does
not wrap. The instance satisfies it. In the code the counts have 32 bits, and
`limit_lemma_count` stops at 5000 lemmas. No other theorem assumes more than
the named assumptions.

### User dictionary

`ReloadRestores` is not inductive: it says what a flush would produce, and the
next call starts from the object and the file. The inductive invariant is
`Good(d, file)`:

* `DictOK`: types and ranges;
* `FileOK`: types and ranges of the file, and that `validate` accepts it;
* `Covers`: below the dirty level each segment of the file is the one in
  memory; the block in the file is a prefix of the block in memory, shorter by
  exactly what `left` has counted down.

`WriteBackIsImage` shows that under `Good` all levels write the same file, the
image of the object; `LoadGood` that loading a good file gives an object it
covers; from both, `FlushGood`. There is one lemma per function of the class
(`ScoreGood`, `QueueGood`, `AppendGood`, ...), and `GoodInductive` puts them
together, one step per action.

`Kept` adds to `Good` what the lists are to each other (`Orderly`: distinct
offsets, the predictions mirror the index, the index ascends) and the ids
(`IdsAgree`: each id has one entry, and `by_id` its place in the block), and says `Orderly` of the file as well, because a restart begins
there. `AppendKept` is its hardest step: where a new entry is put by
`InsertPosition` the order remains, which is about the comparison at the two
neighbours of that place; `Placed` describes the insertion once, for both lists.
The comparison functions of the code are shown to be one order on keys (`Below`:
shorter first, then by initials) in `UserDictProofs`.

`IdsStay` is an action property and follows from `Kept` before the step and the
shape of each call: an insertion moves the entries behind it and leaves their ids
(`Placed`), a new id is greater than all others, a removal sets a bit.

`Cachable` adds that each cached range is what a scan went through (`CachesOK`):
it begins where its initials do, and holds every entry in use with them
(`Covered`), or as many matches as some search had room for (`Short`); and that
what the miss cache names is missing. `Short` is kept by everything that does not
empty the caches, because removals move no entry, so `LpisExact` and `LocateFinds`
need no bound on the index.

`LocateFirst` is a recursive function on ranges. What it returns for every
index is induction over data, for which the provers have no rule they can apply.
The lemmas about it take the least counterexample instead: `WFMin` of the library
gives a shortest range for which the statement fails, and one unfolding of the
function contradicts it. That the search finds the first of several equal keys
needs that the index ascends, so `LpisExact` rests on `IndexSorted`.

`Exact` is `Cachable` of an object that is never searched: its caches are empty,
and no lemma is in use twice (`Single`). The two belong together: a lookup that
misses a stored lemma makes `put_lemma` store it again, and with two of them a
removal leaves one behind. The proofs about `UserDictSync` begin with it.

`StoreRefined` maps the object to `LemmaStore` by `StoreOf(d)`, the score of each
word in use, and the file by `SavedIn(file)`. `Good` gives that a flush saves
what is in memory and changes nothing in it, so it is a step of the store or a
stutter; every other call touches one word (`Touches`), and a restart goes back
to the saved copy.

### Synchronisation

In `UserDictSync` the queue may hold offsets of removed lemmas, of others that
have come to their places, or uninitialised words, so `Exact(d, file)` does not
hold: its ranges speak of the queue. `SyncOK` therefore asks `Exact` of the
object and the file *without* queue and limit (`Bare`, `BareFile`), and of the
queue only that it is a list of numbers. For each function of the class there
is a lemma that it does the same to the bare object (`AppendBare`, `RemoveBare`,
`WriteBackBare`, ...), so that the lemmas about `Exact` carry over. A flush then
has two outcomes: the image of the object, or, when the queue could not be
written, the empty dictionary (`FlushSync`).

Making room is proved in three parts.

* `ReclaimSync`: the heap holds positions of the index at every turn
  (`VictimsTyped`), and removing any such positions, one after another and even
  one twice, keeps the order. That they are those of the smallest scores is not
  stated: the code's heap does not promise it when two children tie.
* `DefragmentOK`: the entries in use keep their order (`RankOrder`: the rank in
  a set of positions is monotone and onto), a slot moves to its rank among the
  slots that stay (`MovedIsRank`), and both lists move alike, because they mirror
  each other (`MirrorsGone`). Here it is seen why the number of lemmas may be
  taken from the pass over `predicts_`.
* `MadeRoomSync`: what defragment leaves is written as a whole and loaded back
  (`ImageExact`), or refused.

`SyncInv` adds to `SyncOK` what holds between `get_lemmas` and `clear_last_got`:
of the first `last_got` entries of the queue, those that can be sent are in
`sent` (`Handed`). `GotHanded` establishes it. An entry that can be sent is found
by `locate_in_offsets` as itself, for a lemma has one entry (`FoundEntry`), so it
is among those that get formatted; and when its place in the queue is at most the
number of entries handed out, so is its place among the formatted ones.

`UploadCorrect` is about every step, and needs to know that the queue survives the
flushes: an object that is not dirty has the queue that is in the file
(`QueueSaved`). `QueueStep` says for each action that it saves the queue so, and
which lemmas it may take out of it. For a flush, reclaim and defragment this is
`Passes`: no lemma comes into use, and one leaves the queue only with its entry
in the index; it composes, so that `PutNoSyncQueue` follows for a download with
both of its tries.

The loops of `reclaim` are functions on intervals defined by recursion. Their
existence for every length (`Iterates`) is again shown by a least counterexample.

### Input method

`ViewOK` adds to `StatusMatchesState` that `state` is one of the three that can be
reached: without that the state after a choice (`NextState`) could be one that
`StatusFor` does not know. Whatever came before, `show_candidate_window`
(`ShowOK`) and the return to idle (`IdleOK`) bring view and state together.

The other properties share the invariant `IInv`. None of them is inductive, as
each depends on records that other handlers change:

* `DecOK`, `InfoOK`: ranges of the decoder's string and of `DecodingInfo`; the
  starts ascend from 0; no deletion is left over.
* `Copies`: while typing, `DecodingInfo` has the decoder's lengths and starts,
  and `finish` says that all is fixed.
* `CandsOK`, `Full`: the page table ascends within what was fetched; no page but
  the last is shorter than a page size in use. `Full` does not hold once the
  input is finished, when the candidates are not asked for.
* `Offered`, `ShownOK`: the window shows candidates of this string, and the page
  behind the current one is known, which `PageDownShowsMore` needs.

There is a lemma for each operation on one record (`TableMoves`, `PreparePage`,
`SearchIs`, `DelSearchIs`, ...), then one for each group of keys. Of the decoder
nothing is used but that its answers are in the sets `Search`, `DelSearch`,
`Choose`. `CaretCorrect` counts the spaces between spellings on both ways by the
least start at which the two counts would differ. `BackspaceCorrect` and
`CommitCorrect` are action properties and follow from `IInv` before the step.

### Several objects on one file

`IInv` says which places in a call hold the mutex (`LockHeld`); that without
overlap at most one object is inside a call (`OneBusy`); that no time is later
than `now` (`TimesOK`); and that an object whose load time is later than the
last update, or which is between its read and its stamp, or writing, has seen
the last write-back (`Fresh`). `OneBusy` is what `Fresh` needs when a write ends:
the others are idle with times not after `now`, and the new `last_update` is not
before it. When calls overlap that fails, at `Stamp`.

`TInv` is the converse of `Fresh` and needs no `OneBusy`: an object that has seen
the last write-back and is past its stamp has a load time not before the last
update. From it `LatestSaved` follows in one step, because `close_dict` compares
just these two times. So nothing is lost even when calls overlap, but for the
tie; what overlap breaks is `SavesOnLatest`. `SetStep` and `SimpleCall` reduce a
step to the one record it sets, with one lemma per action.

`SavedCorrect` sees the file as eight segments that lie end to end (`Seg`, `Pos`,
`Has`): the version, the lemmas that were in the file before, the new ones,
offsets, predictions, scores, the queue, and the counts at the end. `SInv` says,
as long as no calls overlap,

* of an object that has the last version: the segments its dirty level would
  *not* write are in the file already, at the places where its arrays in memory
  would put them (`Covers`). Each call has a lemma that the level it raises, or
  the one it finds, keeps this: a score changes no segment below `SCORE_DIRTY`, a
  removal none below `OFFSET_DIRTY`, a new lemma none before the new ones
  (`ScoreKeeps`, `RemoveKeeps`, `AppendKeeps`);
* of an object between two writes: the segments before the next write are there
  (`Stage`), and the next write adds one and disturbs none before it
  (`StageGoesOn`);
* of the counts: they are bounded by the calls made (`Small`, `Bound`), so that
  the two units of a number hold them.

At the last write all eight segments are there (`StageDone`). `ReadBack` is what
makes that enough: a file with all segments, cut behind the last, passes
`Validate`, and `Decoded` cuts it by the counts at its end into the arrays that
were written. `LoadedIs` closes the circle: a load from such a file gives an
object that covers it.

### Parser

`SpelledAsTyped` is nearly inductive; `WInv` adds

* `WalkOK`: the walk is in a node of the trie, and separators are read at the
  root and behind a syllable only. Without it the start that `SeparatorMoves`
  moves could be that of a syllable with letters.
* `IdsFound`: an id handed out is a full id, or a half id whose node is in the
  trie, so that its letters are known.
* `WholeWalk`: a spelling is walked from the root to its end without a syllable
  before. This is the part of `IdsStandForTyped` that holds of a walk under way.

One turn of the loop is one of three: a letter goes on in the trie
(`LetterGoesOn`), a syllable ends (`PushKeeps`, for a letter and for a separator),
or the walk stops. `ValidSpells` says that the id `if_valid_id_update` allows
spells the node, also where a one-letter initial gives way to the full id of its
letter: that is the least full id under the node, because the spellings are
sorted (`LeastUnder`). `CompatibleExact` is the second half of
`IdsStandForTyped`: `half_full_compatible` looks at one half id of a full id, the
last that `build_f2h` writes, and at its first letter; this is right because Zh
comes after Z.

### What is only model-checked

* Liveness, out of the provers' reach: `CallsReturn`, `ParserStops`.
* `TornKeepsLemmas`: after a death the end of the file is whatever the write-back
  had reached, and validation reads it as counts. That the wrong ones are refused
  depends on what was written there: it holds of the lemmas of the instance, and
  not of any contents of the file.
* `MatrixSearch`: its operators are folds over letters and match entries. The
  invariants are candidates for the method of the parser's proof.
* `DictBuilder`: `LookupExact`, `ExtendAgrees`, `SplidsOfLemma` and
  `PredictionsRight` say what the finished construction holds, and need an
  invariant of the recursion that relates each frame to the lemmas left.
* `DownloadNotQueued` of `UserDictSync`: it needs that a removal and defragment
  leave the queue without dead entries, which the code keeps only as long as no
  entry is in it twice; the run checks it.

## 5. Not modelled

* `translate_score` and `total_nfreq`: floating point, and a counter that only
  weighs scores.
* `predict` and `get_lemma_str`: reads of state whose consistency is checked.
* The parsing and printing of the strings exchanged with the server.
* In the input method: punctuation in the idle state and the widths, which
  change no other state; what is drawn beyond the caret's position; the mode
  switch key; two input contexts that share the decoder. Delete at a boundary
  of the fixed part takes the spelling before the cursor, and at its front
  nothing; the code says nowhere what it should do. With the cursor inside a
  fixed spelling the caret may stand behind the displayed string. A comma
  goes to idle without clearing the string: Escape then finds it, calls
  `reset`, which returns at once in idle, and swallows the key. The model does
  all three; no property states them.
* In the decoder: how scores come about, `inner_predict`, the order of the
  candidates, `cancel_last_choice`, which nothing in the input method calls, the
  pool of match entries at its limit. `xi_an_enabled_` is FALSE in this build,
  so that its branches are left out.
* `LpiCache`: while the lexicon does not change, a cached answer equals the
  computed one; one-syllable user lemmas are never learned under SCIM.
* `ngram.cpp` and `spellingtable.cpp`: codebooks and scores in floating point.
* The reading and writing of the dictionary's file, tokenizing of the raw one.
* UTF-16 helpers, setup dialog, SCIM's glue: conversions, widgets, forwarding.

## 6. Plan

1. Proofs: `PoolsTight` of `MatrixSearch`, from lemmas about `Rewind` and the
   extension by one letter; `FixedCoversLemmas` from what a choice and an edit
   make of the fixed prefix.
2. In `DictBuilder`, that every frame's range and room fit, as an invariant of
   the recursion, and its proof.
3. `MatrixSearch` refined to the answers that `PinyinIme` assumes of the decoder.
