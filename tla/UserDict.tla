------------------------------ MODULE UserDict ------------------------------
(***************************************************************************)
(* One UserDict object of share/userdict.cpp and the file it is loaded     *)
(* from: the lemma block, the sorted index, ids, prediction list, sync     *)
(* queue, search caches and the dirty level that decides how much of the   *)
(* file close_dict rewrites.                                               *)
(*                                                                         *)
(* The object is the record d; every operator below is one function of the *)
(* class, from the object before the call to the object after it.          *)
(*   block   lemmas_, one slot per lemma (a byte offset is a slot number)  *)
(*   index   offsets_, scores_ and ids_, which the code keeps in step:     *)
(*           [off: slot, rm: highest bit of the offset, score, id]         *)
(*   by_id   offsets_by_id_; id k stands for start_id_ + k - 1             *)
(*   preds   predicts_          syncs  the first sync_count of syncs_      *)
(*   left    lemma_count_left_  limit, free_count  from dict_info_         *)
(*   hits, misses  caches_ and miss_caches_, oldest entry first            *)
(* The size counters need no variable: lemma_count_left_ runs out before   *)
(* lemma_size_left_ (kUserDictAverageNchar is the longest lemma).          *)
(***************************************************************************)
EXTENDS UserDictSearch

CONSTANTS
    MaxLemmaSize,  \* kMaxLemmaSize: the longest lemma, in syllables
    PreAlloc,      \* kUserDictPreAlloc: lemmas that fit before a flush
    HitSize,       \* kUserDictCacheSize: ring slots of the hit cache
    MissSize,      \* kUserDictMissCacheSize: ring slots of the miss cache
    FreqRange,     \* 2^16, the frequencies a score can hold
    WeekRange,     \* 2^16, the last-modified weeks a score can hold
    Queries,       \* the spelling-id strings get_lpis is asked for
    Rooms,         \* how much room callers of get_lpis have in lpi_items
    Weeks,         \* what time(NULL) can be, in weeks
    MaxSlots,      \* bound of the model on the lemma block
    MaxSyncs       \* bound of the model on the sync queue

ASSUME SizesAssumption ==
    /\ MaxLemmaSize \in Nat \ {0}
    /\ PreAlloc \in Nat \ {0}
    /\ HitSize \in Nat \ {0}
    /\ MissSize \in Nat \ {0}
    /\ FreqRange \in Nat /\ FreqRange > 1
    /\ WeekRange \in Nat \ {0}
    /\ Weeks \subseteq Nat
    /\ Rooms \subseteq Nat
    /\ MaxSlots \in Nat

ASSUME LemmasAssumption ==
    \A w \in Lemmas :
        /\ w \in [spl : Seq(DOMAIN SplInitial \ DOMAIN HalfToFull), str : Seq(Nat)]
        /\ Len(w.spl) \in 1..MaxLemmaSize
        /\ Len(w.str) = Len(w.spl)

ASSUME QueriesAssumption ==
    \A q \in Queries : q \in Seq(DOMAIN SplInitial) /\ Len(q) \in 1..MaxLemmaSize

VARIABLES
    d,     \* the UserDict object
    file   \* the user dictionary file

vars == <<d, file>>

(* USER_DICT_SYNC .. USER_DICT_DEFRAGMENTED, "Keep in order". *)
SYNC == 1
SYNC_DIRTY == 2
SCORE_DIRTY == 3
OFFSET_DIRTY == 4
LEMMA_DIRTY == 5
DEFRAGMENTED == 6

DirtyAlways(dict, level) == level     \* variant: without the test

(* The idiom of every mutator: if (state_ < level) state_ = level; *)
Dirty(dict, level) == IF dict.state < level THEN level ELSE dict.state

(* How append_a_lemma places an entry: at the end of the list, and from
   there at position k unless that is the end. *)
InsertAt(s, k, e) ==
    IF k \in 1..Len(s)
    THEN [j \in 1..Len(s) + 1 |-> IF j < k THEN s[j] ELSE IF j = k THEN e ELSE s[j - 1]]
    ELSE Append(s, e)

-----------------------------------------------------------------------------
(* Scores: week of the last modification above, frequency below. *)
BuildScore(week, freq) == (week % WeekRange) * FreqRange + (freq % FreqRange)
ExtractFreq(score) == score % FreqRange
ExtractWeek(score) == score \div FreqRange
MaxFrequency == FreqRange - 1

-----------------------------------------------------------------------------
(* Caches.  A ring of n slots holds n - 1 entries: when the tail meets the
   head, the oldest entry goes. *)
NoCache == [n \in 1..MaxLemmaSize |-> <<>>]

RingPush(ring, e, size) ==
    LET pushed == Append(ring, e)
    IN  IF Len(pushed) >= size THEN Tail(pushed) ELSE pushed

HitsFor(dict, s) == {i \in 1..Len(dict.hits[s.len]) : dict.hits[s.len][i].sig = s.sig}
MissFor(dict, s) == \E i \in 1..Len(dict.misses[s.len]) : dict.misses[s.len][i] = s.sig

(* load_cache: the oldest entry with this signature. *)
LoadCache(dict, s) == dict.hits[s.len][Least(HitsFor(dict, s))]

CacheInitHitsOnly(dict) == [dict EXCEPT !.hits = NoCache]      \* variant

CacheInit(dict) == [dict EXCEPT !.hits = NoCache, !.misses = NoCache]

-----------------------------------------------------------------------------
(* locate_in_offsets: the position of lemma w in the index, 0 if it is not
   found.  Reads the hit cache, never the miss cache. *)
LocateInOffsets(dict, w) ==
    LET s      == Searchable(w.spl)
        cached == HitsFor(dict, s) # {}
        first  == IF cached THEN LoadCache(dict, s).start
                            ELSE LocateFirst(dict.block, dict.index, s)
        last   == IF cached THEN first + LoadCache(dict, s).count - 1
                            ELSE Len(dict.index)
    IN  IF first = 0 THEN 0 ELSE ScanFor(dict.block, dict.index, w, first, last, cached)

(* _get_lpis: where the search starts, how far the scan goes and what it
   returns.  The scan ends after an entry with other initials (when not
   cached), after one that has not the query as prefix, after `max` matches. *)
LpisStart(dict, s) ==
    IF MissFor(dict, s) THEN 1
    ELSE IF HitsFor(dict, s) # {} THEN LoadCache(dict, s).start
    ELSE LocateFirst(dict.block, dict.index, s)

LpisEnd(dict, s, max) ==
    LET cached == HitsFor(dict, s) # {}
        first  == LpisStart(dict, s)
        last   == IF MissFor(dict, s) THEN 0
                  ELSE IF cached THEN first + LoadCache(dict, s).count - 1
                  ELSE Len(dict.index)
        inuse  == {k \in first..last : ~dict.index[k].rm}
        breaks == {k \in inuse :
                     \/ ~cached /\ CompareAt(dict.block, dict.index, k, s) # 0
                     \/ ~FuzzyPrefixAt(dict.block, dict.index, k, s)}
        full   == {k \in inuse :
                     max <= Cardinality({j \in inuse : j <= k
                                 /\ EqualAt(dict.block, dict.index, j, s)})}
    IN  IF breaks \cup full = {} THEN last ELSE Least(breaks \cup full)

Lpis(dict, q, max) ==
    LET s == Searchable(q)
    IN  IF max = 0 \/ LpisStart(dict, s) = 0 THEN {}
        ELSE {k \in LpisStart(dict, s)..LpisEnd(dict, s, max) :
                 ~dict.index[k].rm /\ EqualAt(dict.block, dict.index, k, s)}

GetLpis(dict, q, max) ==
    LET s     == Searchable(q)
        first == LpisStart(dict, s)
    IN  IF max = 0 \/ MissFor(dict, s) \/ HitsFor(dict, s) # {} THEN dict
        ELSE IF first = 0
             THEN [dict EXCEPT !.misses[s.len] = RingPush(@, s.sig, MissSize)]
             ELSE [dict EXCEPT !.hits[s.len] =
                      RingPush(@, [sig |-> s.sig, start |-> first,
                                   count |-> LpisEnd(dict, s, max) - first + 1], HitSize)]

-----------------------------------------------------------------------------
NewIdReusing(dict) ==          \* variant: counts the lemmas in use
    Cardinality({k \in 1..Len(dict.index) : ~dict.index[k].rm}) + 1

NewId(dict) == Len(dict.index) + 1

(* append_a_lemma: a new slot, a new id (removed ids are not reused), its
   place in the sorted index and in the prediction list; the caches hold
   positions, so they are emptied. *)
AppendALemma(dict, w, score) ==
    LET slot  == Len(dict.block) + 1
        id    == NewId(dict)
        block == Append(dict.block, w)
        index == InsertAt(dict.index, InsertPosition(block, dict.index, w),
                              [off |-> slot, rm |-> FALSE, score |-> score, id |-> id])
        point == PredictInsertPoint(block, index, w.str)
    IN  CacheInit([dict EXCEPT
            !.block = block,
            !.index = index,
            !.by_id = Append(@, slot),
            !.preds = InsertAt(@, point + 1, [off |-> slot, rm |-> FALSE]),
            !.left  = @ - 1,
            !.state = Dirty(dict, LEMMA_DIRTY)])

QueueLemmaForSync(dict, id) == [dict EXCEPT !.syncs = Append(@, dict.by_id[id])]

(* remove_lemma_from_sync_list: the first entry with this offset, its place
   taken by the last entry. *)
RemoveFromSyncList(syncs, slot) ==
    LET at == {i \in 1..Len(syncs) : syncs[i] = slot}
    IN  IF at = {} THEN syncs
        ELSE [j \in 1..Len(syncs) - 1 |-> IF j = Least(at) THEN syncs[Len(syncs)] ELSE syncs[j]]

RemoveFromPredictListAt(preds, slot) ==     \* variant: takes the offset for a position
    [preds EXCEPT ![slot].rm = TRUE]

RemoveFromPredictList(preds, slot) ==
    [i \in 1..Len(preds) |-> IF preds[i].off = slot THEN [preds[i] EXCEPT !.rm = TRUE]
                                                    ELSE preds[i]]

RemoveLemmaByOffsetIndex(dict, k) ==
    [dict EXCEPT !.index[k].rm = TRUE,
                 !.syncs = RemoveFromSyncList(@, dict.index[k].off),
                 !.preds = RemoveFromPredictList(@, dict.index[k].off),
                 !.free_count = @ + 1,
                 !.state = Dirty(dict, OFFSET_DIRTY)]

(* update_lemma on the entry at position k: a count that would overflow, or
   go down, becomes the maximum. *)
UpdatedCount(count, delta) ==
    IF count + delta > MaxFrequency \/ count + delta < count THEN MaxFrequency
                                                             ELSE count + delta

UpdateLemma(dict, id, delta, selected, week) ==
    LET k     == LocateInOffsets(dict, dict.block[dict.by_id[id]])
        old   == dict.index[k].score
        count == UpdatedCount(ExtractFreq(old), delta)
        score == BuildScore(IF selected THEN week ELSE ExtractWeek(old), count)
    IN  IF k = 0 THEN dict
        ELSE QueueLemmaForSync([dict EXCEPT !.index[k].score = score,
                                            !.state = Dirty(dict, SCORE_DIRTY)],
                               dict.index[k].id)

RemoveLemma(dict, id) ==
    LET k == LocateInOffsets(dict, dict.block[dict.by_id[id]])
    IN  IF k = 0 THEN dict ELSE RemoveLemmaByOffsetIndex(dict, k)

-----------------------------------------------------------------------------
(* The file: its segments, and the dict_info record at its end. *)
InfoOf(dict) ==
    [lemmas |-> Len(dict.block), count |-> Len(dict.index), syncs |-> Len(dict.syncs),
     free_count |-> dict.free_count, limit |-> dict.limit]

OffsetsOf(index) == [k \in 1..Len(index) |-> [off |-> index[k].off, rm |-> index[k].rm]]
ScoresOf(index) == [k \in 1..Len(index) |-> index[k].score]

NoLimit == [count |-> 0, ratio |-> 0]

(* What reset() writes. *)
EmptyFile ==
    [block |-> <<>>, offs |-> <<>>, preds |-> <<>>, scores |-> <<>>, syncs |-> <<>>,
     info |-> [lemmas |-> 0, count |-> 0, syncs |-> 0, free_count |-> 0, limit |-> NoLimit]]

(* validate(): the size of the file is the one its dict_info announces. *)
Validate(f) ==
    /\ Len(f.block) = f.info.lemmas
    /\ Len(f.offs) = f.info.count
    /\ Len(f.preds) = f.info.count
    /\ Len(f.scores) = f.info.count
    /\ Len(f.syncs) = f.info.syncs

(* write_back_sync, _score, _offset, _lemma and _all: from the first segment
   of the dirty level to the end.  `written` is the sync segment that reaches
   the file.  write_back_lemma rewrites only the lemmas appended since load. *)
WriteBack(dict, f, written) ==
    LET fresh == PreAlloc - dict.left
        kept  == Len(dict.block) - fresh
        tail  == [f EXCEPT !.syncs = written, !.info = InfoOf(dict)]
        score == [tail EXCEPT !.scores = ScoresOf(dict.index)]
        offs  == [score EXCEPT !.offs = OffsetsOf(dict.index), !.preds = dict.preds]
    IN  CASE dict.state = SYNC -> f
          [] dict.state = SYNC_DIRTY -> tail
          [] dict.state = SCORE_DIRTY -> score
          [] dict.state = OFFSET_DIRTY -> offs
          [] dict.state = LEMMA_DIRTY ->
                [offs EXCEPT !.block = SubSeq(f.block, 1, kept)
                                       \o SubSeq(dict.block, kept + 1, Len(dict.block))]
          [] dict.state = DEFRAGMENTED -> [offs EXCEPT !.block = dict.block]

(* load(): ids are given anew, in the order of the index. *)
Load(f) ==
    [state |-> SYNC, block |-> f.block,
     index |-> [k \in 1..Len(f.offs) |-> [off |-> f.offs[k].off, rm |-> f.offs[k].rm,
                                          score |-> f.scores[k], id |-> k]],
     by_id |-> [k \in 1..Len(f.offs) |-> f.offs[k].off],
     preds |-> f.preds, syncs |-> f.syncs, left |-> PreAlloc,
     limit |-> f.info.limit, free_count |-> f.info.free_count,
     hits |-> NoCache, misses |-> NoCache]

(* validate() or reset(), the first half of load_dict. *)
Accepted(f) == IF Validate(f) THEN f ELSE EmptyFile

(* flush_cache: close_dict, load_dict, cache_init.  This object is the only
   one on its file: its load is always later than the last write, so
   close_dict always writes back. *)
FlushCache(dict, f, written) ==
    LET f2 == Accepted(WriteBack(dict, f, written))
    IN  [d |-> Load(f2), file |-> f2]

-----------------------------------------------------------------------------
NoRoomLate(dict) == dict.left < 0      \* variant: one lemma too late

NoRoom(dict) == dict.left = 0

LimitReached(dict) == dict.limit.count > 0 /\ Len(dict.index) >= dict.limit.count

(* _put_lemma with syncs_ in place: a lemma that is there gets a new score,
   another one is appended, after a flush when there is no room, and queued
   for sync.  Nothing happens at the limit. *)
PutLemma(dict, f, w, count, week) ==
    LET k     == LocateInOffsets(dict, w)
        score == BuildScore(week, count)
        room  == IF NoRoom(dict) THEN FlushCache(dict, f, dict.syncs)
                                  ELSE [d |-> dict, file |-> f]
        added == AppendALemma(room.d, w, score)
    IN  IF k # 0
        THEN [d |-> [dict EXCEPT !.index[k].score = score, !.state = Dirty(dict, SCORE_DIRTY)],
              file |-> f]
        ELSE IF LimitReached(dict) THEN [d |-> dict, file |-> f]
        ELSE [d |-> QueueLemmaForSync(added, Len(added.index)), file |-> room.file]

-----------------------------------------------------------------------------
(* The calls the input method makes on its object.  add_lma_to_userdict puts
   a phrase with count 1 and updates a chosen user lemma by (1, true);
   remove_lemma is offered by the interface.  A lemma id given to update or
   remove is one this load of the dictionary has handed out. *)
Init ==
    /\ file = EmptyFile
    /\ d = Load(EmptyFile)

Put(w, week) ==
    /\ LocateInOffsets(d, w) = 0 => Len(d.block) < MaxSlots /\ Len(d.syncs) < MaxSyncs
    /\ d' = PutLemma(d, file, w, 1, week).d
    /\ file' = PutLemma(d, file, w, 1, week).file

Update(id, week) ==
    /\ Len(d.syncs) < MaxSyncs
    /\ d' = UpdateLemma(d, id, 1, TRUE, week)
    /\ UNCHANGED file

Remove(id) ==
    /\ d' = RemoveLemma(d, id)
    /\ UNCHANGED file

Search(q, max) ==
    /\ d' = GetLpis(d, q, max)
    /\ UNCHANGED file

Flush ==
    /\ d' = FlushCache(d, file, d.syncs).d
    /\ file' = FlushCache(d, file, d.syncs).file

(* The process dies between two calls and the next one loads the file. *)
Restart ==
    /\ d' = Load(Accepted(file))
    /\ file' = Accepted(file)

Next ==
    \/ \E w \in Lemmas, week \in Weeks : Put(w, week)
    \/ \E id \in 1..Len(d.index), week \in Weeks : Update(id, week)
    \/ \E id \in 1..Len(d.index) : Remove(id)
    \/ \E q \in Queries, max \in Rooms : Search(q, max)
    \/ Flush
    \/ Restart

Spec == Init /\ [][Next]_vars

-----------------------------------------------------------------------------
(* Properties. *)

Positions == 1..Len(d.index)
Slots == 1..Len(d.block)

Score == 0..(WeekRange * FreqRange - 1)
Flagged == [off : Nat, rm : BOOLEAN]

(* The object's fields; what the search caches hold is LpisExact's matter. *)
DictTypes(dict) ==
    [state : SYNC..DEFRAGMENTED, block : Seq(Lemmas),
     index : Seq([off : Nat, rm : BOOLEAN, score : Score, id : Nat]),
     by_id : Seq(Nat), preds : Seq(Flagged), syncs : Seq(Nat), left : 0..PreAlloc,
     limit : [count : Nat, ratio : Nat], free_count : Nat,
     hits : {dict.hits}, misses : {dict.misses}]

(* The parallel arrays have one length (lemma_count); every offset, id and
   queue entry is within the array it points into. *)
InRange(dict) ==
    /\ Len(dict.block) = Len(dict.index)
    /\ Len(dict.by_id) = Len(dict.index)
    /\ Len(dict.preds) = Len(dict.index)
    /\ \A k \in 1..Len(dict.index) :
          /\ dict.index[k].off \in 1..Len(dict.block)
          /\ dict.index[k].id \in 1..Len(dict.index)
          /\ dict.by_id[k] \in 1..Len(dict.block)
          /\ dict.preds[k].off \in 1..Len(dict.block)
    /\ \A i \in 1..Len(dict.syncs) : dict.syncs[i] \in 1..Len(dict.block)

TypeOK == d \in DictTypes(d) /\ InRange(d)

(* offsets_ stays sorted by length and initials (removed entries included):
   the binary search of locate_first_in_offsets depends on it, and nothing
   but the insertion point chosen by append_a_lemma establishes it. *)
IndexSorted ==
    \A i, j \in Positions : i < j =>
        CompareAt(d.block, d.index, i, Searchable(LemmaAt(d.block, d.index, j).spl)) <= 0

(* The dictionary is loaded anew: by flush_cache, by the next process, and by
   the flush inside put_lemma.  load gives the ids anew (userdict.cpp:1195). *)
Reloads ==
    \/ Flush
    \/ Restart
    \/ \E w \in Lemmas, week \in Weeks :
          /\ NoRoom(d) /\ ~LimitReached(d) /\ LocateInOffsets(d, w) = 0
          /\ Put(w, week)

(* Where the entries with this id lie in the block. *)
SlotsOf(dict, id) ==
    {dict.index[k].off : k \in {j \in 1..Len(dict.index) : dict.index[j].id = id}}

(* An id that was handed out stands for the same lemma until the dictionary is
   loaded anew, wherever the entry of the index moves, and for one entry only:
   ids_ moves with the index, offsets_by_id_ does not, and an id is not given
   again after a removal.  A caller's id does not outlive a put that flushes. *)
IdsStay ==
    [][Reloads \/ \A id \in {d.index[k].id : k \in Positions} :
          /\ d'.by_id[id] = d.by_id[id]
          /\ d'.block[d'.by_id[id]] = d.block[d.by_id[id]]
          /\ SlotsOf(d', id) = {d.by_id[id]}]_vars

(* predicts_ lists exactly the lemmas of offsets_ with the same removal
   flags.  defragment takes lemma_count from the pass over predicts_ and
   applies it to offsets_. *)
PredictsMirrorOffsets ==
    /\ {d.preds[k] : k \in Positions} =
       {[off |-> d.index[k].off, rm |-> d.index[k].rm] : k \in Positions}
    /\ \A i, j \in Positions : i # j => d.preds[i].off # d.preds[j].off

(* Closing and loading again gives back the dictionary that was in memory,
   whatever sequence of calls set the dirty level: the segments write_back
   leaves alone are already right in the file. *)
ReloadRestores ==
    LET r == FlushCache(d, file, d.syncs).d
    IN  /\ r.block = d.block
        /\ OffsetsOf(r.index) = OffsetsOf(d.index)
        /\ ScoresOf(r.index) = ScoresOf(d.index)
        /\ r.preds = d.preds
        /\ r.syncs = d.syncs
        /\ r.free_count = d.free_count

Matching(s) == {k \in Positions : ~d.index[k].rm /\ EqualAt(d.block, d.index, k, s)}

(* Some search with these initials had no room for all of first..last: the
   range it cached ends with the last lemma it returned (userdict.cpp:563). *)
CutShort(dict, s, first, last) ==
    \E q \in Queries, max \in Rooms \ {0} :
        /\ Searchable(q).sig = s.sig
        /\ max <= Cardinality({k \in first..last :
                                  EqualAt(dict.block, dict.index, k, Searchable(q))})

(* The range cached for these initials was cut short, and K lies behind it. *)
BehindCut(dict, s, K) ==
    /\ HitsFor(dict, s) # {}
    /\ LET first == LoadCache(dict, s).start
           last  == first + LoadCache(dict, s).count - 1
       IN  CutShort(dict, s, first, last) /\ \A k \in K : k > last

(* get_lpis answers with the first lemmas in use whose spelling matches, no more
   than there is room for: from the hit cache, from the miss cache or by a new
   search alike.  It answers with fewer only from a range that was cut short. *)
LpisExact ==
    \A q \in Queries, max \in Rooms :
        LET all  == Matching(Searchable(q))
            got  == Lpis(d, q, max)
            rest == all \ got
        IN  /\ got \subseteq all /\ Cardinality(got) <= max
            /\ \A k \in got, j \in rest : k < j
            /\ rest # {} => Cardinality(got) = max \/ BehindCut(d, Searchable(q), rest)

(* The first syllables and Hanzi of lemma v are those of w. *)
Begins(v, w) ==
    /\ Len(w.spl) <= Len(v.spl)
    /\ \A i \in 1..Len(w.spl) : v.spl[i] = w.spl[i] /\ v.str[i] = w.str[i]

(* locate_in_offsets finds every lemma in use, through the cache too, unless it
   lies behind a range that was cut short.  For one that is not in use it finds
   nothing or a longer one in use which begins with it, as only the length of
   the lemma looked for is compared. *)
LocateFinds ==
    \A w \in Lemmas :
        LET k  == LocateInOffsets(d, w)
            at == {j \in Positions : ~d.index[j].rm /\ LemmaAt(d.block, d.index, j) = w}
        IN  /\ at # {} => k \in at \/ BehindCut(d, Searchable(w.spl), at)
            /\ k # 0 => ~d.index[k].rm /\ Begins(LemmaAt(d.block, d.index, k), w)

(* The dictionary as its users see it: the score of every lemma in use.  An
   object and a file show it alike. *)
StoreIn(block, offs, scores) ==
    [w \in Lemmas |->
        LET at == {k \in 1..Len(offs) : ~offs[k].rm /\ block[offs[k].off] = w}
        IN  IF at = {} THEN -1 ELSE scores[Least(at)]]

Store == INSTANCE LemmaStore WITH
            Word    <- Lemmas,
            ScoreOf <- Score,
            store   <- StoreIn(d.block, d.index, ScoresOf(d.index)),
            saved   <- StoreIn(file.block, file.offs, file.scores)

(* Seen through its calls the object is the plain store of LemmaStore: a call
   changes the score of one lemma and of no other, and the file always holds
   a whole dictionary that was in memory. *)
ImplementsStore == Store!Spec

=============================================================================
