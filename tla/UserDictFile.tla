---------------------------- MODULE UserDictFile ----------------------------
(***************************************************************************)
(* Several UserDict objects on one file (share/userdict.cpp): the mutex    *)
(* g_mutex_, the times load_time_ and g_last_update_ that tell a stale     *)
(* object, the file as validate, reset, load and write_back see it, one    *)
(* write at a time, and the death of the process between two of them.      *)
(*                                                                         *)
(* Each object is used by a thread of its own, as sync.h and the comments  *)
(* of userdict.cpp intend.  The file is a sequence of 16-bit units; a      *)
(* 32-bit number is a pair <<low, high>>.  An object keeps its arrays in   *)
(* the order of arrival: the sorting is the matter of UserDict.  The level *)
(* DEFRAGMENTED is reached in UserDictSync only.                           *)
(***************************************************************************)
EXTENDS Integers, Sequences, FiniteSets

SX == INSTANCE SequencesExt

CONSTANTS
    Objects,    \* the UserDict objects of the process
    Lemmas,     \* lemmas as the block holds them: header, spelling ids, Hanzi
    PreAlloc,   \* kUserDictPreAlloc
    Average,    \* 1 + 2 * kUserDictAverageNchar: units of the longest lemma
    MaxCalls,   \* bound of the model on calls, deaths included
    MaxOverlap, \* the same, once two calls have overlapped
    Nobody      \* the value of a free mutex

ASSUME MutexAssumption == Nobody \notin Objects

Units == 0..65535

ASSUME FileAssumption ==
    /\ PreAlloc \in Nat \ {0} /\ Average \in Nat
    /\ MaxCalls \in Nat /\ MaxOverlap \in Nat
    /\ Lemmas # {}
    /\ \A w \in Lemmas : w \in Seq(Units) /\ Len(w) <= Average

VARIABLES
    file,         \* the user dictionary file
    obj,          \* the objects
    mutex,        \* who holds g_mutex_
    last_update,  \* g_last_update_
    now,          \* what gettimeofday gave last
    calls,        \* calls made so far
    dead,         \* the process died
    hist          \* history: see HistInit

vars == <<file, obj, mutex, last_update, now, calls, dead, hist>>

NONE == 0
SYNC == 1
SYNC_DIRTY == 2
SCORE_DIRTY == 3
OFFSET_DIRTY == 4
LEMMA_DIRTY == 5

-----------------------------------------------------------------------------
(* 32-bit numbers and the layout of the file. *)
Pair(n) == <<n % 65536, n \div 65536>>

(* A number no file is long enough for stands for every greater one: nothing
   of that length can be read. *)
Huge == 16777216
Value(p) == IF p[2] > 255 THEN Huge ELSE p[1] + 65536 * p[2]

Version == <<57072, 2748>>         \* kUserDictVersion
InfoSize == 18                     \* UserDictInfo: nine 32-bit numbers
Remove(off) == <<off[1], 32768 + off[2]>>
Removed(off) == off[2] >= 32768

(* UserDictInfo; total_nfreq is read by nobody here. *)
InfoOf(o) ==
    <<o.ratio, o.limit, <<0, 0>>, Pair(Len(o.offs)), Pair(2 * Len(o.block)),
      Pair(o.freed), Pair(0), Pair(Len(o.syncs)), <<0, 0>>>>

Field(f, k) == LET at == Len(f) - InfoSize + 2 * k - 1 IN <<f[at], f[at + 1]>>
LemmaCount(f) == Value(Field(f, 4))
LemmaSize(f) == Value(Field(f, 5)) \div 2
SyncCount(f) == Value(Field(f, 8))

EmptyFile == Version \o [k \in 1..InfoSize |-> 0]

ValidateNoSize(f) == Len(f) >= 2 + InfoSize /\ SubSeq(f, 1, 2) = Version   \* variant

(* get_dict_file_size, in bytes: 4 + lemma_size + 12 * lemma_count +
   4 * sync_count + sizeof(UserDictInfo), in 32 bits. *)
DictFileSize(f) ==
    LET count == Field(f, 4)
        size  == Field(f, 5)
        syncs == Field(f, 8)
        low   == 4 + 2 * InfoSize + size[1] + 12 * count[1] + 4 * syncs[1]
        high  == size[2] + 12 * count[2] + 4 * syncs[2] + low \div 65536
    IN  <<low % 65536, high % 65536>>

(* validate: version and size. *)
Validate(f) ==
    /\ Len(f) >= 2 + InfoSize
    /\ SubSeq(f, 1, 2) = Version
    /\ DictFileSize(f) = Pair(2 * Len(f))

(* n numbers of the file from unit `at` on. *)
Pairs(f, at, n) == [k \in 1..n |-> <<f[at + 2 * k - 1], f[at + 2 * k]>>]

Loadable(f) ==
    /\ Len(f) >= InfoSize
    /\ 2 + LemmaSize(f) + 6 * LemmaCount(f) + 2 * SyncCount(f) <= Len(f)

(* lemma_count << 2 or sync_count << 2 loses bits: load reads the fewer numbers
   and works on with the count, beyond the arrays: the process dies of it. *)
Overruns(f) == Len(f) >= InfoSize /\ (Field(f, 4)[2] >= 16384 \/ Field(f, 8)[2] >= 16384)

(* What load reads. *)
Decoded(f) ==
    LET size == LemmaSize(f)
        n    == LemmaCount(f)
    IN  [block  |-> SubSeq(f, 3, 2 + size),
         offs   |-> Pairs(f, 2 + size, n),
         preds  |-> Pairs(f, 2 + size + 2 * n, n),
         scores |-> Pairs(f, 2 + size + 4 * n, n),
         syncs  |-> Pairs(f, 2 + size + 6 * n, SyncCount(f)),
         ratio  |-> Field(f, 1), limit |-> Field(f, 2), freed |-> Value(Field(f, 6))]

Memory(o) ==
    [block |-> o.block, offs |-> o.offs, preds |-> o.preds, scores |-> o.scores,
     syncs |-> o.syncs, ratio |-> o.ratio, limit |-> o.limit, freed |-> o.freed]

(* A list of numbers as write() puts it: two units each. *)
Written(seq) == [k \in 1..2 * Len(seq) |-> seq[(k + 1) \div 2][IF k % 2 = 1 THEN 1 ELSE 2]]

(* write_back: where the first write goes, and the writes. *)
Tail3(o) == <<Written(o.scores), Written(o.syncs), Written(InfoOf(o))>>
Tail5(o) == <<Written(o.offs), Written(o.preds)>> \o Tail3(o)

SegmentsNoPredicts(o) ==           \* variant: write_back_score forgets predicts_
    CASE o.state = SYNC_DIRTY   -> [at |-> 2 + Len(o.block) + 6 * Len(o.offs), segs |-> Tail(Tail3(o))]
      [] o.state = SCORE_DIRTY  -> [at |-> 2 + Len(o.block) + 2 * Len(o.offs), segs |-> Tail3(o)]
      [] o.state = OFFSET_DIRTY -> [at |-> 2 + Len(o.block), segs |-> Tail5(o)]
      [] o.state = LEMMA_DIRTY  ->
            LET fresh == PreAlloc * Average - o.room
                kept  == Len(o.block) - fresh
            IN  [at |-> 2 + kept, segs |-> <<SubSeq(o.block, kept + 1, Len(o.block))>> \o Tail5(o)]

Segments(o) ==
    CASE o.state = SYNC_DIRTY   -> [at |-> 2 + Len(o.block) + 6 * Len(o.offs), segs |-> Tail(Tail3(o))]
      [] o.state = SCORE_DIRTY  -> [at |-> 2 + Len(o.block) + 4 * Len(o.offs), segs |-> Tail3(o)]
      [] o.state = OFFSET_DIRTY -> [at |-> 2 + Len(o.block), segs |-> Tail5(o)]
      [] o.state = LEMMA_DIRTY  ->
            LET fresh == PreAlloc * Average - o.room
                kept  == Len(o.block) - fresh
            IN  [at |-> 2 + kept, segs |-> <<SubSeq(o.block, kept + 1, Len(o.block))>> \o Tail5(o)]

(* write(): behind the end of the file the gap is filled with zeros. *)
Overwritten(f, at, seg) ==
    [k \in 1..(IF at + Len(seg) > Len(f) THEN at + Len(seg) ELSE Len(f)) |->
        IF k > at /\ k <= at + Len(seg) THEN seg[k - at]
        ELSE IF k <= Len(f) THEN f[k] ELSE 0]

Truncated(f, n) == [k \in 1..n |-> IF k <= Len(f) THEN f[k] ELSE 0]

-----------------------------------------------------------------------------
(* The objects. *)
NoDict ==
    [state |-> NONE, block |-> <<>>, offs |-> <<>>, preds |-> <<>>, scores |-> <<>>,
     syncs |-> <<>>, ratio |-> <<0, 0>>, limit |-> <<0, 0>>, freed |-> 0,
     left |-> 0, room |-> 0, time |-> 0,
     pc |-> "idle", at |-> 0, segs |-> <<>>, then |-> <<>>, freed_name |-> FALSE]

Loaded(o, f) ==
    LET x == Decoded(f)
    IN  [o EXCEPT !.state = SYNC, !.block = x.block, !.offs = x.offs, !.preds = x.preds,
                  !.scores = x.scores, !.syncs = x.syncs, !.ratio = x.ratio, !.limit = x.limit,
                  !.freed = x.freed, !.left = PreAlloc, !.room = PreAlloc * Average,
                  !.freed_name = FALSE]

(* What close_dict leaves: nothing but the load time. *)
Closed(o) == [NoDict EXCEPT !.time = o.time, !.then = o.then]

Dirty(o, level) == IF o.state < level THEN level ELSE o.state

LemmaAtOffset(o, off) ==
    LET s == Value(off) \div 2
    IN  {w \in Lemmas : s + Len(w) <= Len(o.block) /\ SubSeq(o.block, s + 1, s + Len(w)) = w}

(* locate_in_offsets *)
Entries(o, w) == {k \in DOMAIN o.offs : ~Removed(o.offs[k]) /\ w \in LemmaAtOffset(o, o.offs[k])}
First(S) == CHOOSE k \in S : \A j \in S : k <= j

(* append_a_lemma and queue_lemma_for_sync *)
Append1(o, w) ==
    LET off == Pair(2 * Len(o.block))
    IN  [o EXCEPT !.block = @ \o w, !.offs = Append(@, off), !.preds = Append(@, off),
                  !.scores = Append(@, <<1, 0>>), !.syncs = Append(@, off),
                  !.left = @ - 1, !.room = @ - Len(w), !.state = Dirty(o, LEMMA_DIRTY)]

RemoveEntry(o, k) ==
    LET off  == o.offs[k]
        q    == {i \in DOMAIN o.syncs : o.syncs[i] = off}
    IN  [o EXCEPT !.offs[k] = Remove(off),
                  !.preds = [i \in DOMAIN @ |-> IF @[i] = off THEN Remove(off) ELSE @[i]],
                  !.syncs = IF q = {} THEN @
                            ELSE SX!Front([@ EXCEPT ![First(q)] = SX!Last(o.syncs)]),
                  !.freed = @ + 1, !.state = Dirty(o, OFFSET_DIRTY)]

UpdateEntry(o, k) ==
    [o EXCEPT !.scores[k] = <<@[1] + 1, @[2]>>, !.syncs = Append(@, o.offs[k]),
              !.state = Dirty(o, SCORE_DIRTY)]

Limited(o) == o.limit # <<0, 0>> /\ Len(o.offs) >= Value(o.limit)

-----------------------------------------------------------------------------
(* History: the number of write-backs, the one each object loaded or made,
   whether calls overlapped, whether the process died within a write, and the
   lemma blocks before and after the last write-back. *)
HistInit == [version |-> 0, base |-> [o \in Objects |-> 0], alone |-> TRUE, torn |-> FALSE,
          blocks |-> {}]

(* What a session before has left: a file of one lemma, open in all objects. *)
FileBefore ==
    LET w == CHOOSE w \in Lemmas : TRUE
        o == Append1([NoDict EXCEPT !.room = PreAlloc * Average, !.left = PreAlloc], w)
    IN  Version \o o.block \o Written(o.offs \o o.preds \o o.scores \o o.syncs \o InfoOf(o))

Init ==
    /\ file = FileBefore
    /\ obj = [o \in Objects |-> [Loaded(NoDict, FileBefore) EXCEPT !.time = 1]]
    /\ mutex = Nobody
    /\ last_update = 0 /\ now = 1 /\ calls = 0 /\ dead = FALSE
    /\ hist = HistInit

Sets(o, rec) == obj' = [obj EXCEPT ![o] = rec]

(* close_dict, then what `then` says; a clean object needs no lock. *)
Closing(rec, then) ==
    IF rec.state = SYNC THEN [Closed(rec) EXCEPT !.then = then, !.pc = "closed"]
                        ELSE [rec EXCEPT !.then = then, !.pc = "lock"]

Busy(o) == obj[o].pc # "idle"

Room == calls < MaxCalls /\ (hist.alone \/ calls < MaxOverlap)

(* A call begins. *)
Call(o) ==
    /\ ~dead /\ ~Busy(o) /\ Room
    /\ calls' = calls + 1
    /\ hist' = [hist EXCEPT !.alone = @ /\ \A p \in Objects : ~Busy(p)]

Open(o) ==
    /\ Call(o) /\ obj[o].state = NONE
    /\ Sets(o, [NoDict EXCEPT !.pc = "validate"])
    /\ UNCHANGED <<file, mutex, last_update, now, dead>>

Close(o) ==
    /\ Call(o) /\ obj[o].state # NONE
    /\ Sets(o, Closing(obj[o], <<"close">>))
    /\ UNCHANGED <<file, mutex, last_update, now, dead>>

(* flush_cache on a name that load_dict has freed is undefined. *)
Flush(o) ==
    /\ Call(o) /\ (obj[o].state # NONE \/ obj[o].freed_name)
    /\ IF obj[o].freed_name THEN dead' = TRUE /\ UNCHANGED obj
       ELSE Sets(o, Closing(obj[o], <<"load">>)) /\ UNCHANGED dead
    /\ UNCHANGED <<file, mutex, last_update, now>>

NoRoom(rec) == rec.left = 0

(* _put_lemma *)
Put(o, w) ==
    /\ Call(o) /\ obj[o].state # NONE
    /\ LET rec == obj[o] IN
         Sets(o, IF Entries(rec, w) # {}
                 THEN [rec EXCEPT !.scores[First(Entries(rec, w))] = <<1, 0>>,
                                  !.state = Dirty(rec, SCORE_DIRTY)]
                 ELSE IF Limited(rec) THEN rec
                 ELSE IF NoRoom(rec) THEN Closing(rec, <<"put", w>>)
                 ELSE Append1(rec, w))
    /\ UNCHANGED <<file, mutex, last_update, now, dead>>

Update(o, k) ==
    /\ Call(o)
    /\ Sets(o, UpdateEntry(obj[o], k))
    /\ UNCHANGED <<file, mutex, last_update, now, dead>>

RemoveLemma(o, k) ==
    /\ Call(o)
    /\ Sets(o, RemoveEntry(obj[o], k))
    /\ UNCHANGED <<file, mutex, last_update, now, dead>>

(* _get_lpis tries the lock to compare the times; it goes on without. *)
Search(o) ==
    /\ Call(o) /\ obj[o].state # NONE
    /\ IF mutex = Nobody THEN mutex' = o /\ Sets(o, [obj[o] EXCEPT !.pc = "compare"])
       ELSE UNCHANGED <<mutex, obj>>
    /\ UNCHANGED <<file, last_update, now, dead>>

CompareHoldsLock(o) ==              \* variant: flush_cache with the lock held
    /\ obj[o].pc = "compare"
    /\ mutex' = IF obj[o].time < last_update THEN mutex ELSE Nobody
    /\ Sets(o, IF obj[o].time < last_update THEN Closing(obj[o], <<"load">>)
               ELSE [obj[o] EXCEPT !.pc = "idle"])
    /\ UNCHANGED <<file, last_update, now, calls, dead, hist>>

Compare(o) ==
    /\ obj[o].pc = "compare" /\ mutex' = Nobody
    /\ Sets(o, IF obj[o].time < last_update THEN Closing(obj[o], <<"load">>)
               ELSE [obj[o] EXCEPT !.pc = "idle"])
    /\ UNCHANGED <<file, last_update, now, calls, dead, hist>>

-----------------------------------------------------------------------------
(* close_dict. *)
MayWriteTie(rec) == rec.time >= last_update     \* variant
MayWrite(rec) == rec.time > last_update

Lock(o) ==
    /\ obj[o].pc = "lock" /\ mutex = Nobody /\ mutex' = o
    /\ LET s == Segments(obj[o])
       IN  Sets(o, IF MayWrite(obj[o])
                   THEN [obj[o] EXCEPT !.pc = "write", !.at = s.at, !.segs = s.segs]
                   ELSE [obj[o] EXCEPT !.pc = "stale"])
    /\ hist' = [hist EXCEPT !.blocks = {obj[o].block} \union
                    IF Validate(file) THEN {Decoded(file).block} ELSE {}]
    /\ UNCHANGED <<file, last_update, now, calls, dead>>

Write(o) ==
    /\ obj[o].pc = "write" /\ obj[o].segs # <<>>
    /\ LET seg == Head(obj[o].segs)
       IN  /\ file' = Overwritten(file, obj[o].at, seg)
           /\ Sets(o, [obj[o] EXCEPT !.at = @ + Len(seg), !.segs = Tail(@)])
    /\ UNCHANGED <<mutex, last_update, now, calls, dead, hist>>

(* ftruncate, and the time of the update. *)
EndWrite(o) ==
    /\ obj[o].pc = "write" /\ obj[o].segs = <<>>
    /\ file' = Truncated(file, obj[o].at)
    /\ \E t \in {now, now + 1} : last_update' = t /\ now' = t
    /\ hist' = [hist EXCEPT !.version = @ + 1, !.base[o] = @ + 1]
    /\ Sets(o, [obj[o] EXCEPT !.pc = "saved"])
    /\ UNCHANGED <<mutex, calls, dead>>

Unlock(o) ==
    /\ obj[o].pc \in {"saved", "stale"} /\ mutex' = Nobody
    /\ Sets(o, [Closed(obj[o]) EXCEPT !.pc = "closed"])
    /\ UNCHANGED <<file, last_update, now, calls, dead, hist>>

AfterClose(o) ==
    /\ obj[o].pc = "closed"
    /\ Sets(o, IF obj[o].then = <<"close">> THEN [NoDict EXCEPT !.time = obj[o].time]
               ELSE [obj[o] EXCEPT !.pc = "validate"])
    /\ UNCHANGED <<file, mutex, last_update, now, calls, dead, hist>>

-----------------------------------------------------------------------------
(* load_dict. *)
ValidateFile(o) ==
    /\ obj[o].pc = "validate"
    /\ Sets(o, [obj[o] EXCEPT !.pc = IF Validate(file) THEN "load" ELSE "reset"])
    /\ UNCHANGED <<file, mutex, last_update, now, calls, dead, hist>>

(* reset: fopen cuts the file, fclose writes the buffer. *)
Reset(o) ==
    /\ obj[o].pc = "reset" /\ file' = <<>>
    /\ Sets(o, [obj[o] EXCEPT !.pc = "fill"])
    /\ UNCHANGED <<mutex, last_update, now, calls, dead, hist>>

Fill(o) ==
    /\ obj[o].pc = "fill" /\ file' = Overwritten(file, 0, EmptyFile)
    /\ Sets(o, [obj[o] EXCEPT !.pc = "load"])
    /\ UNCHANGED <<mutex, last_update, now, calls, dead, hist>>

(* load has failed.  A put that flushed goes on to append to lemmas_ NULL. *)
LoadFailed(o) ==
    /\ dead' = (dead \/ Head(obj[o].then \o <<"">>) = "put"
                     \/ (obj[o].pc = "read" /\ Overruns(file)))
    /\ Sets(o, [NoDict EXCEPT !.time = obj[o].time, !.freed_name = TRUE])

TryLockIgnored(o) ==                \* variant: reads whoever holds the lock
    /\ obj[o].pc = "load" /\ mutex' = o /\ Sets(o, [obj[o] EXCEPT !.pc = "read"])
    /\ UNCHANGED <<file, last_update, now, calls, dead, hist>>

TryLock(o) ==
    /\ obj[o].pc = "load"
    /\ IF mutex = Nobody
       THEN mutex' = o /\ Sets(o, [obj[o] EXCEPT !.pc = "read"]) /\ UNCHANGED dead
       ELSE LoadFailed(o) /\ UNCHANGED mutex
    /\ UNCHANGED <<file, last_update, now, calls, hist>>

Read(o) ==
    /\ obj[o].pc = "read" /\ mutex' = Nobody
    /\ IF Loadable(file)
       THEN /\ Sets(o, [Loaded(obj[o], file) EXCEPT !.pc = "stamp"]) /\ UNCHANGED dead
            /\ hist' = [hist EXCEPT !.base[o] = hist.version]
       ELSE LoadFailed(o) /\ UNCHANGED hist
    /\ UNCHANGED <<file, last_update, now, calls>>

StampKeepsTime(o) ==                \* variant: load_time_ is left as it was
    /\ obj[o].pc = "stamp"
    /\ LET rec == [obj[o] EXCEPT !.pc = "idle", !.then = <<>>]
       IN  Sets(o, IF Head(obj[o].then \o <<"">>) = "put" THEN Append1(rec, obj[o].then[2])
                   ELSE rec)
    /\ UNCHANGED <<file, mutex, last_update, now, calls, dead, hist>>

(* gettimeofday(&load_time_), after the lock is given back. *)
Stamp(o) ==
    /\ obj[o].pc = "stamp"
    /\ \E t \in {now, now + 1} :
          /\ now' = t
          /\ LET rec == [obj[o] EXCEPT !.pc = "idle", !.time = t, !.then = <<>>]
             IN  Sets(o, IF Head(obj[o].then \o <<"">>) = "put" THEN Append1(rec, obj[o].then[2])
                         ELSE rec)
    /\ UNCHANGED <<file, mutex, last_update, calls, dead, hist>>

Step(o) ==
    /\ ~dead
    /\ \/ Compare(o) \/ Lock(o) \/ Write(o) \/ EndWrite(o) \/ Unlock(o) \/ AfterClose(o)
       \/ ValidateFile(o) \/ Reset(o) \/ Fill(o) \/ TryLock(o) \/ Read(o) \/ Stamp(o)

-----------------------------------------------------------------------------
Known(o) == UNION {Entries(obj[o], w) : w \in Lemmas}

Calls(o) ==
    \/ Open(o) \/ Close(o) \/ Flush(o) \/ Search(o)
    \/ \E w \in Lemmas : Put(o, w)
    \/ \E k \in Known(o) : Update(o, k) \/ RemoveLemma(o, k)

Die ==
    /\ ~dead /\ Room /\ calls' = calls + 1
    /\ dead' = TRUE
    /\ UNCHANGED <<file, obj, mutex, last_update, now, hist>>

(* A new process: its statics are fresh. *)
Restart ==
    /\ dead /\ dead' = FALSE
    /\ obj' = [o \in Objects |-> NoDict] /\ mutex' = Nobody /\ last_update' = 0
    /\ hist' = [hist EXCEPT !.torn = @ \/ \E o \in Objects : obj[o].pc \in {"write", "fill"}]
    /\ UNCHANGED <<file, now, calls>>

Next == (\E o \in Objects : Calls(o) \/ Step(o)) \/ Die \/ Restart

Spec == Init /\ [][Next]_vars /\ \A o \in Objects : WF_vars(Step(o))

-----------------------------------------------------------------------------
(* Properties. *)

(* One call at a time so far, and no death within a write: what happens then
   is the business of the file alone. *)
Orderly == hist.alone /\ ~hist.torn

(* "If dictionary is written back by others, we can not simply write back
   here" (close_dict): an object writes only on the version it loaded. *)
SavesOnLatest == \A o \in Objects :
    Orderly /\ obj[o].pc = "write" => hist.base[o] = hist.version

(* ... and it does write then, unless its times cannot be told apart. *)
LatestSaves ==
    [][~dead => \A o \in Objects :
        Orderly /\ obj[o].pc = "lock" /\ obj'[o].pc # "lock"
            /\ hist.base[o] = hist.version /\ obj[o].time # last_update
        => obj'[o].pc = "write"]_vars

(* Whatever part of the file the dirty level leaves alone, the next load gets
   what the object had in memory, here or in another object. *)
SavedIsMemory == \A o \in Objects :
    Orderly /\ obj[o].pc = "saved" =>
        Validate(file) /\ Decoded(file) = Memory(obj[o])

(* A load reads under the lock: no write is under way. *)
ReadsBetweenWrites == \A o, p \in Objects : obj[o].pc = "read" => obj[p].pc # "write"

(* After a death in the middle of a write-back the file is refused, or its
   lemma block is that of before or of after. *)
TornKeepsLemmas ==
    Orderly /\ dead /\ (\E o \in Objects : obj[o].pc = "write") /\ Validate(file) =>
        \E b \in hist.blocks :
            /\ LemmaSize(file) = Len(b) /\ 2 + Len(b) <= Len(file)
            /\ \A k \in DOMAIN b : file[2 + k] = b[k]

(* Every call returns: the lock is given back on each path. *)
CallsReturn == \A o \in Objects : Busy(o) ~> (~Busy(o) \/ dead)

(* userdict.cpp:60, "File load and write are thread-safe by g_mutex_". *)
ResetsBetweenWrites == \A o, p \in Objects : obj[o].pc = "reset" => obj[p].pc # "write"
=============================================================================
