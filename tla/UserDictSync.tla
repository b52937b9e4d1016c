---------------------------- MODULE UserDictSync ----------------------------
(***************************************************************************)
(* Synchronising the user dictionary with a server: the object of the      *)
(* input method and the object of class Sync (share/sync.cpp) take turns   *)
(* on one file.  The Sync object downloads lemmas without queueing them,   *)
(* makes room at its limit by reclaim, defragment and flush, and uploads   *)
(* the queue the input method filled.                                      *)
(***************************************************************************)
EXTENDS UserDict

CONSTANTS
    SyncLimit,  \* kUserDictMaxLemmaCount and kUserDictRatio: [count, ratio]
    Buffers,    \* how many lemmas fit into the buffer given to get_lemmas
    JunkSlots,  \* what an uninitialised word of syncs_ may hold
    Counts      \* the frequencies the server sends

ASSUME SyncAssumption ==
    /\ SyncLimit.ratio \in 1..99                      \* 100 is assert(false)
    /\ SyncLimit.count * SyncLimit.ratio >= 100       \* a heap of size 0 is read
    /\ Buffers \subseteq Nat
    /\ JunkSlots \subseteq Nat /\ JunkSlots # {}
    /\ Counts \subseteq 0..MaxFrequency

VARIABLES
    phase,     \* the normal flow of sync.h: "ime", "put", "drain", "got"
    last_got,  \* last_count_
    sent       \* the lemmas written by the last get_lemmas (history)

syncVars == <<d, file, phase, last_got, sent>>

-----------------------------------------------------------------------------
(* reclaim(): a heap of the rc smallest scores seen so far, its largest on
   top.  Positions of the heap are 0-based as in the code. *)
Swapped(sop, p, q) == [sop EXCEPT ![p + 1] = sop[q + 1], ![q + 1] = sop[p + 1]]

(* One turn of the loop of shift_down: the entry at x.par changes places with
   its larger child.  It stays when there is none, and when the children tie. *)
ShiftTurn(x) ==
    LET n        == Len(x.sop)
        left     == 2 * x.par + 1
        right    == left + 1
        score(p) == x.sop[p + 1].score
        to(p)    == [sop |-> Swapped(x.sop, p, x.par), par |-> p]
    IN  IF left >= n THEN x
        ELSE IF /\ score(left) > score(x.par)
                /\ right < n => score(left) > score(right) THEN to(left)
        ELSE IF /\ right < n
                /\ score(right) > score(left) /\ score(right) > score(x.par) THEN to(right)
        ELSE x

(* shift_down: every turn goes down a level, so Len(sop) turns end the loop. *)
ShiftDown(sop, i) ==
    LET turn[j \in 0..Len(sop)] ==
            IF j = 0 THEN [sop |-> sop, par |-> i] ELSE ShiftTurn(turn[j - 1])
    IN  turn[Len(sop)].sop

(* An entry of `scores` that is smaller than the largest chosen takes its place. *)
Offer(scores, sop, i) ==
    IF scores[i] < sop[1].score
    THEN ShiftDown([sop EXCEPT ![1] = [score |-> scores[i], at |-> i]], 0) ELSE sop

(* The first rc scores as a heap. *)
FirstHeap(scores, rc) ==
    LET first == [i \in 1..rc |-> [score |-> scores[i], at |-> i]]
        half  == (rc + 1) \div 2
        heap[j \in 0..half + 1] ==
            IF j = 0 THEN first ELSE ShiftDown(heap[j - 1], (half + 1) - j)
    IN  heap[half + 1]

(* The positions of `scores` that reclaim removes, in heap order. *)
ReclaimVictims(scores, rc) ==
    LET chosen[j \in 0..Len(scores) - rc] ==
            IF j = 0 THEN FirstHeap(scores, rc) ELSE Offer(scores, chosen[j - 1], rc + j)
    IN  [i \in 1..rc |-> chosen[Len(scores) - rc][i].at]

Reclaim(dict) ==
    LET rc      == (Len(dict.index) * dict.limit.ratio) \div 100
        victims == ReclaimVictims(ScoresOf(dict.index), rc)
        removed[i \in 0..rc] ==
            IF i = 0 THEN dict ELSE RemoveLemmaByOffsetIndex(removed[i - 1], victims[i])
    IN  IF rc = 0 THEN dict ELSE removed[rc]

-----------------------------------------------------------------------------
(* The elements of s at the positions in P, in their order. *)
Rank(P, p) == Cardinality({q \in P : q <= p})
Packed(s, P) == [k \in 1..Cardinality(P) |-> s[CHOOSE p \in P : Rank(P, p) = k]]

(* Where slot s is when the removed slots have left the block. *)
Moved(gone, s) == s - Cardinality({g \in gone : g < s})

MovedQueueStays(dict, gone) == dict.syncs         \* variant: the queue is forgotten

(* The queue after the move: an offset of a removed lemma, or one beyond the
   block, stays as it is, and is then that of another lemma or of none. *)
MovedQueue(dict, gone) ==
    [i \in 1..Len(dict.syncs) |->
        IF dict.syncs[i] \in (1..Len(dict.block)) \ gone THEN Moved(gone, dict.syncs[i])
                                                         ELSE dict.syncs[i]]

(* defragment(): entries in use move to the front of both lists in their
   order, lemma_count becomes what the pass over predicts_ counted, removed
   lemmas leave the block, and every offset of a lemma in use follows it. *)
Defragment(dict) ==
    LET freed == {k \in 1..Len(dict.index) : dict.index[k].rm}
        inuse == (1..Len(dict.index)) \ freed
        gone  == {dict.index[k].off : k \in freed}
        preds == Packed(dict.preds, {k \in 1..Len(dict.preds) : ~dict.preds[k].rm})
        count == Len(preds)
        index == SubSeq(Packed(dict.index, inuse) \o Packed(dict.index, freed), 1, count)
    IN  IF gone = {} THEN dict
        ELSE [dict EXCEPT
                !.block = Packed(@, (1..Len(@)) \ gone),
                !.index = [k \in 1..count |-> [index[k] EXCEPT !.off = Moved(gone, @), !.id = k]],
                !.by_id = [k \in 1..count |-> Moved(gone, index[k].off)],
                !.preds = [k \in 1..count |-> [preds[k] EXCEPT !.off = Moved(gone, @)]],
                !.syncs = MovedQueue(dict, gone),
                !.free_count = 0,
                !.state = DEFRAGMENTED]

-----------------------------------------------------------------------------
(* put_lemma_no_sync: _put_lemma with syncs_ set to NULL meanwhile.  A flush
   inside it writes no sync segment (the write fails), loads a new syncs_,
   and the new lemma is queued in it; afterwards syncs_ is the old buffer
   again under the new sync_count. *)
PutOnce(dict, f, w, count, week, junk) ==
    LET k     == LocateInOffsets(dict, w)
        score == BuildScore(week, count)
        flush == FlushCache(dict, f, <<>>)
        fresh == AppendALemma(flush.d, w, score)
        queued == QueueLemmaForSync(fresh, Len(fresh.index))
    IN  IF k # 0
        THEN [d |-> [dict EXCEPT !.index[k].score = score, !.state = Dirty(dict, SCORE_DIRTY)],
              file |-> f, done |-> TRUE]
        ELSE IF LimitReached(dict) THEN [d |-> dict, file |-> f, done |-> FALSE]
        ELSE IF dict.left > 0
             THEN [d |-> AppendALemma(dict, w, score), file |-> f, done |-> TRUE]
        ELSE [d |-> [queued EXCEPT !.syncs = [i \in 1..Len(@) |->
                        IF i <= Len(dict.syncs) THEN dict.syncs[i] ELSE junk]],
              file |-> flush.file, done |-> TRUE]

(* What the retry starts from: room made at the limit, and a flush. *)
MadeRoom(dict, f) ==
    {FlushCache(small, f, small.syncs) : small \in {Defragment(Reclaim(dict))}}

(* The outcomes of put_lemma_no_sync, one for each content of the memory it
   reads: the first try, and a second one if that failed at the limit. *)
PutLemmaNoSync(dict, f, w, count, week) ==
    LET try(o) == {PutOnce(o.d, o.file, w, count, week, junk) : junk \in JunkSlots}
    IN  UNION {IF once.done \/ ~LimitReached(once.d) THEN {once}
               ELSE UNION {try(room) : room \in MadeRoom(once.d, once.file)}
                  : once \in try([d |-> dict, file |-> f])}

(* get_sync_lemmas_in_utf16le_string_from_beginning: entries whose lemma has
   no frequency cannot be formatted and are passed over.  An entry beyond the
   block reads stale memory, which may or may not format (`stale`). *)
Uploadable(dict, stale) ==
    {i \in 1..Len(dict.syncs) :
        IF dict.syncs[i] > Len(dict.block) THEN i \in stale
        ELSE LET k == LocateInOffsets(dict, dict.block[dict.syncs[i]])
             IN  k # 0 /\ ExtractFreq(dict.index[k].score) # 0}

FirstN(S, n) == {i \in S : Cardinality({j \in S : j <= i}) <= n}

GetSyncLemmas(dict, n) == IF n = 0 THEN dict ELSE [dict EXCEPT !.state = Dirty(dict, SYNC_DIRTY)]

ClearSyncLemmasOneMore(dict, end) ==             \* variant: off by one
    [dict EXCEPT !.syncs = SubSeq(@, end + 2, Len(@)), !.state = Dirty(dict, SYNC_DIRTY)]

(* clear_sync_lemmas(0, end); SubSeq covers the clamp of `end`. *)
ClearSyncLemmas(dict, end) ==
    [dict EXCEPT !.syncs = SubSeq(@, end + 1, Len(@)), !.state = Dirty(dict, SYNC_DIRTY)]

-----------------------------------------------------------------------------
SyncInit == Init /\ phase = "ime" /\ last_got = 0 /\ sent = {}

(* The input method on its object, as in UserDict. *)
ImePut(w, week) ==
    /\ phase = "ime"
    /\ Put(w, week)
    /\ UNCHANGED <<phase, last_got, sent>>

ImeUpdate(id, week) ==
    /\ phase = "ime"
    /\ Update(id, week)
    /\ UNCHANGED <<phase, last_got, sent>>

(* The input method closes the dictionary; Sync::begin loads it and sets the
   limit, which makes nothing dirty. *)
Begin ==
    /\ phase = "ime"
    /\ LET f == FlushCache(d, file, d.syncs)
       IN  /\ d' = [f.d EXCEPT !.limit = SyncLimit]
           /\ file' = f.file
    /\ phase' = "put"
    /\ UNCHANGED <<last_got, sent>>

(* Sync::put_lemmas, one lemma of the string. *)
Download(w, count, week) ==
    /\ phase = "put"
    /\ \E r \in PutLemmaNoSync(d, file, w, count, week) :
          /\ Len(r.d.block) <= MaxSlots
          /\ d' = r.d
          /\ file' = r.file
    /\ UNCHANGED <<phase, last_got, sent>>

(* Sync::get_lemmas into a buffer with room for `size` lemmas. *)
GetLemmas(size, stale) ==
    /\ phase \in {"put", "drain"}
    /\ LET got == FirstN(Uploadable(d, stale), size)
       IN  /\ last_got' = Cardinality(got)
           /\ sent' = {d.syncs[i] : i \in got}
           /\ d' = GetSyncLemmas(d, Cardinality(got))
    /\ phase' = "got"
    /\ UNCHANGED file

(* Sync::clear_last_got *)
ClearLastGot ==
    /\ phase = "got"
    /\ d' = ClearSyncLemmas(d, last_got)
    /\ last_got' = 0
    /\ phase' = "drain"
    /\ UNCHANGED <<file, sent>>

(* Sync::finish; the input method loads the dictionary again. *)
Finish ==
    /\ phase = "drain"
    /\ d' = FlushCache(d, file, d.syncs).d
    /\ file' = FlushCache(d, file, d.syncs).file
    /\ phase' = "ime"
    /\ sent' = {}
    /\ UNCHANGED last_got

SyncNext ==
    \/ \E w \in Lemmas, week \in Weeks : ImePut(w, week)
    \/ \E id \in 1..Len(d.index), week \in Weeks : ImeUpdate(id, week)
    \/ Begin
    \/ \E w \in Lemmas, count \in Counts, week \in Weeks : Download(w, count, week)
    \/ \E size \in Buffers, stale \in {{}, 1..Len(d.syncs)} : GetLemmas(size, stale)
    \/ ClearLastGot
    \/ Finish

SyncSpec == SyncInit /\ [][SyncNext]_syncVars

-----------------------------------------------------------------------------
(* Properties, next to those of UserDict that also hold here. *)

Queued(dict) == {dict.syncs[i] : i \in 1..Len(dict.syncs)}
LiveSlot(dict, slot) == \E k \in 1..Len(dict.index) : dict.index[k].off = slot /\ ~dict.index[k].rm

(* userdict.cpp, remove_lemma_by_offset_index, "Remove corresponding sync
   item": a removed lemma is in the queue no more. *)
SyncQueueLive == \A slot \in Queued(d) : LiveSlot(d, slot)

(* A lemma in use with a frequency, which get_lemmas can format. *)
Sendable(dict, slot) ==
    \E k \in 1..Len(dict.index) :
        /\ dict.index[k].off = slot
        /\ ~dict.index[k].rm
        /\ ExtractFreq(dict.index[k].score) # 0

(* A lemma in use has one entry, which is the one that locate_in_offsets finds,
   through downloads, reclaim, defragment and the reloads of both objects; of a
   lemma not in use it finds at most a longer one.  Synchronising searches no
   spellings: a range that a search cut short makes put_lemma append a stored
   lemma again. *)
FoundOnce ==
    \A w \in Lemmas :
        LET k  == LocateInOffsets(d, w)
            at == {j \in Positions : ~d.index[j].rm /\ LemmaAt(d.block, d.index, j) = w}
        IN  /\ at # {} => at = {k}
            /\ k # 0 => ~d.index[k].rm /\ Begins(LemmaAt(d.block, d.index, k), w)

(* The lemmas that the queue names, and those of them that can be sent. *)
LemmasAt(dict, slots) == {dict.block[slot] : slot \in slots \cap 1..Len(dict.block)}
QueuedLemmas(dict) == LemmasAt(dict, Queued(dict))
Waiting(dict) == LemmasAt(dict, {slot \in Queued(dict) : Sendable(dict, slot)})
LemmasInUse(dict) == LemmasAt(dict, {slot \in 1..Len(dict.block) : LiveSlot(dict, slot)})

(* A lemma of the user's that can be sent stays in the queue, through reloads,
   reclaim and defragment, until clear_last_got after get_lemmas has handed it
   out, although get_lemmas passes entries over and clear_sync_lemmas drops
   from the front as many as were handed out.  Only a download may take it out
   unsent, and only together with the lemma itself: at the limit reclaim removes
   lemmas with their entries, and the flush of a download without room loses the
   whole dictionary (DownloadKeepsDictionary). *)
UploadedBeforeDequeued ==
    [][\A w \in Waiting(d) \ QueuedLemmas(d') :
          \/ phase = "got" /\ w \in LemmasAt(d, sent)
          \/ phase = "put" /\ (LimitReached(d) \/ NoRoom(d)) /\ w \notin LemmasInUse(d')]_syncVars

(* userdict.h, put_lemma_no_sync, "without adding sync flag": what came from
   the server is not queued to go back to it, when there is room and, at the
   limit, through reclaim, defragment and the reload.  When there is no room
   below the limit it is: _put_lemma's own flush loads the dictionary with a new
   syncs_, which is no longer NULL, and queues the lemma (userdict.cpp:2101).
   Stated for a queue without duplicates: see SyncQueueLive. *)
DownloadNotQueued ==
    [][phase = "put" /\ phase' = "put" /\ (NoRoom(d) => LimitReached(d)) =>
          /\ Len(d'.syncs) <= Len(d.syncs)
          /\ Cardinality(Queued(d)) = Len(d.syncs) /\ SyncQueueLive =>
                QueuedLemmas(d') \subseteq QueuedLemmas(d)]_syncVars

(* sync.h, put_lemmas: "Merge lemmas downloaded from sync server into local
   dictionary".  Below the limit a merge keeps every lemma that was there. *)
DownloadKeepsDictionary ==
    [][phase = "put" /\ phase' = "put" /\ ~LimitReached(d) =>
          LemmasInUse(d) \subseteq LemmasInUse(d')]_syncVars

=============================================================================
