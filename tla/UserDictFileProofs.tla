------------------------- MODULE UserDictFileProofs -------------------------
(***************************************************************************)
(* Proofs about UserDictFile, for any number of objects, calls and lemmas: *)
(* the mutex keeps reads and writes of the file apart, an object writes    *)
(* only on the version it loaded, and what a load will find after a        *)
(* write-back is what the object had in memory.                            *)
(***************************************************************************)
EXTENDS UserDictFile, TLAPS, SequenceTheorems

(* The places in a call where an object holds g_mutex_. *)
Holding == {"compare", "write", "saved", "stale", "read"}

(* The fields of objects and history that the argument is about. *)
FieldsOK ==
    /\ DOMAIN obj = Objects
    /\ \A o \in Objects : {"pc", "time"} \subseteq DOMAIN obj[o]
    /\ {"version", "base", "alone"} \subseteq DOMAIN hist
    /\ hist.alone \in BOOLEAN
    /\ hist.version \in Nat
    /\ hist.base \in [Objects -> Nat]

LockHeld == \A o \in Objects : obj[o].pc \in Holding => mutex = o

(* As long as no calls overlapped, one object at most is inside a call. *)
OneBusy == hist.alone =>
    \A o, p \in Objects : obj[o].pc # "idle" /\ obj[p].pc # "idle" => o = p

TimesOK ==
    /\ now \in Nat /\ last_update \in Nat /\ last_update <= now
    /\ \A o \in Objects : obj[o].time \in Nat /\ obj[o].time <= now

(* An object that is newer than the last write has seen it. *)
Latest(o) ==
    obj[o].time > last_update \/ obj[o].pc \in {"write", "stamp"} =>
        hist.base[o] = hist.version

Fresh == hist.alone => \A o \in Objects : Latest(o)

IInv == FieldsOK /\ LockHeld /\ OneBusy /\ TimesOK /\ Fresh

-----------------------------------------------------------------------------
(* What a step of object o inside a call may do: nothing to the others, and
   to the mutex what the place it reaches allows. *)

OnlyChanges(o) ==
    /\ DOMAIN obj' = Objects
    /\ \A p \in Objects : p # o => obj'[p] = obj[p]
    /\ {"pc", "time"} \subseteq DOMAIN obj'[o]

MutexStep(o) ==
    \/ mutex' = mutex /\ (obj'[o].pc \in Holding => mutex = o)
    \/ mutex = Nobody /\ mutex' = o
    \/ mutex = o /\ mutex' = Nobody /\ obj'[o].pc \notin Holding

(* Sets(o, rec) changes the one object. *)
LEMMA SetsOnly ==
    ASSUME FieldsOK, NEW o \in Objects, NEW rec, {"pc", "time"} \subseteq DOMAIN rec,
           obj' = [obj EXCEPT ![o] = rec]
    PROVE  OnlyChanges(o) /\ obj'[o] = rec
BY DEF FieldsOK, OnlyChanges

(* No step takes the mutex from the one that holds it. *)
LEMMA LockStep ==
    ASSUME LockHeld, NEW o \in Objects, OnlyChanges(o), MutexStep(o)
    PROVE  LockHeld'
<1>1. Nobody \notin Objects
  BY MutexAssumption
<1> SUFFICES ASSUME NEW p \in Objects, obj'[p].pc \in Holding PROVE mutex' = p
  BY DEF LockHeld, Holding
<1>2. CASE p # o
  BY <1>1, <1>2 DEF LockHeld, OnlyChanges, MutexStep
<1>3. CASE p = o
  BY <1>3 DEF MutexStep
<1> QED
  BY <1>2, <1>3

(* A step inside a call that leaves history and times alone. *)
LEMMA InnerStep ==
    ASSUME IInv, NEW o \in Objects, OnlyChanges(o), MutexStep(o),
           obj[o].pc # "idle",
           UNCHANGED <<now, last_update>>,
           FieldsOK', UNCHANGED <<hist.version, hist.base, hist.alone>>,
           obj'[o].time = obj[o].time \/ obj'[o].time = 0,
           obj'[o].pc \in {"write", "stamp"} /\ hist.alone => hist.base[o] = hist.version
    PROVE  IInv'
<1>3. LockHeld'
  BY LockStep DEF IInv
<1>4. OneBusy'
  BY DEF IInv, OneBusy, OnlyChanges
<1>5. TimesOK'
  BY DEF IInv, TimesOK, OnlyChanges
<1>6. Fresh'
  <2> SUFFICES ASSUME hist.alone, NEW p \in Objects PROVE Latest(p)'
    BY DEF Fresh
  <2>1. Latest(p)
    BY DEF IInv, Fresh
  <2>2. CASE p # o
    BY <2>1, <2>2 DEF Latest, OnlyChanges
  <2>3. CASE p = o
    BY <2>1, <2>3 DEF Latest, IInv, TimesOK
  <2> QED
    BY <2>2, <2>3
<1> QED
  BY <1>3, <1>4, <1>5, <1>6 DEF IInv

(* A call of o that begins: the overlap, if there is one, ends `alone`. *)
LEMMA CallStep ==
    ASSUME IInv, NEW o \in Objects, OnlyChanges(o), MutexStep(o), Call(o),
           UNCHANGED <<now, last_update>>,
           obj'[o].time = obj[o].time \/ obj'[o].time = 0,
           obj'[o].pc \notin {"write", "stamp"}
    PROVE  IInv'
<1>1. hist' = [hist EXCEPT !.alone = hist.alone /\ \A p \in Objects : ~Busy(p)]
  BY DEF Call
<1> DEFINE quiet == hist.alone /\ \A p \in Objects : ~Busy(p)
<1>2. /\ hist'.version = hist.version /\ hist'.base = hist.base /\ hist'.alone = quiet
      /\ {"version", "base", "alone"} \subseteq DOMAIN hist'
  BY <1>1, Zenon DEF IInv, FieldsOK
<1>3. FieldsOK'
  BY <1>2 DEF IInv, FieldsOK, OnlyChanges
<1>4. LockHeld'
  BY LockStep DEF IInv
<1>5. OneBusy'
  BY <1>2, ZenonT(40) DEF OneBusy, OnlyChanges, Busy
<1>6. TimesOK'
  BY DEF IInv, TimesOK, OnlyChanges
<1>7. Fresh'
  <2> SUFFICES ASSUME hist.alone, NEW p \in Objects PROVE Latest(p)'
    BY <1>2 DEF Fresh
  <2>1. Latest(p)
    BY DEF IInv, Fresh
  <2>2. CASE p # o
    BY <1>2, <2>1, <2>2 DEF Latest, OnlyChanges
  <2>3. CASE p = o
    BY <1>2, <2>1, <2>3 DEF Latest, IInv, TimesOK
  <2> QED
    BY <2>2, <2>3
<1> QED
  BY <1>3, <1>4, <1>5, <1>6, <1>7 DEF IInv

-----------------------------------------------------------------------------
(* The records that the actions leave. *)

(* A closed dictionary keeps its load time. *)
LEMMA ClosedFields ==
    ASSUME NEW rec
    PROVE  /\ {"pc", "time"} \subseteq DOMAIN Closed(rec)
           /\ Closed(rec).time = rec.time
           /\ {"pc", "time"} \subseteq DOMAIN [Closed(rec) EXCEPT !.pc = "closed"]
           /\ [Closed(rec) EXCEPT !.pc = "closed"].pc = "closed"
           /\ [Closed(rec) EXCEPT !.pc = "closed"].time = rec.time
BY DEF Closed, NoDict

(* There is no dictionary at first. *)
LEMMA NoDictFields ==
    /\ {"pc", "time"} \subseteq DOMAIN NoDict /\ NoDict.pc = "idle" /\ NoDict.time = 0
BY DEF NoDict

(* close_dict goes to its write back, or is done. *)
LEMMA ClosingFields ==
    ASSUME NEW rec, {"pc", "time"} \subseteq DOMAIN rec, NEW then
    PROVE  /\ {"pc", "time"} \subseteq DOMAIN Closing(rec, then)
           /\ Closing(rec, then).pc \in {"closed", "lock"}
           /\ Closing(rec, then).time = rec.time
<1>1. CASE rec.state = SYNC
  BY <1>1 DEF Closing, Closed, NoDict
<1>2. CASE rec.state # SYNC
  BY <1>2 DEF Closing
<1> QED
  BY <1>1, <1>2

(* Changes of the entries leave the step and the load time alone. *)
LEMMA EntryFields ==
    ASSUME NEW rec, {"pc", "time"} \subseteq DOMAIN rec, NEW w, NEW k
    PROVE  /\ {"pc", "time"} \subseteq DOMAIN Append1(rec, w)
           /\ Append1(rec, w).pc = rec.pc /\ Append1(rec, w).time = rec.time
           /\ {"pc", "time"} \subseteq DOMAIN RemoveEntry(rec, k)
           /\ RemoveEntry(rec, k).pc = rec.pc /\ RemoveEntry(rec, k).time = rec.time
           /\ {"pc", "time"} \subseteq DOMAIN UpdateEntry(rec, k)
           /\ UpdateEntry(rec, k).pc = rec.pc /\ UpdateEntry(rec, k).time = rec.time
<1>1. /\ {"pc", "time"} \subseteq DOMAIN Append1(rec, w)
      /\ Append1(rec, w).pc = rec.pc /\ Append1(rec, w).time = rec.time
  BY DEF Append1
<1>2. /\ {"pc", "time"} \subseteq DOMAIN RemoveEntry(rec, k)
      /\ RemoveEntry(rec, k).pc = rec.pc /\ RemoveEntry(rec, k).time = rec.time
  BY DEF RemoveEntry
<1>3. /\ {"pc", "time"} \subseteq DOMAIN UpdateEntry(rec, k)
      /\ UpdateEntry(rec, k).pc = rec.pc /\ UpdateEntry(rec, k).time = rec.time
  BY DEF UpdateEntry
<1> QED
  BY <1>1, <1>2, <1>3

(* Reading the file leaves the load time to the step behind it. *)
LEMMA LoadedFields ==
    ASSUME NEW rec, {"pc", "time"} \subseteq DOMAIN rec, NEW f
    PROVE  /\ {"pc", "time"} \subseteq DOMAIN [Loaded(rec, f) EXCEPT !.pc = "stamp"]
           /\ [Loaded(rec, f) EXCEPT !.pc = "stamp"].pc = "stamp"
           /\ [Loaded(rec, f) EXCEPT !.pc = "stamp"].time = rec.time
BY DEF Loaded

-----------------------------------------------------------------------------
(* The calls. *)

(* load_dict begins. *)
LEMMA OpenStep ==
    ASSUME IInv, NEW o \in Objects, Open(o)
    PROVE  IInv'
<1> PICK rec : rec = [NoDict EXCEPT !.pc = "validate"]
  OBVIOUS
<1>1. {"pc", "time"} \subseteq DOMAIN rec /\ rec.pc = "validate" /\ rec.time = 0
  BY DEF NoDict
<1>2. OnlyChanges(o) /\ obj'[o] = rec
  BY <1>1, SetsOnly DEF Open, Sets, IInv
<1>3. MutexStep(o)
  BY <1>1, <1>2 DEF MutexStep, Open, Holding
<1> QED
  BY <1>1, <1>2, <1>3, CallStep DEF Open

(* close_dict begins. *)
LEMMA CloseStep ==
    ASSUME IInv, NEW o \in Objects, Close(o)
    PROVE  IInv'
<1> PICK rec : rec = Closing(obj[o], <<"close">>)
  OBVIOUS
<1>1. /\ {"pc", "time"} \subseteq DOMAIN rec /\ rec.pc \in {"closed", "lock"}
      /\ rec.time = obj[o].time
  BY ClosingFields DEF IInv, FieldsOK
<1>2. OnlyChanges(o) /\ obj'[o] = rec
  BY <1>1, SetsOnly DEF Close, Sets, IInv
<1>3. MutexStep(o)
  BY <1>1, <1>2 DEF MutexStep, Close, Holding
<1> QED
  BY <1>1, <1>2, <1>3, CallStep DEF Close

(* Calls that change no dictionary. *)
LEMMA StutterStep ==
    ASSUME IInv, NEW o \in Objects, Call(o), UNCHANGED <<obj, mutex, now, last_update>>
    PROVE  IInv'
<1>1. OnlyChanges(o)
  BY DEF IInv, FieldsOK, OnlyChanges
<1>2. MutexStep(o) /\ obj'[o].pc \notin {"write", "stamp"}
  BY DEF IInv, LockHeld, MutexStep, Call, Busy, Holding
<1> QED
  BY <1>1, <1>2, CallStep

(* flush_cache: close_dict and then load_dict. *)
LEMMA FlushStep ==
    ASSUME IInv, NEW o \in Objects, Flush(o)
    PROVE  IInv'
<1>1. CASE obj[o].freed_name
  BY <1>1, StutterStep DEF Flush
<1>2. CASE ~obj[o].freed_name
  <2> PICK rec : rec = Closing(obj[o], <<"load">>)
    OBVIOUS
  <2>1. /\ {"pc", "time"} \subseteq DOMAIN rec /\ rec.pc \in {"closed", "lock"}
        /\ rec.time = obj[o].time
    BY ClosingFields DEF IInv, FieldsOK
  <2>2. OnlyChanges(o) /\ obj'[o] = rec
    BY <1>2, <2>1, SetsOnly DEF Flush, Sets, IInv
  <2>3. MutexStep(o)
    BY <2>1, <2>2 DEF MutexStep, Flush, Holding
  <2> QED
    BY <2>1, <2>2, <2>3, CallStep DEF Flush
<1> QED
  BY <1>1, <1>2

(* A call that ends at once and keeps the load time of its object. *)
LEMMA SimpleCall ==
    ASSUME IInv, NEW o \in Objects, Call(o), UNCHANGED <<mutex, now, last_update>>,
           NEW rec, {"pc", "time"} \subseteq DOMAIN rec, rec.time = obj[o].time,
           rec.pc \in {"idle", "closed", "lock"}, Sets(o, rec)
    PROVE  IInv'
<1>1. OnlyChanges(o) /\ obj'[o] = rec
  BY SetsOnly DEF Sets, IInv
<1>2. MutexStep(o)
  BY <1>1 DEF MutexStep, Holding
<1> QED
  BY <1>1, <1>2, CallStep

(* put_lemma, with a close_dict where there is no room left. *)
LEMMA PutStep ==
    ASSUME IInv, NEW o \in Objects, NEW w \in Lemmas, Put(o, w)
    PROVE  IInv'
<1> DEFINE old == obj[o]
<1>1. {"pc", "time"} \subseteq DOMAIN old /\ old.pc = "idle"
  BY DEF IInv, FieldsOK, Put, Call, Busy
<1>2. Call(o) /\ UNCHANGED <<mutex, now, last_update>>
  BY DEF Put
<1>3. CASE Entries(old, w) # {}
  <2> PICK rec : rec = [old EXCEPT !.scores[First(Entries(old, w))] = <<1, 0>>,
                                   !.state = Dirty(old, SCORE_DIRTY)]
    OBVIOUS
  <2>1. Sets(o, rec)
    BY <1>3, Zenon DEF Put
  <2>2. {"pc", "time"} \subseteq DOMAIN rec /\ rec.pc = "idle" /\ rec.time = old.time
    BY <1>1
  <2> QED
    BY <1>2, <2>1, <2>2, SimpleCall
<1>4. CASE Entries(old, w) = {} /\ Limited(old)
  <2>1. Sets(o, old)
    BY <1>4, Zenon DEF Put
  <2> QED
    BY <1>1, <1>2, <2>1, SimpleCall
<1>5. CASE Entries(old, w) = {} /\ ~Limited(old) /\ NoRoom(old)
  <2> PICK rec : rec = Closing(old, <<"put", w>>)
    OBVIOUS
  <2>1. Sets(o, rec)
    BY <1>5, Zenon DEF Put
  <2>2. /\ {"pc", "time"} \subseteq DOMAIN rec /\ rec.pc \in {"closed", "lock"}
        /\ rec.time = old.time
    BY <1>1, ClosingFields
  <2> QED
    BY <1>2, <2>1, <2>2, SimpleCall
<1>6. CASE Entries(old, w) = {} /\ ~Limited(old) /\ ~NoRoom(old)
  <2> PICK rec : rec = Append1(old, w)
    OBVIOUS
  <2>1. Sets(o, rec)
    BY <1>6, Zenon DEF Put
  <2>2. {"pc", "time"} \subseteq DOMAIN rec /\ rec.pc = "idle" /\ rec.time = old.time
    BY <1>1, EntryFields
  <2> QED
    BY <1>2, <2>1, <2>2, SimpleCall
<1> QED
  BY <1>3, <1>4, <1>5, <1>6

(* update_lemma and remove_lemma. *)
LEMMA EntryStep ==
    ASSUME IInv, NEW o \in Objects, NEW k, Update(o, k) \/ RemoveLemma(o, k)
    PROVE  IInv'
<1>1. {"pc", "time"} \subseteq DOMAIN obj[o] /\ obj[o].pc = "idle"
  BY DEF IInv, FieldsOK, Update, RemoveLemma, Call, Busy
<1>2. PICK rec : rec \in {UpdateEntry(obj[o], k), RemoveEntry(obj[o], k)} /\ Sets(o, rec)
  BY Zenon DEF Update, RemoveLemma
<1>3. {"pc", "time"} \subseteq DOMAIN rec /\ rec.pc = "idle" /\ rec.time = obj[o].time
  BY <1>1, <1>2, EntryFields
<1>4. Call(o) /\ UNCHANGED <<mutex, now, last_update>>
  BY DEF Update, RemoveLemma
<1> QED
  BY <1>2, <1>3, <1>4, SimpleCall

(* A search takes the mutex to compare the times, or goes on without it. *)
LEMMA SearchStep ==
    ASSUME IInv, NEW o \in Objects, Search(o)
    PROVE  IInv'
<1>1. CASE mutex = Nobody
  <2> PICK rec : rec = [obj[o] EXCEPT !.pc = "compare"]
    OBVIOUS
  <2>1. {"pc", "time"} \subseteq DOMAIN rec /\ rec.pc = "compare" /\ rec.time = obj[o].time
    BY DEF IInv, FieldsOK
  <2>2. OnlyChanges(o) /\ obj'[o] = rec
    BY <1>1, <2>1, SetsOnly DEF Search, Sets, IInv
  <2>3. MutexStep(o)
    BY <1>1 DEF MutexStep, Search
  <2> QED
    BY <2>1, <2>2, <2>3, CallStep DEF Search
<1>2. CASE mutex # Nobody
  BY <1>2, StutterStep DEF Search
<1> QED
  BY <1>1, <1>2

-----------------------------------------------------------------------------
(* The steps inside a call. *)

(* One that keeps the history, or only its blocks and whether a death tore
   a write. *)
LEMMA SetStep ==
    ASSUME IInv, NEW o \in Objects, obj[o].pc # "idle",
           NEW rec, {"pc", "time"} \subseteq DOMAIN rec, Sets(o, rec),
           rec.time = obj[o].time \/ rec.time = 0,
           rec.pc \in {"write", "stamp"} /\ hist.alone => hist.base[o] = hist.version,
           \/ mutex' = mutex /\ (rec.pc \in Holding => mutex = o)
           \/ mutex = Nobody /\ mutex' = o
           \/ mutex = o /\ mutex' = Nobody /\ rec.pc \notin Holding,
           UNCHANGED <<now, last_update>>,
           UNCHANGED <<hist.version, hist.base, hist.alone>>,
           {"version", "base", "alone"} \subseteq DOMAIN hist'
    PROVE  IInv'
<1>1. OnlyChanges(o) /\ obj'[o] = rec
  BY SetsOnly DEF Sets, IInv
<1>2. MutexStep(o)
  BY <1>1 DEF MutexStep
<1>3. FieldsOK'
  BY <1>1 DEF IInv, FieldsOK, OnlyChanges
<1> QED
  BY <1>1, <1>2, <1>3, InnerStep

(* The times are compared: a dictionary that is behind closes to load again. *)
LEMMA CompareStep ==
    ASSUME IInv, NEW o \in Objects, Compare(o)
    PROVE  IInv'
<1>1. {"pc", "time"} \subseteq DOMAIN obj[o] /\ obj[o].pc = "compare" /\ mutex = o
  BY DEF IInv, FieldsOK, LockHeld, Holding, Compare
<1>2. PICK rec :
         /\ rec \in {Closing(obj[o], <<"load">>), [obj[o] EXCEPT !.pc = "idle"]}
         /\ Sets(o, rec)
  BY Zenon DEF Compare
<1>3. /\ {"pc", "time"} \subseteq DOMAIN rec /\ rec.time = obj[o].time
      /\ rec.pc \in {"closed", "lock", "idle"}
  BY <1>1, <1>2, ClosingFields
<1>4. mutex' = Nobody /\ UNCHANGED <<now, last_update, hist>>
  BY DEF Compare
<1>5. {"version", "base", "alone"} \subseteq DOMAIN hist
  BY DEF IInv, FieldsOK
<1> QED
  BY <1>1, <1>2, <1>3, <1>4, <1>5, SetStep DEF Holding

(* close_dict takes the mutex, and sees whether it may write. *)
LEMMA LockPreserves ==
    ASSUME IInv, NEW o \in Objects, Lock(o)
    PROVE  IInv'
<1>1. {"pc", "time"} \subseteq DOMAIN obj[o] /\ obj[o].pc = "lock"
  BY DEF IInv, FieldsOK, Lock
<1>2. PICK rec :
         /\ \/ MayWrite(obj[o]) /\ rec = [obj[o] EXCEPT !.pc = "write", !.at = Segments(obj[o]).at,
                                                        !.segs = Segments(obj[o]).segs]
            \/ rec = [obj[o] EXCEPT !.pc = "stale"]
         /\ Sets(o, rec)
  BY Zenon DEF Lock
<1>3. {"pc", "time"} \subseteq DOMAIN rec /\ rec.time = obj[o].time
  BY <1>1, <1>2
<1>4. rec.pc = "write" /\ hist.alone => hist.base[o] = hist.version
  <2>1. Latest(o) \/ ~hist.alone
    BY DEF IInv, Fresh
  <2> QED
    BY <1>1, <1>2, <2>1 DEF MayWrite, Latest
<1>5. rec.pc \in {"write", "stale"}
  BY <1>1, <1>2
<1>6. mutex = Nobody /\ mutex' = o /\ UNCHANGED <<now, last_update>>
  BY DEF Lock
<1>7. /\ UNCHANGED <<hist.version, hist.base, hist.alone>>
      /\ {"version", "base", "alone"} \subseteq DOMAIN hist'
  <2>1. {"version", "base", "alone"} \subseteq DOMAIN hist
    BY DEF IInv, FieldsOK
  <2>2. PICK blocks : hist' = [hist EXCEPT !.blocks = blocks]
    BY Zenon DEF Lock
  <2> QED
    BY <2>1, <2>2
<1> QED
  BY <1>1, <1>2, <1>3, <1>4, <1>5, <1>6, <1>7, SetStep

(* The file is written. *)
LEMMA WriteStep ==
    ASSUME IInv, NEW o \in Objects, Write(o)
    PROVE  IInv'
<1>1. {"pc", "time"} \subseteq DOMAIN obj[o] /\ obj[o].pc = "write" /\ mutex = o
  BY DEF IInv, FieldsOK, LockHeld, Holding, Write
<1> PICK rec : rec = [obj[o] EXCEPT !.at = obj[o].at + Len(Head(obj[o].segs)),
                                    !.segs = Tail(obj[o].segs)]
  OBVIOUS
<1>2. Sets(o, rec)
  BY Zenon DEF Write
<1>3. {"pc", "time"} \subseteq DOMAIN rec /\ rec.time = obj[o].time /\ rec.pc = "write"
  BY <1>1
<1>4. UNCHANGED <<mutex, now, last_update, hist>>
  BY DEF Write
<1>5. hist.alone => hist.base[o] = hist.version
  BY <1>1 DEF IInv, Fresh, Latest
<1>6. {"version", "base", "alone"} \subseteq DOMAIN hist
  BY DEF IInv, FieldsOK
<1> QED
  BY <1>1, <1>2, <1>3, <1>4, <1>5, <1>6, SetStep

(* The mutex is released, and the dictionary closed. *)
LEMMA UnlockStep ==
    ASSUME IInv, NEW o \in Objects, Unlock(o)
    PROVE  IInv'
<1>1. obj[o].pc \in {"saved", "stale"} /\ mutex = o
  BY DEF IInv, LockHeld, Holding, Unlock
<1> PICK rec : rec = [Closed(obj[o]) EXCEPT !.pc = "closed"]
  OBVIOUS
<1>2. Sets(o, rec)
  BY Zenon DEF Unlock
<1>3. {"pc", "time"} \subseteq DOMAIN rec /\ rec.time = obj[o].time /\ rec.pc = "closed"
  BY ClosedFields
<1>4. mutex' = Nobody /\ UNCHANGED <<now, last_update, hist>>
  BY DEF Unlock
<1>5. {"version", "base", "alone"} \subseteq DOMAIN hist
  BY DEF IInv, FieldsOK
<1> QED
  BY <1>1, <1>2, <1>3, <1>4, <1>5, SetStep DEF Holding

(* What the call goes on with behind its close_dict. *)
LEMMA AfterCloseStep ==
    ASSUME IInv, NEW o \in Objects, AfterClose(o)
    PROVE  IInv'
<1>1. {"pc", "time"} \subseteq DOMAIN obj[o] /\ obj[o].pc = "closed"
  BY DEF IInv, FieldsOK, AfterClose
<1>2. PICK rec :
         /\ rec \in {[NoDict EXCEPT !.time = obj[o].time], [obj[o] EXCEPT !.pc = "validate"]}
         /\ Sets(o, rec)
  BY Zenon DEF AfterClose
<1>3. /\ {"pc", "time"} \subseteq DOMAIN rec /\ rec.time = obj[o].time
      /\ rec.pc \in {"idle", "validate"}
  BY <1>1, <1>2 DEF NoDict
<1>4. UNCHANGED <<mutex, now, last_update, hist>>
  BY DEF AfterClose
<1>5. {"version", "base", "alone"} \subseteq DOMAIN hist
  BY DEF IInv, FieldsOK
<1> QED
  BY <1>1, <1>2, <1>3, <1>4, <1>5, SetStep DEF Holding

(* ValidateFile, Reset and Fill go to the next place and touch no lock. *)
LEMMA FileStep ==
    ASSUME IInv, NEW o \in Objects, ValidateFile(o) \/ Reset(o) \/ Fill(o)
    PROVE  IInv'
<1>1. {"pc", "time"} \subseteq DOMAIN obj[o] /\ obj[o].pc # "idle"
  BY DEF IInv, FieldsOK, ValidateFile, Reset, Fill
<1>2. PICK place : /\ place \in {"load", "reset", "fill"}
                   /\ Sets(o, [obj[o] EXCEPT !.pc = place])
  BY Zenon DEF ValidateFile, Reset, Fill
<1> PICK rec : rec = [obj[o] EXCEPT !.pc = place]
  OBVIOUS
<1>3. Sets(o, rec)
  BY <1>2, Zenon
<1>4. /\ {"pc", "time"} \subseteq DOMAIN rec /\ rec.time = obj[o].time
      /\ rec.pc \in {"load", "reset", "fill"}
  BY <1>1, <1>2
<1>5. UNCHANGED <<mutex, now, last_update, hist>>
  BY DEF ValidateFile, Reset, Fill
<1>6. {"version", "base", "alone"} \subseteq DOMAIN hist
  BY DEF IInv, FieldsOK
<1> QED
  BY <1>1, <1>3, <1>4, <1>5, <1>6, SetStep DEF Holding

(* A load that failed leaves no dictionary. *)
LEMMA FailedFields ==
    ASSUME NEW rec, NEW failed, failed = [NoDict EXCEPT !.time = rec.time, !.freed_name = TRUE]
    PROVE  {"pc", "time"} \subseteq DOMAIN failed /\ failed.pc = "idle" /\ failed.time = rec.time
BY DEF NoDict

(* load_dict tries the mutex, and fails without it. *)
LEMMA TryLockStep ==
    ASSUME IInv, NEW o \in Objects, TryLock(o)
    PROVE  IInv'
<1>1. {"pc", "time"} \subseteq DOMAIN obj[o] /\ obj[o].pc = "load"
  BY DEF IInv, FieldsOK, TryLock
<1>2. UNCHANGED <<now, last_update, hist>>
  BY DEF TryLock
<1>3. {"version", "base", "alone"} \subseteq DOMAIN hist
  BY DEF IInv, FieldsOK
<1>4. CASE mutex = Nobody
  <2> PICK rec : rec = [obj[o] EXCEPT !.pc = "read"]
    OBVIOUS
  <2>1. Sets(o, rec) /\ mutex' = o
    BY <1>4, Zenon DEF TryLock
  <2>2. {"pc", "time"} \subseteq DOMAIN rec /\ rec.time = obj[o].time /\ rec.pc = "read"
    BY <1>1
  <2> QED
    BY <1>1, <1>2, <1>3, <1>4, <2>1, <2>2, SetStep
<1>5. CASE mutex # Nobody
  <2> PICK rec : rec = [NoDict EXCEPT !.time = obj[o].time, !.freed_name = TRUE]
    OBVIOUS
  <2>1. Sets(o, rec) /\ mutex' = mutex
    BY <1>5, Zenon DEF TryLock, LoadFailed
  <2>2. {"pc", "time"} \subseteq DOMAIN rec /\ rec.time = obj[o].time /\ rec.pc = "idle"
    BY <1>1, FailedFields
  <2> QED
    BY <1>1, <1>2, <1>3, <2>1, <2>2, SetStep DEF Holding
<1> QED
  BY <1>4, <1>5

(* A read makes the object the latest; no other field of the history moves. *)
LEMMA ReadStep ==
    ASSUME IInv, NEW o \in Objects, Read(o)
    PROVE  IInv'
<1>1. {"pc", "time"} \subseteq DOMAIN obj[o] /\ obj[o].pc = "read" /\ mutex = o
  BY DEF IInv, FieldsOK, LockHeld, Holding, Read
<1>2. mutex' = Nobody /\ UNCHANGED <<now, last_update>>
  BY DEF Read
<1>3. CASE Loadable(file)
  <2> PICK rec : rec = [Loaded(obj[o], file) EXCEPT !.pc = "stamp"]
    OBVIOUS
  <2>1. Sets(o, rec) /\ hist' = [hist EXCEPT !.base[o] = hist.version]
    BY <1>3, Zenon DEF Read
  <2>2. {"pc", "time"} \subseteq DOMAIN rec /\ rec.time = obj[o].time /\ rec.pc = "stamp"
    BY <1>1, LoadedFields
  <2>3. OnlyChanges(o) /\ obj'[o] = rec
    BY <2>1, <2>2, SetsOnly DEF Sets, IInv
  <2>4. /\ {"version", "base", "alone"} \subseteq DOMAIN hist'
        /\ hist'.version = hist.version /\ hist'.alone = hist.alone
        /\ hist'.base = [hist.base EXCEPT ![o] = hist.version]
    BY <2>1 DEF IInv, FieldsOK
  <2>5. FieldsOK'
    BY <2>3, <2>4 DEF IInv, FieldsOK, OnlyChanges
  <2>6. LockHeld'
    BY <1>1, <1>2, <2>2, <2>3, LockStep DEF IInv, MutexStep, Holding
  <2>7. OneBusy'
    BY <1>1, <2>2, <2>3, <2>4 DEF IInv, OneBusy, OnlyChanges
  <2>8. TimesOK'
    BY <1>2, <2>2, <2>3 DEF IInv, TimesOK, OnlyChanges
  <2>9. Fresh'
    BY <1>2, <2>3, <2>4 DEF IInv, FieldsOK, Fresh, Latest, OnlyChanges
  <2> QED
    BY <2>5, <2>6, <2>7, <2>8, <2>9 DEF IInv
<1>4. CASE ~Loadable(file)
  <2> PICK rec : rec = [NoDict EXCEPT !.time = obj[o].time, !.freed_name = TRUE]
    OBVIOUS
  <2>1. Sets(o, rec) /\ UNCHANGED hist
    BY <1>4, Zenon DEF Read, LoadFailed
  <2>2. {"pc", "time"} \subseteq DOMAIN rec /\ rec.time = obj[o].time /\ rec.pc = "idle"
    BY <1>1, FailedFields
  <2>3. {"version", "base", "alone"} \subseteq DOMAIN hist
    BY DEF IInv, FieldsOK
  <2> QED
    BY <1>1, <1>2, <2>1, <2>2, <2>3, SetStep DEF Holding
<1> QED
  BY <1>3, <1>4

(* The new load time may pass last_update: the object has read since. *)
LEMMA StampStep ==
    ASSUME IInv, NEW o \in Objects, Stamp(o)
    PROVE  IInv'
<1>1. {"pc", "time"} \subseteq DOMAIN obj[o] /\ obj[o].pc = "stamp"
  BY DEF IInv, FieldsOK, Stamp
<1>2. PICK t \in {now, now + 1} :
         /\ now' = t
         /\ LET rec == [obj[o] EXCEPT !.pc = "idle", !.time = t, !.then = <<>>]
            IN  Sets(o, rec) \/ Sets(o, Append1(rec, obj[o].then[2]))
  BY Zenon DEF Stamp
<1>a. PICK rec :
         /\ rec = [obj[o] EXCEPT !.pc = "idle", !.time = t, !.then = <<>>]
         /\ Sets(o, rec) \/ Sets(o, Append1(rec, obj[o].then[2]))
  BY <1>2, Zenon
<1>3. {"pc", "time"} \subseteq DOMAIN rec /\ rec.pc = "idle" /\ rec.time = t
  BY <1>1, <1>a
<1>4. PICK new : new \in {rec, Append1(rec, obj[o].then[2])} /\ Sets(o, new)
  BY <1>a, Zenon
<1>5. {"pc", "time"} \subseteq DOMAIN new /\ new.pc = "idle" /\ new.time = t
  BY <1>3, <1>4, EntryFields
<1>6. OnlyChanges(o) /\ obj'[o] = new
  BY <1>4, <1>5, SetsOnly DEF Sets, IInv
<1>7. UNCHANGED <<mutex, last_update, hist>>
  BY DEF Stamp
<1>8. FieldsOK'
  BY <1>6, <1>7 DEF IInv, FieldsOK, OnlyChanges
<1>9. LockHeld'
  BY <1>5, <1>6, <1>7, LockStep DEF IInv, MutexStep, Holding
<1>10. OneBusy'
  BY <1>5, <1>6, <1>7 DEF IInv, OneBusy, OnlyChanges
<1>11. TimesOK'
  BY <1>2, <1>5, <1>6, <1>7 DEF IInv, TimesOK, OnlyChanges
<1>12. Fresh'
  BY <1>1, <1>6, <1>7 DEF IInv, Fresh, Latest, OnlyChanges
<1> QED
  BY <1>8, <1>9, <1>10, <1>11, <1>12 DEF IInv

(* The last write-back is now this object's; no other object's load time is
   later than it, and no other object is inside a call. *)
LEMMA EndWriteStep ==
    ASSUME IInv, NEW o \in Objects, EndWrite(o)
    PROVE  IInv'
<1>1. {"pc", "time"} \subseteq DOMAIN obj[o] /\ obj[o].pc = "write" /\ mutex = o
  BY DEF IInv, FieldsOK, LockHeld, Holding, EndWrite
<1> PICK rec : rec = [obj[o] EXCEPT !.pc = "saved"]
  OBVIOUS
<1>2. Sets(o, rec)
  BY Zenon DEF EndWrite
<1>3. {"pc", "time"} \subseteq DOMAIN rec /\ rec.pc = "saved" /\ rec.time = obj[o].time
  BY <1>1
<1>4. OnlyChanges(o) /\ obj'[o] = rec
  BY <1>2, <1>3, SetsOnly DEF Sets, IInv
<1>5. PICK t \in {now, now + 1} : last_update' = t /\ now' = t
  BY Zenon DEF EndWrite
<1>6. hist' = [hist EXCEPT !.version = hist.version + 1, !.base[o] = hist.base[o] + 1]
  BY Zenon DEF EndWrite
<1>7. /\ {"version", "base", "alone"} \subseteq DOMAIN hist'
      /\ hist'.version = hist.version + 1 /\ hist'.alone = hist.alone
      /\ hist'.base = [hist.base EXCEPT ![o] = hist.base[o] + 1]
  BY <1>6 DEF IInv, FieldsOK
<1>8. FieldsOK'
  BY <1>4, <1>7 DEF IInv, FieldsOK, OnlyChanges
<1>9. LockHeld'
  BY <1>1, <1>3, <1>4, LockStep DEF IInv, MutexStep, EndWrite
<1>10. OneBusy'
  BY <1>1, <1>4, <1>7 DEF IInv, OneBusy, OnlyChanges
<1>11. TimesOK'
  BY <1>3, <1>4, <1>5 DEF IInv, TimesOK, OnlyChanges
<1>12. Fresh'
  <2> SUFFICES ASSUME hist.alone, NEW p \in Objects PROVE Latest(p)'
    BY <1>7 DEF Fresh
  <2>1. CASE p = o
    <3>1. hist.base[o] = hist.version
      BY <1>1 DEF IInv, Fresh, Latest
    <3> QED
      BY <1>7, <2>1, <3>1 DEF Latest, IInv, FieldsOK
  <2>2. CASE p # o
    <3>1. obj[p].pc = "idle" /\ obj[p].time <= now
      BY <1>1, <2>2 DEF IInv, OneBusy, TimesOK
    <3>2. obj'[p].pc = "idle" /\ ~(obj'[p].time > last_update')
      BY <1>4, <1>5, <2>2, <3>1 DEF OnlyChanges, IInv, TimesOK
    <3> QED
      BY <3>2 DEF Latest
  <2> QED
    BY <2>1, <2>2
<1> QED
  BY <1>8, <1>9, <1>10, <1>11, <1>12 DEF IInv

-----------------------------------------------------------------------------
(* The beginning and the whole. *)

(* In the beginning no object has a dictionary. *)
LEMMA InitInv == Init => IInv
<1> SUFFICES ASSUME Init PROVE IInv
  OBVIOUS
<1> PICK rec : rec = [Loaded(NoDict, FileBefore) EXCEPT !.time = 1]
  OBVIOUS
<1>1. {"pc", "time"} \subseteq DOMAIN rec /\ rec.pc = "idle" /\ rec.time = 1
  BY DEF Loaded, NoDict
<1>2. obj = [o \in Objects |-> rec]
  BY DEF Init
<1>3. last_update = 0 /\ now = 1 /\ hist = HistInit
  BY DEF Init
<1>4. FieldsOK
  BY <1>1, <1>2, <1>3 DEF FieldsOK, HistInit
<1>5. LockHeld /\ OneBusy
  BY <1>1, <1>2 DEF LockHeld, OneBusy, Holding
<1>6. TimesOK
  BY <1>1, <1>2, <1>3 DEF TimesOK
<1>7. Fresh
  BY <1>2, <1>3 DEF Fresh, Latest, HistInit
<1> QED
  BY <1>4, <1>5, <1>6, <1>7 DEF IInv

(* A restart of the process forgets the objects. *)
LEMMA RestartStep ==
    ASSUME IInv, Restart
    PROVE  IInv'
<1>1. obj' = [o \in Objects |-> NoDict] /\ last_update' = 0 /\ now' = now
  BY DEF Restart
<1>2. PICK torn : hist' = [hist EXCEPT !.torn = torn]
  BY Zenon DEF Restart
<1>3. /\ {"version", "base", "alone"} \subseteq DOMAIN hist'
      /\ UNCHANGED <<hist.version, hist.base, hist.alone>>
  BY <1>2 DEF IInv, FieldsOK
<1>4. FieldsOK'
  BY <1>1, <1>3, NoDictFields DEF IInv, FieldsOK
<1>5. (LockHeld /\ OneBusy)'
  BY <1>1, NoDictFields DEF LockHeld, OneBusy, Holding
<1>6. TimesOK'
  BY <1>1, NoDictFields DEF IInv, TimesOK
<1>7. Fresh'
  BY <1>1, NoDictFields DEF Fresh, Latest
<1> QED
  BY <1>4, <1>5, <1>6, <1>7 DEF IInv

(* A step that changes nothing. *)
LEMMA StutterInv ==
    ASSUME IInv, UNCHANGED <<obj, mutex, last_update, now, hist>>
    PROVE  IInv'
BY DEF IInv, FieldsOK, LockHeld, OneBusy, TimesOK, Fresh, Latest

(* Every step preserves the invariant. *)
LEMMA NextInv == IInv /\ [Next]_vars => IInv'
<1> SUFFICES ASSUME IInv, [Next]_vars PROVE IInv'
  OBVIOUS
<1>1. CASE UNCHANGED vars
  BY <1>1, StutterInv DEF vars
<1>2. CASE Die
  BY <1>2, StutterInv DEF Die
<1>3. CASE Restart
  BY <1>3, RestartStep
<1>4. ASSUME NEW o \in Objects, Calls(o) PROVE IInv'
  BY <1>4, OpenStep, CloseStep, FlushStep, SearchStep, PutStep, EntryStep DEF Calls
<1>5. ASSUME NEW o \in Objects, Step(o) PROVE IInv'
  BY <1>5, CompareStep, LockPreserves, WriteStep, EndWriteStep, UnlockStep, AfterCloseStep,
     FileStep, TryLockStep, ReadStep, StampStep DEF Step
<1> QED
  BY <1>1, <1>2, <1>3, <1>4, <1>5 DEF Next

(* Mutual exclusion and freshness hold in every state, however many objects,
   calls and deaths there are. *)
THEOREM Invariance == Spec => []IInv
BY InitInv, NextInv, PTL DEF Spec

(* No object reads the file while another is between two of its writes: what
   g_mutex_ in load and close_dict is for. *)
THEOREM ReadsExclusive == Spec => []ReadsBetweenWrites
<1>1. IInv => ReadsBetweenWrites
  BY DEF IInv, LockHeld, Holding, ReadsBetweenWrites
<1> QED
  BY <1>1, Invariance, PTL

(* As long as calls do not overlap, close_dict writes back only what was
   loaded from, or appended to, the last version of the file: the comparison
   of load_time_ with g_last_update_ is enough. *)
THEOREM SavesLatest == Spec => []SavesOnLatest
<1>1. IInv => SavesOnLatest
  BY DEF IInv, Fresh, Latest, SavesOnLatest, Orderly
<1> QED
  BY <1>1, Invariance, PTL

-----------------------------------------------------------------------------
(* An object that has the latest version is not refused when it writes it     *)
(* back: its load time is that of the last write at least.                     *)

(* The places in a call where an object surely has a dictionary. *)
Opened == {"compare", "lock", "stamp"}

(* The second part: an object without a dictionary has nothing to update.  The
   third: an object that loaded or made the latest version got its load time
   after the write, except that load is not stamped yet, or that it is closing. *)
Timed(o) ==
    /\ hist.base[o] <= hist.version
    /\ obj[o].offs # <<>> \/ obj[o].pc \in Opened => obj[o].state # NONE
    /\ obj[o].state # NONE /\ obj[o].pc \notin {"stamp", "saved"}
          /\ hist.base[o] = hist.version
       => obj[o].time >= last_update

TInv == \A o \in Objects : {"state", "offs"} \subseteq DOMAIN obj[o] /\ Timed(o)

(* What a step of o may make of its record so that Timed(o) stays. *)
Keeps(o, rec) ==
    \/ rec.state = NONE /\ rec.offs = <<>> /\ rec.pc \notin Opened
    \/ rec.state # NONE /\ (rec.pc = "stamp" \/ rec.time >= last_update)
    \/ /\ rec.time = obj[o].time /\ obj[o].pc \notin {"stamp", "saved"}
       /\ \/ obj[o].state # NONE /\ rec.state # NONE
          \/ /\ rec.state = obj[o].state /\ rec.offs = obj[o].offs
             /\ rec.pc \notin Opened

Fields == {"pc", "time", "state", "offs"}

(* Fields of one record, for the steps below. *)
LEMMA FieldsThere ==
    ASSUME IInv, TInv, NEW o \in Objects
    PROVE  Fields \subseteq DOMAIN obj[o]
BY DEF IInv, FieldsOK, TInv, Fields

(* A step of o that leaves the times and the versions alone. *)
LEMMA TimedStep ==
    ASSUME IInv, TInv, NEW o \in Objects, NEW rec, Sets(o, rec),
           Fields \subseteq DOMAIN rec, Keeps(o, rec),
           last_update' = last_update, UNCHANGED <<hist.version, hist.base>>
    PROVE  TInv'
<1>1. /\ DOMAIN obj = Objects /\ hist.version \in Nat /\ hist.base[o] \in Nat
      /\ last_update \in Nat
  BY DEF IInv, FieldsOK, TimesOK
<1>2. obj'[o] = rec /\ \A p \in Objects : p # o => obj'[p] = obj[p]
  BY <1>1 DEF Sets
<1>3. Timed(o)
  BY DEF TInv
<1>4. Timed(o)'
  BY <1>1, <1>2, <1>3 DEF Timed, Keeps, Opened, NONE
<1>5. \A p \in Objects : p # o => Timed(p)'
  BY <1>2 DEF TInv, Timed
<1> QED
  BY <1>2, <1>4, <1>5 DEF TInv, Fields

(* No write, no version and no time moves: the records stay as they are. *)
LEMMA TimedStutter ==
    ASSUME TInv, UNCHANGED <<obj, last_update>>, UNCHANGED <<hist.version, hist.base>>
    PROVE  TInv'
BY DEF TInv, Timed

(* What close_dict and an empty object keep of the record. *)
LEMMA EmptyFields ==
    ASSUME NEW rec
    PROVE  /\ Fields \subseteq DOMAIN Closed(rec)
           /\ Closed(rec).state = NONE /\ Closed(rec).offs = <<>>
           /\ Fields \subseteq DOMAIN NoDict
           /\ NoDict.state = NONE /\ NoDict.offs = <<>>
BY DEF Closed, NoDict, Fields

(* close_dict begins: the record is emptied at once, or it waits for the lock. *)
LEMMA ClosingTimed ==
    ASSUME NEW rec, Fields \subseteq DOMAIN rec, rec.state # NONE, NEW then
    PROVE  /\ Fields \subseteq DOMAIN Closing(rec, then)
           /\ Closing(rec, then).time = rec.time
           /\ \/ /\ Closing(rec, then).state = NONE /\ Closing(rec, then).offs = <<>>
                 /\ Closing(rec, then).pc = "closed"
              \/ Closing(rec, then).state # NONE
<1>1. CASE rec.state = SYNC
  BY <1>1 DEF Closing, Closed, NoDict, Fields
<1>2. CASE rec.state # SYNC
  BY <1>2 DEF Closing, Fields
<1> QED
  BY <1>1, <1>2

(* A change of a lemma keeps the dictionary there and the load time. *)
LEMMA EntryTimed ==
    ASSUME NEW rec, Fields \subseteq DOMAIN rec, rec.state # NONE, NEW w, NEW k
    PROVE  /\ Fields \subseteq DOMAIN Append1(rec, w)
           /\ Append1(rec, w).state # NONE /\ Append1(rec, w).time = rec.time
           /\ Fields \subseteq DOMAIN RemoveEntry(rec, k)
           /\ RemoveEntry(rec, k).state # NONE /\ RemoveEntry(rec, k).time = rec.time
           /\ Fields \subseteq DOMAIN UpdateEntry(rec, k)
           /\ UpdateEntry(rec, k).state # NONE /\ UpdateEntry(rec, k).time = rec.time
<1>1. \A level \in {SCORE_DIRTY, OFFSET_DIRTY, LEMMA_DIRTY} : Dirty(rec, level) # NONE
  BY DEF Dirty, SCORE_DIRTY, OFFSET_DIRTY, LEMMA_DIRTY, NONE
<1>2. /\ Fields \subseteq DOMAIN Append1(rec, w)
      /\ Append1(rec, w).state # NONE /\ Append1(rec, w).time = rec.time
  BY <1>1 DEF Append1, Fields
<1>3. /\ Fields \subseteq DOMAIN RemoveEntry(rec, k)
      /\ RemoveEntry(rec, k).state # NONE /\ RemoveEntry(rec, k).time = rec.time
  BY <1>1 DEF RemoveEntry, Fields
<1>4. /\ Fields \subseteq DOMAIN UpdateEntry(rec, k)
      /\ UpdateEntry(rec, k).state # NONE /\ UpdateEntry(rec, k).time = rec.time
  BY <1>1 DEF UpdateEntry, Fields
<1> QED
  BY <1>2, <1>3, <1>4

(* The beginning of a call leaves versions and bases alone. *)
LEMMA CallVersions ==
    ASSUME IInv, NEW o \in Objects, Call(o)
    PROVE  UNCHANGED <<hist.version, hist.base>>
<1>1. PICK quiet : hist' = [hist EXCEPT !.alone = quiet]
  BY Zenon DEF Call
<1> QED
  BY <1>1 DEF IInv, FieldsOK

(* A call that changes the lemmas, or begins to close: it finds a dictionary. *)
LEMMA TimedCall ==
    ASSUME IInv, TInv, NEW o \in Objects, Call(o), obj[o].state # NONE,
           last_update' = last_update, NEW rec, Sets(o, rec), Fields \subseteq DOMAIN rec,
           rec.time = obj[o].time,
           \/ rec.state = NONE /\ rec.offs = <<>> /\ rec.pc = "closed"
           \/ rec.state # NONE
    PROVE  TInv'
<1>1. obj[o].pc \notin {"stamp", "saved"}
  BY DEF Call, Busy
<1>2. Keeps(o, rec)
  BY <1>1 DEF Keeps, Opened
<1> QED
  BY <1>2, CallVersions, TimedStep

(* Open, Close and Flush. *)
LEMMA TimedOpenClose ==
    ASSUME IInv, TInv, NEW o \in Objects, Open(o) \/ Close(o) \/ Flush(o)
    PROVE  TInv'
<1>1. Call(o) /\ last_update' = last_update
  BY DEF Open, Close, Flush
<1>2. Fields \subseteq DOMAIN obj[o]
  BY FieldsThere
<1>3. CASE Open(o)
  <2> PICK rec : rec = [NoDict EXCEPT !.pc = "validate"]
    OBVIOUS
  <2>1. Sets(o, rec)
    BY <1>3, Zenon DEF Open
  <2>2. Fields \subseteq DOMAIN rec /\ rec.state = NONE /\ rec.offs = <<>> /\ rec.pc = "validate"
    BY DEF NoDict, Fields
  <2>3. Keeps(o, rec)
    BY <2>2 DEF Keeps, Opened
  <2> QED
    BY <1>1, <2>1, <2>2, <2>3, CallVersions, TimedStep
<1>4. CASE Flush(o) /\ obj[o].freed_name
  BY <1>1, <1>4, CallVersions, TimedStutter DEF Flush
<1>5. CASE Close(o) \/ (Flush(o) /\ ~obj[o].freed_name)
  <2>1. obj[o].state # NONE
    BY <1>5 DEF Close, Flush
  <2>2. PICK then : Sets(o, Closing(obj[o], then))
    BY <1>5, Zenon DEF Close, Flush
  <2> PICK rec : rec = Closing(obj[o], then)
    OBVIOUS
  <2>3. Sets(o, rec)
    BY <2>2, Zenon
  <2>4. /\ Fields \subseteq DOMAIN rec /\ rec.time = obj[o].time
        /\ \/ rec.state = NONE /\ rec.offs = <<>> /\ rec.pc = "closed"
           \/ rec.state # NONE
    BY <1>2, <2>1, ClosingTimed
  <2> QED
    BY <1>1, <2>1, <2>3, <2>4, TimedCall
<1> QED
  BY <1>3, <1>4, <1>5

(* Put, in its four cases. *)
LEMMA TimedPut ==
    ASSUME IInv, TInv, NEW o \in Objects, NEW w \in Lemmas, Put(o, w)
    PROVE  TInv'
<1> DEFINE old == obj[o]
<1>1. Call(o) /\ last_update' = last_update /\ old.state # NONE
  BY DEF Put
<1>2. Fields \subseteq DOMAIN old
  BY FieldsThere
<1>3. PICK rec :
        /\ Sets(o, rec)
        /\ \/ rec = [old EXCEPT !.scores[First(Entries(old, w))] = <<1, 0>>,
                                !.state = Dirty(old, SCORE_DIRTY)]
           \/ rec = old
           \/ rec = Closing(old, <<"put", w>>)
           \/ rec = Append1(old, w)
  BY Zenon DEF Put
<1>4. CASE rec = [old EXCEPT !.scores[First(Entries(old, w))] = <<1, 0>>,
                             !.state = Dirty(old, SCORE_DIRTY)]
  <2>1. Dirty(old, SCORE_DIRTY) # NONE
    BY <1>1 DEF Dirty, SCORE_DIRTY, NONE
  <2>2. Fields \subseteq DOMAIN rec /\ rec.time = old.time /\ rec.state # NONE
    BY <1>2, <1>4, <2>1 DEF Fields
  <2> QED
    BY <1>1, <1>3, <2>2, TimedCall
<1>5. CASE rec = old
  BY <1>1, <1>2, <1>3, <1>5, TimedCall
<1>6. CASE rec = Closing(old, <<"put", w>>)
  <2>1. /\ Fields \subseteq DOMAIN rec /\ rec.time = old.time
        /\ \/ rec.state = NONE /\ rec.offs = <<>> /\ rec.pc = "closed"
           \/ rec.state # NONE
    BY <1>1, <1>2, <1>6, ClosingTimed
  <2> QED
    BY <1>1, <1>3, <2>1, TimedCall
<1>7. CASE rec = Append1(old, w)
  <2>1. Fields \subseteq DOMAIN rec /\ rec.time = old.time /\ rec.state # NONE
    BY <1>1, <1>2, <1>7, EntryTimed
  <2> QED
    BY <1>1, <1>3, <2>1, TimedCall
<1> QED
  BY <1>3, <1>4, <1>5, <1>6, <1>7

(* An update or a removal is of an entry, so there is a dictionary. *)
LEMMA TimedEntry ==
    ASSUME IInv, TInv, NEW o \in Objects, NEW k \in Known(o), Update(o, k) \/ RemoveLemma(o, k)
    PROVE  TInv'
<1>1. obj[o].offs # <<>>
  BY DEF Known, Entries
<1>2. obj[o].state # NONE
  BY <1>1 DEF TInv, Timed
<1>3. Fields \subseteq DOMAIN obj[o]
  BY FieldsThere
<1>4. PICK rec : rec \in {UpdateEntry(obj[o], k), RemoveEntry(obj[o], k)} /\ Sets(o, rec)
  BY Zenon DEF Update, RemoveLemma
<1>a. /\ Fields \subseteq DOMAIN UpdateEntry(obj[o], k)
      /\ UpdateEntry(obj[o], k).state # NONE /\ UpdateEntry(obj[o], k).time = obj[o].time
  BY <1>2, <1>3, EntryTimed, Zenon
<1>b. /\ Fields \subseteq DOMAIN RemoveEntry(obj[o], k)
      /\ RemoveEntry(obj[o], k).state # NONE /\ RemoveEntry(obj[o], k).time = obj[o].time
  BY <1>2, <1>3, EntryTimed, Zenon
<1>5. Fields \subseteq DOMAIN rec /\ rec.time = obj[o].time /\ rec.state # NONE
  BY <1>4, <1>a, <1>b
<1>6. Call(o) /\ last_update' = last_update
  BY DEF Update, RemoveLemma
<1> QED
  BY <1>2, <1>4, <1>5, <1>6, TimedCall

(* A search, with the lock or without. *)
LEMMA TimedSearch ==
    ASSUME IInv, TInv, NEW o \in Objects, Search(o)
    PROVE  TInv'
<1>1. Call(o) /\ last_update' = last_update /\ obj[o].state # NONE
  BY DEF Search
<1>2. CASE mutex = Nobody
  <2> PICK rec : rec = [obj[o] EXCEPT !.pc = "compare"]
    OBVIOUS
  <2>1. Sets(o, rec)
    BY <1>2, Zenon DEF Search
  <2>2. Fields \subseteq DOMAIN rec /\ rec.time = obj[o].time /\ rec.state = obj[o].state
    BY FieldsThere DEF Fields
  <2> QED
    BY <1>1, <2>1, <2>2, TimedCall
<1>3. CASE mutex # Nobody
  BY <1>1, <1>3, CallVersions, TimedStutter DEF Search
<1> QED
  BY <1>2, <1>3

(* The steps inside a call that only go on to another place. *)
LEMMA TimedPlace ==
    ASSUME IInv, TInv, NEW o \in Objects,
           ValidateFile(o) \/ Reset(o) \/ Fill(o) \/ Write(o) \/ Lock(o)
    PROVE  TInv'
<1>1. Fields \subseteq DOMAIN obj[o]
  BY FieldsThere
<1> DEFINE same(rec) == /\ Fields \subseteq DOMAIN rec /\ rec.time = obj[o].time
                        /\ rec.state = obj[o].state /\ rec.offs = obj[o].offs
                        /\ rec.pc \in {"load", "reset", "fill", "stale", "write"}
<1>2. \E rec : Sets(o, rec) /\ same(rec)
  <2>1. CASE ValidateFile(o) \/ Reset(o) \/ Fill(o)
    <3>1. PICK place \in {"load", "reset", "fill"} : Sets(o, [obj[o] EXCEPT !.pc = place])
      BY <2>1, Zenon DEF ValidateFile, Reset, Fill
    <3>2. same([obj[o] EXCEPT !.pc = place])
      BY <1>1, <3>1 DEF Fields
    <3> QED
      BY <3>1, <3>2, Zenon
  <2>2. CASE Write(o)
    <3>1. PICK at, segs : Sets(o, [obj[o] EXCEPT !.at = at, !.segs = segs])
      BY <2>2, Zenon DEF Write
    <3>2. same([obj[o] EXCEPT !.at = at, !.segs = segs])
      BY <1>1, <2>2 DEF Fields, Write
    <3> QED
      BY <3>1, <3>2, Zenon
  <2>3. CASE Lock(o) /\ MayWrite(obj[o])
    <3>1. PICK at, segs : Sets(o, [obj[o] EXCEPT !.pc = "write", !.at = at, !.segs = segs])
      BY <2>3, Zenon DEF Lock
    <3>2. same([obj[o] EXCEPT !.pc = "write", !.at = at, !.segs = segs])
      BY <1>1 DEF Fields
    <3> QED
      BY <3>1, <3>2, Zenon
  <2>4. CASE Lock(o) /\ ~MayWrite(obj[o])
    <3>1. Sets(o, [obj[o] EXCEPT !.pc = "stale"])
      BY <2>4, Zenon DEF Lock
    <3>2. same([obj[o] EXCEPT !.pc = "stale"])
      BY <1>1 DEF Fields
    <3> QED
      BY <3>1, <3>2, Zenon
  <2> QED
    BY <2>1, <2>2, <2>3, <2>4
<1> HIDE DEF same
<1> PICK rec : Sets(o, rec) /\ same(rec)
  BY <1>2
<1>3. /\ Fields \subseteq DOMAIN rec /\ rec.time = obj[o].time
      /\ rec.state = obj[o].state /\ rec.offs = obj[o].offs
      /\ rec.pc \in {"load", "reset", "fill", "stale", "write"}
  BY DEF same
<1>4. obj[o].pc \in {"validate", "reset", "fill", "write", "lock"}
  BY DEF ValidateFile, Reset, Fill, Write, Lock
<1>5. Keeps(o, rec)
  <2>1. obj[o].pc = "lock" => obj[o].state # NONE
    BY DEF TInv, Timed, Opened
  <2> QED
    BY <1>3, <1>4, <2>1 DEF Keeps, Opened
<1>6. UNCHANGED <<hist.version, hist.base>>
  <2>1. CASE Lock(o)
    <3>1. PICK blocks : hist' = [hist EXCEPT !.blocks = blocks]
      BY <2>1, Zenon DEF Lock
    <3> QED
      BY <3>1 DEF IInv, FieldsOK
  <2>2. CASE ~Lock(o)
    BY <2>2 DEF ValidateFile, Reset, Fill, Write
  <2> QED
    BY <2>1, <2>2
<1>7. last_update' = last_update
  BY DEF ValidateFile, Reset, Fill, Write, Lock
<1> QED
  BY <1>3, <1>5, <1>6, <1>7, TimedStep

(* The steps that empty the object, or may. *)
LEMMA TimedEmpty ==
    ASSUME IInv, TInv, NEW o \in Objects, Unlock(o) \/ AfterClose(o) \/ TryLock(o)
    PROVE  TInv'
<1>1. Fields \subseteq DOMAIN obj[o]
  BY FieldsThere
<1>2. PICK rec :
        /\ Sets(o, rec)
        /\ \/ rec = [Closed(obj[o]) EXCEPT !.pc = "closed"]
           \/ rec = [NoDict EXCEPT !.time = obj[o].time]
           \/ rec = [NoDict EXCEPT !.time = obj[o].time, !.freed_name = TRUE]
           \/ obj[o].pc = "closed" /\ rec = [obj[o] EXCEPT !.pc = "validate"]
           \/ obj[o].pc = "load" /\ rec = [obj[o] EXCEPT !.pc = "read"]
  BY Zenon DEF Unlock, AfterClose, TryLock, LoadFailed
<1>3. Fields \subseteq DOMAIN rec /\ Keeps(o, rec)
  <2>1. CASE rec = [Closed(obj[o]) EXCEPT !.pc = "closed"]
    <3>1. Fields \subseteq DOMAIN rec /\ rec.state = NONE /\ rec.offs = <<>> /\ rec.pc = "closed"
      BY <2>1, EmptyFields DEF Fields
    <3> QED
      BY <3>1 DEF Keeps, Opened
  <2>2. CASE \/ rec = [NoDict EXCEPT !.time = obj[o].time]
             \/ rec = [NoDict EXCEPT !.time = obj[o].time, !.freed_name = TRUE]
    <3>1. Fields \subseteq DOMAIN rec /\ rec.state = NONE /\ rec.offs = <<>> /\ rec.pc = "idle"
      BY <2>2 DEF NoDict, Fields
    <3> QED
      BY <3>1 DEF Keeps, Opened
  <2>3. CASE \/ obj[o].pc = "closed" /\ rec = [obj[o] EXCEPT !.pc = "validate"]
             \/ obj[o].pc = "load" /\ rec = [obj[o] EXCEPT !.pc = "read"]
    <3>1. /\ Fields \subseteq DOMAIN rec /\ rec.time = obj[o].time
          /\ rec.state = obj[o].state /\ rec.offs = obj[o].offs
          /\ rec.pc \in {"validate", "read"} /\ obj[o].pc \in {"closed", "load"}
      BY <1>1, <2>3 DEF Fields
    <3> QED
      BY <3>1 DEF Keeps, Opened
  <2> QED
    BY <1>2, <2>1, <2>2, <2>3
<1>4. UNCHANGED <<last_update, hist>>
  BY DEF Unlock, AfterClose, TryLock
<1> QED
  BY <1>2, <1>3, <1>4, TimedStep

(* The comparison ends the search, or begins to close a dictionary. *)
LEMMA TimedCompare ==
    ASSUME IInv, TInv, NEW o \in Objects, Compare(o)
    PROVE  TInv'
<1>1. Fields \subseteq DOMAIN obj[o]
  BY FieldsThere
<1>2. obj[o].pc = "compare" /\ obj[o].state # NONE
  BY DEF Compare, TInv, Timed, Opened
<1>3. PICK rec :
        /\ Sets(o, rec)
        /\ rec \in {Closing(obj[o], <<"load">>), [obj[o] EXCEPT !.pc = "idle"]}
  BY Zenon DEF Compare
<1>4. /\ Fields \subseteq DOMAIN rec /\ rec.time = obj[o].time
      /\ \/ rec.state = NONE /\ rec.offs = <<>> /\ rec.pc = "closed"
         \/ rec.state # NONE
  <2>1. CASE rec = Closing(obj[o], <<"load">>)
    BY <1>1, <1>2, <2>1, ClosingTimed
  <2>2. CASE rec = [obj[o] EXCEPT !.pc = "idle"]
    BY <1>1, <1>2, <2>2 DEF Fields
  <2> QED
    BY <1>3, <2>1, <2>2
<1>5. Keeps(o, rec)
  BY <1>2, <1>4 DEF Keeps, Opened
<1>6. UNCHANGED <<last_update, hist>>
  BY DEF Compare
<1> QED
  BY <1>3, <1>4, <1>5, <1>6, TimedStep

(* A load has its stamp still to come, and the stamp is no earlier than the
   last write. *)
LEMMA TimedStamp ==
    ASSUME IInv, TInv, NEW o \in Objects, Stamp(o)
    PROVE  TInv'
<1>1. Fields \subseteq DOMAIN obj[o]
  BY FieldsThere
<1>2. obj[o].state # NONE
  BY DEF Stamp, TInv, Timed, Opened
<1>3. PICK t \in {now, now + 1} :
         LET rec == [obj[o] EXCEPT !.pc = "idle", !.time = t, !.then = <<>>]
         IN  Sets(o, rec) \/ Sets(o, Append1(rec, obj[o].then[2]))
  BY Zenon DEF Stamp
<1>4. PICK rec :
         /\ rec = [obj[o] EXCEPT !.pc = "idle", !.time = t, !.then = <<>>]
         /\ Sets(o, rec) \/ Sets(o, Append1(rec, obj[o].then[2]))
  BY <1>3, Zenon
<1>5. Fields \subseteq DOMAIN rec /\ rec.state # NONE /\ rec.time = t
  BY <1>1, <1>2, <1>4 DEF Fields
<1>6. PICK new : new \in {rec, Append1(rec, obj[o].then[2])} /\ Sets(o, new)
  BY <1>4, Zenon
<1>7. Fields \subseteq DOMAIN new /\ new.state # NONE /\ new.time = t
  BY <1>5, <1>6, EntryTimed
<1>8. t >= last_update
  BY DEF IInv, TimesOK
<1>9. Keeps(o, new)
  BY <1>7, <1>8 DEF Keeps
<1>10. UNCHANGED <<last_update, hist>>
  BY DEF Stamp
<1> QED
  BY <1>6, <1>7, <1>9, <1>10, TimedStep

(* A read makes the object the latest, with the stamp still to come. *)
LEMMA TimedRead ==
    ASSUME IInv, TInv, NEW o \in Objects, Read(o)
    PROVE  TInv'
<1>1. Fields \subseteq DOMAIN obj[o]
  BY FieldsThere
<1>2. last_update' = last_update
  BY DEF Read
<1>3. CASE Loadable(file)
  <2> PICK rec : rec = [Loaded(obj[o], file) EXCEPT !.pc = "stamp"]
    OBVIOUS
  <2>1. Sets(o, rec) /\ hist' = [hist EXCEPT !.base[o] = hist.version]
    BY <1>3, Zenon DEF Read
  <2>2. Fields \subseteq DOMAIN rec /\ rec.state # NONE /\ rec.pc = "stamp"
    <3>1. Fields \subseteq DOMAIN rec /\ rec.state = SYNC /\ rec.pc = "stamp"
      BY <1>1 DEF Loaded, Fields
    <3> QED
      BY <3>1 DEF SYNC, NONE
  <2>3. DOMAIN obj = Objects /\ hist.version \in Nat /\ hist.base \in [Objects -> Nat]
    BY DEF IInv, FieldsOK
  <2>4. obj'[o] = rec /\ \A p \in Objects : p # o => obj'[p] = obj[p]
    BY <2>1, <2>3 DEF Sets
  <2>5. /\ hist'.version = hist.version
        /\ hist'.base = [hist.base EXCEPT ![o] = hist.version]
    BY <2>1 DEF IInv, FieldsOK
  <2>6. Timed(o)'
    BY <2>2, <2>3, <2>4, <2>5 DEF Timed
  <2>7. \A p \in Objects : p # o => Timed(p)'
    BY <1>2, <2>3, <2>4, <2>5 DEF TInv, Timed
  <2> QED
    BY <2>2, <2>4, <2>6, <2>7 DEF TInv, Fields
<1>4. CASE ~Loadable(file)
  <2> PICK rec : rec = [NoDict EXCEPT !.time = obj[o].time, !.freed_name = TRUE]
    OBVIOUS
  <2>1. Sets(o, rec) /\ UNCHANGED hist
    BY <1>4, Zenon DEF Read, LoadFailed
  <2>2. Fields \subseteq DOMAIN rec /\ rec.state = NONE /\ rec.offs = <<>> /\ rec.pc = "idle"
    BY DEF NoDict, Fields
  <2>3. Keeps(o, rec)
    BY <2>2 DEF Keeps, Opened
  <2> QED
    BY <1>2, <2>1, <2>2, <2>3, TimedStep
<1> QED
  BY <1>3, <1>4

(* After a write every other object is behind, and the writer is closing. *)
LEMMA TimedEndWrite ==
    ASSUME IInv, TInv, NEW o \in Objects, EndWrite(o)
    PROVE  TInv'
<1>1. Fields \subseteq DOMAIN obj[o]
  BY FieldsThere
<1> PICK rec : rec = [obj[o] EXCEPT !.pc = "saved"]
  OBVIOUS
<1>2. Sets(o, rec)
  BY Zenon DEF EndWrite
<1>3. /\ Fields \subseteq DOMAIN rec /\ rec.pc = "saved"
      /\ rec.state = obj[o].state /\ rec.offs = obj[o].offs
  BY <1>1 DEF Fields
<1>4. DOMAIN obj = Objects /\ hist.version \in Nat /\ hist.base \in [Objects -> Nat]
  BY DEF IInv, FieldsOK
<1>5. obj'[o] = rec /\ \A p \in Objects : p # o => obj'[p] = obj[p]
  BY <1>2, <1>4 DEF Sets
<1>6. hist' = [hist EXCEPT !.version = hist.version + 1, !.base[o] = hist.base[o] + 1]
  BY Zenon DEF EndWrite
<1>7. /\ hist'.version = hist.version + 1
      /\ hist'.base = [hist.base EXCEPT ![o] = hist.base[o] + 1]
  BY <1>6 DEF IInv, FieldsOK
<1>8. Timed(o)'
  BY <1>3, <1>4, <1>5, <1>7 DEF TInv, Timed, Opened
<1>9. \A p \in Objects : p # o => Timed(p)'
  BY <1>4, <1>5, <1>7 DEF TInv, Timed
<1> QED
  BY <1>3, <1>5, <1>8, <1>9 DEF TInv, Fields

(* A new process has no dictionary open. *)
LEMMA TimedRestart ==
    ASSUME IInv, TInv, Restart
    PROVE  TInv'
<1>1. PICK torn : hist' = [hist EXCEPT !.torn = torn]
  BY Zenon DEF Restart
<1>2. UNCHANGED <<hist.version, hist.base>>
  BY <1>1 DEF IInv, FieldsOK
<1>3. obj' = [o \in Objects |-> NoDict]
  BY DEF Restart
<1> QED
  BY <1>2, <1>3, EmptyFields, NoDictFields DEF TInv, Timed, Opened, Fields

(* In the beginning every object has loaded the file after the last write. *)
LEMMA TimedInit == Init => TInv
<1> SUFFICES ASSUME Init PROVE TInv
  OBVIOUS
<1> PICK rec : rec = [Loaded(NoDict, FileBefore) EXCEPT !.time = 1]
  OBVIOUS
<1>1. Fields \subseteq DOMAIN rec /\ rec.pc = "idle" /\ rec.time = 1 /\ rec.state # NONE
  <2>1. Fields \subseteq DOMAIN rec /\ rec.pc = "idle" /\ rec.time = 1 /\ rec.state = SYNC
    BY DEF Loaded, NoDict, Fields
  <2> QED
    BY <2>1 DEF SYNC, NONE
<1>2. obj = [o \in Objects |-> rec] /\ last_update = 0 /\ hist = HistInit
  BY DEF Init
<1> QED
  BY <1>1, <1>2 DEF TInv, Timed, HistInit, Fields

(* Every step keeps the load times no earlier than the version they stand for. *)
LEMMA TimedNext == IInv /\ TInv /\ [Next]_vars => TInv'
<1> SUFFICES ASSUME IInv, TInv, [Next]_vars PROVE TInv'
  OBVIOUS
<1>1. CASE UNCHANGED vars
  BY <1>1, TimedStutter DEF vars
<1>2. CASE Die
  BY <1>2, TimedStutter DEF Die
<1>3. CASE Restart
  BY <1>3, TimedRestart
<1>4. ASSUME NEW o \in Objects, Calls(o) PROVE TInv'
  BY <1>4, TimedOpenClose, TimedPut, TimedEntry, TimedSearch DEF Calls
<1>5. ASSUME NEW o \in Objects, Step(o) PROVE TInv'
  BY <1>5, TimedPlace, TimedEmpty, TimedCompare, TimedStamp, TimedRead, TimedEndWrite DEF Step
<1> QED
  BY <1>1, <1>2, <1>3, <1>4, <1>5 DEF Next

(* Of the objects only the caller changes. *)
LEMMA OthersKept ==
    ASSUME NEW o \in Objects, NEW p \in Objects, p # o, IInv, Calls(p) \/ Step(p)
    PROVE  obj'[o] = obj[o]
<1>1. CASE \E rec : Sets(p, rec)
  BY <1>1 DEF Sets, IInv, FieldsOK
<1>2. CASE obj' = obj
  BY <1>2
<1>3. CASE Calls(p)
  <2>1. CASE Open(p) \/ Close(p) \/ (\E w \in Lemmas : Put(p, w))
    BY <1>1, <2>1, Zenon DEF Open, Close, Put
  <2>2. CASE Flush(p) \/ Search(p)
    BY <1>1, <1>2, <2>2, Zenon DEF Flush, Search
  <2>3. CASE \E k \in Known(p) : Update(p, k) \/ RemoveLemma(p, k)
    BY <1>1, <2>3, Zenon DEF Update, RemoveLemma
  <2> QED
    BY <1>3, <2>1, <2>2, <2>3 DEF Calls
<1>4. CASE Step(p)
  <2>1. CASE Compare(p) \/ Lock(p) \/ Write(p) \/ EndWrite(p) \/ Unlock(p) \/ AfterClose(p)
    BY <1>1, <2>1, Zenon DEF Compare, Lock, Write, EndWrite, Unlock, AfterClose
  <2>2. CASE ValidateFile(p) \/ Reset(p) \/ Fill(p) \/ TryLock(p) \/ Read(p)
    BY <1>1, <2>2, Zenon DEF ValidateFile, Reset, Fill, TryLock, Read, LoadFailed
  <2>3. CASE Stamp(p)
    BY <1>1, <2>3, Zenon DEF Stamp
  <2> QED
    BY <1>4, <2>1, <2>2, <2>3 DEF Step
<1> QED
  BY <1>3, <1>4

(* An object that waits for the lock leaves that place in Lock alone. *)
LEMMA OnlyLocks ==
    ASSUME IInv, NEW o \in Objects, ~dead, obj[o].pc = "lock", obj'[o].pc # "lock", [Next]_vars
    PROVE  Lock(o)
<1>1. obj'[o] # obj[o]
  OBVIOUS
<1>2. PICK p \in Objects : Calls(p) \/ Step(p)
  BY <1>1 DEF Next, vars, Die, Restart
<1>3. p = o
  BY <1>1, <1>2, OthersKept
<1>4. ~Calls(o)
  BY DEF Calls, Open, Close, Flush, Search, Put, Update, RemoveLemma, Call, Busy
<1>5. Step(o)
  BY <1>2, <1>3, <1>4
<1> QED
  BY <1>5 DEF Step, Compare, Write, EndWrite, Unlock, AfterClose, ValidateFile, Reset, Fill,
     TryLock, Read, Stamp

(* Load times and versions agree in every state. *)
THEOREM TimesAgree == Spec => []TInv
BY InitInv, NextInv, TimedInit, TimedNext, PTL DEF Spec

(* An object whose lemmas are those of the latest version writes them back:
   the test of the times in close_dict never discards it, a tie excepted.
   That calls do not overlap is not even needed. *)
THEOREM LatestSaved == Spec => LatestSaves
<1> DEFINE act ==
      ~dead => \A o \in Objects :
        Orderly /\ obj[o].pc = "lock" /\ obj'[o].pc # "lock"
            /\ hist.base[o] = hist.version /\ obj[o].time # last_update
        => obj'[o].pc = "write"
<1>1. IInv /\ TInv /\ [Next]_vars => [act]_vars
  <2> SUFFICES ASSUME IInv, TInv, [Next]_vars, ~dead, NEW o \in Objects,
                      obj[o].pc = "lock", obj'[o].pc # "lock",
                      hist.base[o] = hist.version, obj[o].time # last_update
               PROVE  obj'[o].pc = "write"
    OBVIOUS
  <2>1. Lock(o)
    BY OnlyLocks
  <2>2. obj[o].time >= last_update
    BY DEF TInv, Timed, Opened
  <2>3. MayWrite(obj[o])
    BY <2>2 DEF MayWrite, IInv, TimesOK
  <2>4. PICK at, segs : Sets(o, [obj[o] EXCEPT !.pc = "write", !.at = at, !.segs = segs])
    BY <2>1, <2>3, Zenon DEF Lock
  <2> QED
    BY <2>4 DEF Sets, IInv, FieldsOK
<1> QED
  BY <1>1, Invariance, TimesAgree, PTL DEF Spec, LatestSaves

-----------------------------------------------------------------------------
(* What is saved is what was in memory.

   A written file is eight segments; i counts them from 0: the version, the
   lemmas that were in the file before, the lemmas since, the four lists, the
   counts.  An object's dirty level says which of them the file has already. *)

(* The units of the block that the file had when it was loaded. *)
KeptUnits(o) == Len(o.block) - (PreAlloc * Average - o.room)

KeptPart(o) == SubSeq(o.block, 1, KeptUnits(o))
NewPart(o) == SubSeq(o.block, KeptUnits(o) + 1, Len(o.block))

(* The segments, and where each begins; the eighth position is the end. *)
Seg(o, i) ==
    CASE i = 0 -> Version
      [] i = 1 -> KeptPart(o)
      [] i = 2 -> NewPart(o)
      [] i = 3 -> Written(o.offs)
      [] i = 4 -> Written(o.preds)
      [] i = 5 -> Written(o.scores)
      [] i = 6 -> Written(o.syncs)
      [] i = 7 -> Written(InfoOf(o))

Pos(o, i) ==
    CASE i = 0 -> 0
      [] i = 1 -> 2
      [] i = 2 -> 2 + KeptUnits(o)
      [] i = 3 -> 2 + Len(o.block)
      [] i = 4 -> 2 + Len(o.block) + 2 * Len(o.offs)
      [] i = 5 -> 2 + Len(o.block) + 4 * Len(o.offs)
      [] i = 6 -> 2 + Len(o.block) + 6 * Len(o.offs)
      [] i = 7 -> 2 + Len(o.block) + 6 * Len(o.offs) + 2 * Len(o.syncs)
      [] i = 8 -> 2 + Len(o.block) + 6 * Len(o.offs) + 2 * Len(o.syncs) + InfoSize

(* The file has seg behind its first `at` units. *)
Has(f, at, seg) ==
    at + Len(seg) <= Len(f) /\ \A k \in 1..Len(seg) : f[at + k] = seg[k]

(* It has the first n segments of o. *)
HasUpTo(f, o, n) == \A i \in 0..7 : i < n => Has(f, Pos(o, i), Seg(o, i))

(* The first segment that a write-back at this level writes. *)
FirstWritten(level) ==
    CASE level = SYNC -> 7
      [] level = SYNC_DIRTY -> 6
      [] level = SCORE_DIRTY -> 5
      [] level = OFFSET_DIRTY -> 3
      [] level = LEMMA_DIRTY -> 2

(* What a write-back at the level of o would not write is in the file. *)
Covers(o, f) == HasUpTo(f, o, FirstWritten(o.state))

(* The list s is the segments of o behind the first n. *)
Run(o, n, s) == s \in Seq(Seq(Nat)) /\ \A j \in 1..Len(s) : s[j] = Seg(o, n + j)

(* A write-back has the segments from n on before it. *)
StageAt(o, f, n) ==
    /\ HasUpTo(f, o, n) /\ o.at = Pos(o, n)
    /\ Run(o, n - 1, o.segs) /\ Len(o.segs) = 8 - n

Stage(o, f) == \E n \in 2..8 : StageAt(o, f, n)

(* The values of the fields of an object. *)
Num == Nat \X Nat
Places == {"idle", "compare", "lock", "write", "saved", "stale", "closed", "validate", "reset",
           "fill", "load", "read", "stamp"}
Thens == {<<>>, <<"close">>, <<"load">>} \union {<<"put", w>> : w \in Lemmas}

Dicts ==
    [state : 0..5, block : Seq(Nat), offs : Seq(Num), preds : Seq(Num), scores : Seq(Num),
     syncs : Seq(Num), ratio : Num, limit : Num, freed : Nat, left : Int, room : Int,
     time : Nat, pc : Places, at : Nat, segs : Seq(Seq(Nat)), then : Thens,
     freed_name : BOOLEAN]

(* An object by itself. *)
Shape(o) ==
    /\ o \in Dicts
    /\ Len(o.preds) = Len(o.offs) /\ Len(o.scores) = Len(o.offs)
    /\ o.state # NONE => KeptUnits(o) \in 0..Len(o.block)
    /\ o.state \in 1..4 => KeptUnits(o) = Len(o.block)
    /\ o.pc \in {"idle", "compare"} => o.then = <<>>
    /\ o.pc \in {"lock", "write"} => o.state \in 2..5

(* A call adds one entry to a list at most, and one that waits for its load
   has not added it yet. *)
Waiting == \E o \in Objects : Len(obj[o].then) = 2
Bound == calls + IF Waiting THEN 0 ELSE 1

(* No list of x has more than n entries. *)
Small(x, n) ==
    /\ Len(x.offs) <= n /\ Len(x.syncs) <= n /\ x.freed <= n
    /\ Len(x.block) <= n * Average

(* A write-back is under way; an object has the latest version; the file is one
   that a load can read. *)
Writing == \E o \in Objects : obj[o].pc = "write"

Current(o) == obj[o].state # NONE /\ hist.base[o] = hist.version

Sound(f) == Validate(f) /\ Loadable(f)

FileGood == Sound(file) /\ Small(Decoded(file), Bound)

(* While calls do not overlap: between write-backs the file is valid, and each
   object of the latest version agrees with it on what its level does not write;
   during one the segments before the next write are there. *)
Saved ==
    /\ \A o \in Objects : obj[o].pc \notin {"reset", "fill"}
    /\ ~Writing => FileGood
    /\ \A o \in Objects : Current(o) /\ ~Writing => Covers(obj[o], file) /\ Small(obj[o], Bound)
    /\ \A o \in Objects : obj[o].pc = "write" => Stage(obj[o], file) /\ Small(obj[o], Bound)
    /\ \A o \in Objects : obj[o].pc = "saved" =>
          Validate(file) /\ Decoded(file) = Memory(obj[o])

(* The types. *)
ShapesOK ==
    /\ file \in Seq(Nat) /\ calls \in 0..MaxCalls
    /\ obj \in [Objects -> Dicts] /\ \A o \in Objects : Shape(obj[o])
    /\ {"torn"} \subseteq DOMAIN hist /\ hist.torn \in BOOLEAN
    /\ \A o \in Objects : hist.base[o] <= hist.version

(* The inductive invariant. *)
SInv == ShapesOK /\ (Orderly => Saved)

-----------------------------------------------------------------------------
(* Numbers, lists and files. *)

(* A list of numbers in the file has the two units of each in its place. *)
LEMMA WrittenIs ==
    ASSUME NEW s \in Seq(Num)
    PROVE  /\ Written(s) \in Seq(Nat)
           /\ Len(Written(s)) = 2 * Len(s)
           /\ \A k \in 1..Len(s) : Written(s)[2 * k - 1] = s[k][1] /\ Written(s)[2 * k] = s[k][2]
<1>1. Len(s) \in Nat /\ \A k \in 1..Len(s) : s[k] \in Num /\ s[k][1] \in Nat /\ s[k][2] \in Nat
  BY DEF Num
<1>2. \A k \in 1..2 * Len(s) : (k + 1) \div 2 \in 1..Len(s)
  BY <1>1
<1>3. \A k \in 1..2 * Len(s) : Written(s)[k] \in Nat
  BY <1>1, <1>2 DEF Written
<1>4. DOMAIN Written(s) = 1..2 * Len(s)
  BY DEF Written
<1>5. Written(s) \in Seq(Nat) /\ Len(Written(s)) = 2 * Len(s)
  <2>1. Written(s) \in [1..2 * Len(s) -> Nat]
    BY <1>3, <1>4 DEF Written
  <2> QED
    BY <1>1, <2>1
<1>6. ASSUME NEW k \in 1..Len(s)
      PROVE  Written(s)[2 * k - 1] = s[k][1] /\ Written(s)[2 * k] = s[k][2]
  <2>1. /\ 2 * k - 1 \in 1..2 * Len(s) /\ 2 * k \in 1..2 * Len(s)
        /\ (2 * k - 1 + 1) \div 2 = k /\ (2 * k + 1) \div 2 = k
        /\ (2 * k - 1) % 2 = 1 /\ (2 * k) % 2 = 0
    BY <1>1
  <2> QED
    BY <2>1 DEF Written
<1> QED
  BY <1>5, <1>6

(* Two units hold any number that a file is long enough for. *)
LEMMA PairValue ==
    ASSUME NEW n \in Nat
    PROVE  /\ Pair(n) \in Num
           /\ n < Huge => Value(Pair(n)) = n
<1>1. n % 65536 >= 0 /\ n % 65536 <= 65535 /\ n % 65536 \in Int
  OBVIOUS
<1>2. n \div 65536 \in Int /\ n \div 65536 >= 0
  OBVIOUS
<1>3. n < Huge => n \div 65536 <= 255
  BY DEF Huge
<1>4. n % 65536 = n - 65536 * (n \div 65536)
  OBVIOUS
<1>5. n \div 65536 \in Nat /\ n % 65536 \in Nat
  BY <1>1, <1>2
<1>6. Pair(n) = <<n % 65536, n \div 65536>>
  BY DEF Pair
<1>7. Pair(n) \in Num
  BY <1>5, <1>6 DEF Num
<1>8. ASSUME n < Huge PROVE Value(Pair(n)) = n
  <2>1. Value(Pair(n)) = (n % 65536) + 65536 * (n \div 65536)
    BY <1>3, <1>5, <1>6, <1>8 DEF Value
  <2> QED
    BY <1>4, <1>5, <2>1
<1> QED
  BY <1>7, <1>8

(* The number of any pair. *)
LEMMA ValueNat ==
    ASSUME NEW p \in Num
    PROVE  Value(p) \in Nat
BY DEF Num, Value, Huge

(* The numbers behind the lists. *)
LEMMA InfoIs ==
    ASSUME NEW o, Shape(o)
    PROVE  /\ InfoOf(o) \in Seq(Num) /\ Len(InfoOf(o)) = 9
           /\ InfoOf(o)[1] = o.ratio /\ InfoOf(o)[2] = o.limit
           /\ InfoOf(o)[4] = Pair(Len(o.offs)) /\ InfoOf(o)[5] = Pair(2 * Len(o.block))
           /\ InfoOf(o)[6] = Pair(o.freed) /\ InfoOf(o)[8] = Pair(Len(o.syncs))
<1>1. /\ o.ratio \in Num /\ o.limit \in Num /\ Len(o.offs) \in Nat /\ 2 * Len(o.block) \in Nat
      /\ o.freed \in Nat /\ Len(o.syncs) \in Nat
  BY DEF Shape, Dicts
<1>2. <<0, 0>> \in Num /\ Pair(0) \in Num
  BY PairValue DEF Num
<1>3. Pair(Len(o.offs)) \in Num /\ Pair(2 * Len(o.block)) \in Num
      /\ Pair(o.freed) \in Num /\ Pair(Len(o.syncs)) \in Num
  BY <1>1, PairValue
<1> QED
  BY <1>1, <1>2, <1>3 DEF InfoOf

(* Where each segment begins. *)
LEMMA Positions ==
    ASSUME NEW o, NEW b \in Nat, NEW n \in Nat, NEW y \in Nat, NEW k \in Nat,
           Len(o.block) = b, Len(o.offs) = n, Len(o.syncs) = y, KeptUnits(o) = k
    PROVE  /\ Pos(o, 0) = 0 /\ Pos(o, 1) = 2 /\ Pos(o, 2) = 2 + k /\ Pos(o, 3) = 2 + b
           /\ Pos(o, 4) = 2 + b + 2 * n /\ Pos(o, 5) = 2 + b + 4 * n
           /\ Pos(o, 6) = 2 + b + 6 * n /\ Pos(o, 7) = 2 + b + 6 * n + 2 * y
           /\ Pos(o, 8) = 2 + b + 6 * n + 2 * y + 18
BY DEF Pos, InfoSize

(* What each segment is. *)
LEMMA SegmentsAre ==
    ASSUME NEW o
    PROVE  /\ Seg(o, 0) = Version
           /\ Seg(o, 1) = KeptPart(o)
           /\ Seg(o, 2) = NewPart(o)
           /\ Seg(o, 3) = Written(o.offs) /\ Seg(o, 4) = Written(o.preds)
           /\ Seg(o, 5) = Written(o.scores) /\ Seg(o, 6) = Written(o.syncs)
           /\ Seg(o, 7) = Written(InfoOf(o))
<1>1. Seg(o, 0) = Version
  BY DEF Seg
<1>a. Seg(o, 1) = KeptPart(o)
  BY DEF Seg
<1>b. Seg(o, 2) = NewPart(o)
  BY DEF Seg
<1>2. Seg(o, 3) = Written(o.offs)
  BY DEF Seg
<1>3. Seg(o, 4) = Written(o.preds)
  BY DEF Seg
<1>4. Seg(o, 5) = Written(o.scores)
  BY DEF Seg
<1>5. Seg(o, 6) = Written(o.syncs)
  BY DEF Seg
<1>6. Seg(o, 7) = Written(InfoOf(o))
  BY DEF Seg
<1> QED
  BY <1>1, <1>a, <1>b, <1>2, <1>3, <1>4, <1>5, <1>6

(* The two parts of the block. *)
LEMMA PartsIs ==
    ASSUME NEW o, o.block \in Seq(Nat), KeptUnits(o) \in 0..Len(o.block)
    PROVE  /\ KeptPart(o) \in Seq(Nat) /\ Len(KeptPart(o)) = KeptUnits(o)
           /\ \A j \in 1..KeptUnits(o) : KeptPart(o)[j] = o.block[j]
           /\ NewPart(o) \in Seq(Nat) /\ Len(NewPart(o)) = Len(o.block) - KeptUnits(o)
           /\ \A j \in 1..(Len(o.block) - KeptUnits(o)) : NewPart(o)[j] = o.block[KeptUnits(o) + j]
<1>1. PICK s \in Seq(Nat), k \in Nat : s = o.block /\ k = KeptUnits(o) /\ k <= Len(s)
  OBVIOUS
<1>2. PICK n \in Nat : n = Len(s) /\ k <= n
  BY <1>1
<1>3. /\ SubSeq(s, 1, k) \in Seq(Nat) /\ Len(SubSeq(s, 1, k)) = k
      /\ \A j \in 1..k : SubSeq(s, 1, k)[j] = s[j]
  BY <1>1
<1>4. \A j \in k + 1..n : s[j] \in Nat
  BY <1>2
<1>5. /\ SubSeq(s, k + 1, n) \in Seq(Nat)
      /\ Len(SubSeq(s, k + 1, n)) = IF k + 1 <= n THEN n - (k + 1) + 1 ELSE 0
      /\ \A j \in 1..n - (k + 1) + 1 : SubSeq(s, k + 1, n)[j] = s[k + 1 + j - 1]
  BY <1>4, SubSeqProperties
<1>7. (IF k + 1 <= n THEN n - (k + 1) + 1 ELSE 0) = n - k
  BY <1>2
<1>8. n - (k + 1) + 1 = n - k /\ \A j \in 1..n - k : k + 1 + j - 1 = k + j
  BY <1>2
<1>9. /\ Len(SubSeq(s, k + 1, n)) = n - k
      /\ \A j \in 1..n - k : SubSeq(s, k + 1, n)[j] = s[k + j]
  BY <1>5, <1>7, <1>8, Zenon
<1>6. KeptPart(o) = SubSeq(s, 1, k) /\ NewPart(o) = SubSeq(s, k + 1, Len(s))
  BY <1>1, Zenon DEF KeptPart, NewPart
<1> QED
  BY <1>1, <1>2, <1>3, <1>5, <1>6, <1>9

(* The segments lie one behind the other. *)
LEMMA SegmentsFit ==
    ASSUME NEW o, Shape(o), o.state # NONE
    PROVE  /\ \A i \in 0..8 : Pos(o, i) \in Nat
           /\ \A i \in 0..7 : Seg(o, i) \in Seq(Nat) /\ Pos(o, i + 1) = Pos(o, i) + Len(Seg(o, i))
<1>1. /\ o.block \in Seq(Nat) /\ o.offs \in Seq(Num) /\ o.preds \in Seq(Num)
      /\ o.scores \in Seq(Num) /\ o.syncs \in Seq(Num)
      /\ Len(o.preds) = Len(o.offs) /\ Len(o.scores) = Len(o.offs)
      /\ KeptUnits(o) \in 0..Len(o.block)
  BY DEF Shape, Dicts
<1>2. Len(o.block) \in Nat /\ Len(o.offs) \in Nat /\ Len(o.syncs) \in Nat
  BY <1>1
<1>k. PICK b \in Nat, n \in Nat, y \in Nat, k \in Nat :
        Len(o.block) = b /\ Len(o.offs) = n /\ Len(o.syncs) = y /\ KeptUnits(o) = k /\ k <= b
  BY <1>1, <1>2
<1>p. /\ Pos(o, 0) = 0 /\ Pos(o, 1) = 2 /\ Pos(o, 2) = 2 + k /\ Pos(o, 3) = 2 + b
      /\ Pos(o, 4) = 2 + b + 2 * n /\ Pos(o, 5) = 2 + b + 4 * n
      /\ Pos(o, 6) = 2 + b + 6 * n /\ Pos(o, 7) = 2 + b + 6 * n + 2 * y
      /\ Pos(o, 8) = 2 + b + 6 * n + 2 * y + 18
  BY <1>k, Positions
<1>3. \A i \in 0..8 : Pos(o, i) \in Nat
  <2>1. /\ Pos(o, 0) \in Nat /\ Pos(o, 1) \in Nat /\ Pos(o, 2) \in Nat
        /\ Pos(o, 3) \in Nat /\ Pos(o, 4) \in Nat /\ Pos(o, 5) \in Nat
        /\ Pos(o, 6) \in Nat /\ Pos(o, 7) \in Nat /\ Pos(o, 8) \in Nat
    BY <1>p
  <2> QED
    BY <2>1
<1>4. Seg(o, 0) \in Seq(Nat) /\ Len(Seg(o, 0)) = 2
  <2>1. Version \in Seq(Nat) /\ Len(Version) = 2
    BY DEF Version
  <2> QED
    BY <2>1, SegmentsAre
<1>5. Seg(o, 1) \in Seq(Nat) /\ Len(Seg(o, 1)) = k
  BY <1>1, <1>k, PartsIs, SegmentsAre
<1>6. Seg(o, 2) \in Seq(Nat) /\ Len(Seg(o, 2)) = b - k
  BY <1>1, <1>k, PartsIs, SegmentsAre
<1>7. /\ Seg(o, 3) \in Seq(Nat) /\ Len(Seg(o, 3)) = 2 * n
      /\ Seg(o, 4) \in Seq(Nat) /\ Len(Seg(o, 4)) = 2 * n
      /\ Seg(o, 5) \in Seq(Nat) /\ Len(Seg(o, 5)) = 2 * n
      /\ Seg(o, 6) \in Seq(Nat) /\ Len(Seg(o, 6)) = 2 * y
  BY <1>1, <1>k, WrittenIs, SegmentsAre
<1>8. Seg(o, 7) \in Seq(Nat) /\ Len(Seg(o, 7)) = 18
  <2>1. InfoOf(o) \in Seq(Num) /\ Len(InfoOf(o)) = 9
    BY InfoIs
  <2>2. Written(InfoOf(o)) \in Seq(Nat) /\ Len(Written(InfoOf(o))) = 2 * Len(InfoOf(o))
    BY <2>1, WrittenIs
  <2> QED
    BY <2>1, <2>2, SegmentsAre
<1>9. /\ Pos(o, 1) = Pos(o, 0) + Len(Seg(o, 0)) /\ Pos(o, 2) = Pos(o, 1) + Len(Seg(o, 1))
      /\ Pos(o, 3) = Pos(o, 2) + Len(Seg(o, 2)) /\ Pos(o, 4) = Pos(o, 3) + Len(Seg(o, 3))
      /\ Pos(o, 5) = Pos(o, 4) + Len(Seg(o, 4)) /\ Pos(o, 6) = Pos(o, 5) + Len(Seg(o, 5))
      /\ Pos(o, 7) = Pos(o, 6) + Len(Seg(o, 6)) /\ Pos(o, 8) = Pos(o, 7) + Len(Seg(o, 7))
  <2> DEFINE l(i) == Len(Seg(o, i))
  <2>1. /\ l(0) = 2 /\ l(1) = k /\ l(2) = b - k /\ l(3) = 2 * n /\ l(4) = 2 * n
        /\ l(5) = 2 * n /\ l(6) = 2 * y /\ l(7) = 18
    BY <1>4, <1>5, <1>6, <1>7, <1>8, Zenon
  <2> HIDE DEF l
  <2>2. /\ Pos(o, 1) = Pos(o, 0) + l(0) /\ Pos(o, 2) = Pos(o, 1) + l(1)
        /\ Pos(o, 3) = Pos(o, 2) + l(2) /\ Pos(o, 4) = Pos(o, 3) + l(3)
        /\ Pos(o, 5) = Pos(o, 4) + l(4) /\ Pos(o, 6) = Pos(o, 5) + l(5)
        /\ Pos(o, 7) = Pos(o, 6) + l(6) /\ Pos(o, 8) = Pos(o, 7) + l(7)
    BY <1>p, <2>1, SMTT(30)
  <2> QED
    BY <2>2, Zenon DEF l
<1>10. ASSUME NEW i \in 0..7
       PROVE  Seg(o, i) \in Seq(Nat) /\ Pos(o, i + 1) = Pos(o, i) + Len(Seg(o, i))
  <2>1. i = 0 \/ i = 1 \/ i = 2 \/ i = 3 \/ i = 4 \/ i = 5 \/ i = 6 \/ i = 7
    OBVIOUS
  <2>2. Seg(o, i) \in Seq(Nat)
    BY <1>4, <1>5, <1>6, <1>7, <1>8, <2>1
  <2>3. Pos(o, i + 1) = Pos(o, i) + Len(Seg(o, i))
    <3>1. /\ 0 + 1 = 1 /\ 1 + 1 = 2 /\ 2 + 1 = 3 /\ 3 + 1 = 4 /\ 4 + 1 = 5 /\ 5 + 1 = 6
          /\ 6 + 1 = 7 /\ 7 + 1 = 8
      OBVIOUS
    <3> QED
      BY <1>9, <2>1, <3>1, Zenon
  <2> QED
    BY <2>2, <2>3
<1> QED
  BY <1>3, <1>10

(* ... *)
LEMMA PosOrder ==
    ASSUME NEW o, Shape(o), o.state # NONE
    PROVE  /\ Pos(o, 1) <= Pos(o, 2) /\ Pos(o, 2) <= Pos(o, 3) /\ Pos(o, 3) <= Pos(o, 4)
           /\ Pos(o, 4) <= Pos(o, 5) /\ Pos(o, 5) <= Pos(o, 6) /\ Pos(o, 6) <= Pos(o, 7)
           /\ Pos(o, 7) <= Pos(o, 8)
<1>1. /\ Len(o.block) \in Nat /\ Len(o.offs) \in Nat /\ Len(o.syncs) \in Nat
      /\ KeptUnits(o) \in 0..Len(o.block)
  BY DEF Shape, Dicts
<1>k. PICK b \in Nat, n \in Nat, y \in Nat, k \in Nat :
        Len(o.block) = b /\ Len(o.offs) = n /\ Len(o.syncs) = y /\ KeptUnits(o) = k /\ k <= b
  BY <1>1
<1>p. /\ Pos(o, 1) = 2 /\ Pos(o, 2) = 2 + k /\ Pos(o, 3) = 2 + b
      /\ Pos(o, 4) = 2 + b + 2 * n /\ Pos(o, 5) = 2 + b + 4 * n
      /\ Pos(o, 6) = 2 + b + 6 * n /\ Pos(o, 7) = 2 + b + 6 * n + 2 * y
      /\ Pos(o, 8) = 2 + b + 6 * n + 2 * y + 18 /\ k <= b
  BY <1>k, Positions
<1> QED
  BY <1>p

(* ... so that those before the n-th end where it begins, at the latest. *)
LEMMA PosAscends ==
    ASSUME NEW o, Shape(o), o.state # NONE, NEW n \in 0..8, NEW i \in 0..7, i < n
    PROVE  Pos(o, i) + Len(Seg(o, i)) <= Pos(o, n)
<1>2. \A j \in 0..8 : Pos(o, j) \in Nat
  BY SegmentsFit
<1>3. Pos(o, i + 1) <= Pos(o, n)
  <2>2. i + 1 \in 1..8 /\ n \in 1..8 /\ i + 1 <= n
    OBVIOUS
  <2> QED
    BY <1>2, <2>2, PosOrder, SMTT(30)
<1>4. Pos(o, i + 1) = Pos(o, i) + Len(Seg(o, i))
  BY SegmentsFit
<1> QED
  BY <1>3, <1>4

(* What write() leaves in the file. *)
LEMMA OverwrittenHas ==
    ASSUME NEW f \in Seq(Nat), NEW at \in Nat, NEW seg \in Seq(Nat)
    PROVE  /\ Overwritten(f, at, seg) \in Seq(Nat)
           /\ Has(Overwritten(f, at, seg), at, seg)
           /\ \A p \in Nat, s \in Seq(Nat) : Has(f, p, s) /\ p + Len(s) <= at =>
                Has(Overwritten(f, at, seg), p, s)
<1> DEFINE new == Overwritten(f, at, seg)
           n == IF at + Len(seg) > Len(f) THEN at + Len(seg) ELSE Len(f)
<1>1. n \in Nat /\ n >= at + Len(seg) /\ n >= Len(f) /\ Len(f) \in Nat /\ Len(seg) \in Nat
  OBVIOUS
<1>2. \A k \in 1..n : new[k] = IF k > at /\ k <= at + Len(seg) THEN seg[k - at]
                               ELSE IF k <= Len(f) THEN f[k] ELSE 0
  BY DEF Overwritten
<1>3. ASSUME NEW k \in 1..n PROVE new[k] \in Nat
  <2>1. CASE k > at /\ k <= at + Len(seg)
    <3>1. k - at \in 1..Len(seg)
      BY <1>1, <2>1
    <3> QED
      BY <1>2, <2>1, <3>1
  <2>2. CASE ~(k > at /\ k <= at + Len(seg))
    BY <1>1, <1>2, <2>2
  <2> QED
    BY <2>1, <2>2
<1>4. new \in Seq(Nat) /\ Len(new) = n
  <2>1. new = [k \in 1..n |-> IF k > at /\ k <= at + Len(seg) THEN seg[k - at]
                               ELSE IF k <= Len(f) THEN f[k] ELSE 0]
    BY DEF Overwritten
  <2>2. new \in [1..n -> Nat]
    <3>1. DOMAIN new = 1..n
      BY <2>1
    <3> QED
      BY <1>3, <2>1, <3>1
  <2>3. n \in Nat
    BY <1>1
  <2> HIDE DEF new, n
  <2> QED
    BY <2>2, <2>3
<1> HIDE DEF new, n
<1>5. Has(new, at, seg)
  <2>1. ASSUME NEW k \in 1..Len(seg) PROVE new[at + k] = seg[k]
    <3>1. at + k \in 1..n /\ at + k > at /\ at + k <= at + Len(seg) /\ at + k - at = k
      BY <1>1
    <3> QED
      BY <1>2, <3>1
  <2> QED
    BY <1>1, <1>4, <2>1 DEF Has
<1>6. ASSUME NEW p \in Nat, NEW s \in Seq(Nat), Has(f, p, s), p + Len(s) <= at
      PROVE  Has(new, p, s)
  <2>1. Len(s) \in Nat
    OBVIOUS
  <2>2. ASSUME NEW k \in 1..Len(s) PROVE new[p + k] = s[k]
    <3>1. p + k \in 1..n /\ p + k <= at /\ p + k <= Len(f)
      BY <1>1, <1>6, <2>1 DEF Has
    <3>2. new[p + k] = f[p + k]
      BY <1>2, <3>1
    <3> QED
      BY <1>6, <3>2 DEF Has
  <2> QED
    BY <1>1, <1>4, <1>6, <2>1, <2>2 DEF Has
<1> QED
  BY <1>4, <1>5, <1>6 DEF new

(* What ftruncate leaves. *)
LEMMA TruncatedHas ==
    ASSUME NEW f \in Seq(Nat), NEW n \in Nat
    PROVE  /\ Truncated(f, n) \in Seq(Nat) /\ Len(Truncated(f, n)) = n
           /\ \A p \in Nat, s \in Seq(Nat) : Has(f, p, s) /\ p + Len(s) <= n =>
                Has(Truncated(f, n), p, s)
<1> DEFINE new == Truncated(f, n)
<1>1. \A k \in 1..n : new[k] = IF k <= Len(f) THEN f[k] ELSE 0
  BY DEF Truncated
<1>2. \A k \in 1..n : new[k] \in Nat
  BY <1>1
<1>3. new \in Seq(Nat) /\ Len(new) = n
  <2>1. new \in [1..n -> Nat]
    BY <1>2 DEF Truncated
  <2> QED
    BY <2>1
<1> HIDE DEF new
<1>4. ASSUME NEW p \in Nat, NEW s \in Seq(Nat), Has(f, p, s), p + Len(s) <= n
      PROVE  Has(new, p, s)
  <2>1. Len(s) \in Nat /\ Len(f) \in Nat
    OBVIOUS
  <2>2. ASSUME NEW k \in 1..Len(s) PROVE new[p + k] = s[k]
    <3>1. p + k \in 1..n /\ p + k <= Len(f)
      BY <1>4, <2>1 DEF Has
    <3> QED
      BY <1>1, <1>4, <3>1 DEF Has
  <2> QED
    BY <1>3, <1>4, <2>1, <2>2 DEF Has
<1> QED
  BY <1>3, <1>4 DEF new

-----------------------------------------------------------------------------
(* Writing and reading back. *)

(* A list of numbers that is in the file is read as it is. *)
LEMMA PairsRead ==
    ASSUME NEW f \in Seq(Nat), NEW at \in Nat, NEW s \in Seq(Num), Has(f, at, Written(s))
    PROVE  Pairs(f, at, Len(s)) = s
<1>1. PICK n \in Nat : n = Len(s)
  OBVIOUS
<1>2. /\ Len(Written(s)) = 2 * n
      /\ \A k \in 1..n : Written(s)[2 * k - 1] = s[k][1] /\ Written(s)[2 * k] = s[k][2]
  BY <1>1, WrittenIs
<1>3. ASSUME NEW k \in 1..n PROVE Pairs(f, at, n)[k] = s[k]
  <2>1. /\ 2 * k - 1 \in 1..2 * n /\ 2 * k \in 1..2 * n
        /\ at + 2 * k - 1 = at + (2 * k - 1)
    OBVIOUS
  <2>2. f[at + (2 * k - 1)] = Written(s)[2 * k - 1] /\ f[at + 2 * k] = Written(s)[2 * k]
    BY <1>2, <2>1 DEF Has
  <2>3. Pairs(f, at, n)[k] = <<f[at + 2 * k - 1], f[at + 2 * k]>>
    BY DEF Pairs
  <2>4. s[k] \in Num
    BY <1>1
  <2>5. s[k] = <<s[k][1], s[k][2]>>
    BY <2>4 DEF Num
  <2> QED
    BY <1>2, <2>1, <2>2, <2>3, <2>5
<1>4. DOMAIN Pairs(f, at, n) = 1..n /\ DOMAIN s = 1..n
  BY <1>1 DEF Pairs
<1>5. Pairs(f, at, n) = [k \in 1..n |-> Pairs(f, at, n)[k]] /\ s = [k \in 1..n |-> s[k]]
  BY <1>1, <1>4 DEF Pairs
<1> QED
  BY <1>1, <1>3, <1>5

(* What is read from the file is in the file. *)
LEMMA PairsAre ==
    ASSUME NEW f \in Seq(Nat), NEW at \in Nat, NEW n \in Nat, at + 2 * n <= Len(f)
    PROVE  /\ Pairs(f, at, n) \in Seq(Num) /\ Len(Pairs(f, at, n)) = n
           /\ Has(f, at, Written(Pairs(f, at, n)))
<1> DEFINE s == Pairs(f, at, n)
<1>1. Len(f) \in Nat /\ \A k \in 1..Len(f) : f[k] \in Nat
  OBVIOUS
<1>2. \A k \in 1..n : s[k] = <<f[at + 2 * k - 1], f[at + 2 * k]>>
  BY DEF Pairs
<1>3. ASSUME NEW k \in 1..n
      PROVE  /\ at + 2 * k - 1 \in 1..Len(f) /\ at + 2 * k \in 1..Len(f)
             /\ s[k] \in Num
  <2>1. at + 2 * k - 1 \in 1..Len(f) /\ at + 2 * k \in 1..Len(f)
    BY <1>1
  <2>2. f[at + 2 * k - 1] \in Nat /\ f[at + 2 * k] \in Nat
    BY <1>1, <2>1
  <2>3. s[k] = <<f[at + 2 * k - 1], f[at + 2 * k]>>
    BY <1>2
  <2> HIDE DEF s
  <2>4. s[k] \in Num
    <3>1. \A a, b \in Nat : <<a, b>> \in Num
      BY DEF Num
    <3> QED
      BY <2>2, <2>3, <3>1, Zenon
  <2> QED
    BY <2>1, <2>4
<1>4. s \in Seq(Num) /\ Len(s) = n
  <2>1. s \in [1..n -> Num]
    <3>1. s = [k \in 1..n |-> s[k]]
      BY DEF Pairs
    <3> HIDE DEF s
    <3> QED
      BY <1>3, <3>1
  <2> HIDE DEF s
  <2> QED
    BY <2>1
<1> HIDE DEF s
<1>5. /\ Len(Written(s)) = 2 * n
      /\ \A k \in 1..n : Written(s)[2 * k - 1] = s[k][1] /\ Written(s)[2 * k] = s[k][2]
  BY <1>4, WrittenIs
<1>6. ASSUME NEW j \in 1..2 * n PROVE f[at + j] = Written(s)[j]
  <2>1. PICK k \in 1..n : j = 2 * k - 1 \/ j = 2 * k
    <3>1. CASE j % 2 = 1
      <4>1. (j + 1) \div 2 \in 1..n /\ j = 2 * ((j + 1) \div 2) - 1
        BY <3>1
      <4> QED
        BY <4>1
    <3>2. CASE j % 2 = 0
      <4>1. j \div 2 \in 1..n /\ j = 2 * (j \div 2)
        BY <3>2
      <4> QED
        BY <4>1
    <3> QED
      BY <3>1, <3>2
  <2>2. s[k][1] = f[at + 2 * k - 1] /\ s[k][2] = f[at + 2 * k]
    BY <1>2
  <2>3. at + (2 * k - 1) = at + 2 * k - 1
    OBVIOUS
  <2> QED
    BY <1>5, <2>1, <2>2, <2>3
<1>7. Has(f, at, Written(s))
  BY <1>1, <1>5, <1>6 DEF Has
<1> QED
  BY <1>4, <1>7 DEF s

(* The counts fit the numbers of the model. *)
Fits(o) ==
    /\ Len(o.offs) < Huge /\ 2 * Len(o.block) < Huge
    /\ o.freed < Huge /\ Len(o.syncs) < Huge

(* The fields at the end of a file written are the counts of the object. *)
LEMMA FieldsWritten ==
    ASSUME NEW o, Shape(o), o.state # NONE, Fits(o),
           NEW f \in Seq(Nat), Len(f) = Pos(o, 8), Has(f, Pos(o, 7), Seg(o, 7))
    PROVE  /\ Field(f, 1) = o.ratio /\ Field(f, 2) = o.limit
           /\ LemmaCount(f) = Len(o.offs) /\ LemmaSize(f) = Len(o.block)
           /\ Value(Field(f, 6)) = o.freed /\ SyncCount(f) = Len(o.syncs)
           /\ Field(f, 4) = Pair(Len(o.offs)) /\ Field(f, 5) = Pair(2 * Len(o.block))
           /\ Field(f, 8) = Pair(Len(o.syncs))
<1> DEFINE info == InfoOf(o)
<1>1. PICK p \in Nat : p = Pos(o, 7) /\ Len(f) = p + 18
  <2>1. Pos(o, 7) \in Nat /\ Pos(o, 8) = Pos(o, 7) + 18
    <3>1. /\ Len(o.block) \in Nat /\ Len(o.offs) \in Nat /\ Len(o.syncs) \in Nat
          /\ KeptUnits(o) \in 0..Len(o.block)
      <4>1. o \in Dicts /\ KeptUnits(o) \in 0..Len(o.block)
        BY DEF Shape
      <4> QED
        BY <4>1 DEF Dicts
    <3>2. PICK b \in Nat, n \in Nat, y \in Nat :
             b = Len(o.block) /\ n = Len(o.offs) /\ y = Len(o.syncs)
      BY <3>1
    <3>3. Pos(o, 7) = 2 + b + 6 * n + 2 * y /\ Pos(o, 8) = 2 + b + 6 * n + 2 * y + 18
      BY <3>2 DEF Pos, InfoSize
    <3> QED
      BY <3>3
  <2> QED
    BY <2>1
<1>2. info \in Seq(Num) /\ Len(info) = 9
  BY InfoIs
<1> HIDE DEF info
<1>3. /\ Len(Written(info)) = 18
      /\ \A k \in 1..9 : Written(info)[2 * k - 1] = info[k][1] /\ Written(info)[2 * k] = info[k][2]
  <2>1. Len(Written(info)) = 2 * Len(info)
    BY <1>2, WrittenIs
  <2>2. \A k \in 1..Len(info) :
           Written(info)[2 * k - 1] = info[k][1] /\ Written(info)[2 * k] = info[k][2]
    BY <1>2, WrittenIs
  <2> QED
    BY <1>2, <2>1, <2>2
<1>4. \A j \in 1..18 : f[p + j] = Written(info)[j]
  BY <1>1, <1>3, SegmentsAre DEF Has, info
<1>5. ASSUME NEW k \in 1..9 PROVE Field(f, k) = info[k]
  <2>1. /\ Len(f) - InfoSize + 2 * k - 1 = p + (2 * k - 1) /\ p + (2 * k - 1) + 1 = p + 2 * k
        /\ 2 * k - 1 \in 1..18 /\ 2 * k \in 1..18
    BY <1>1 DEF InfoSize
  <2>2. Field(f, k) = <<f[p + (2 * k - 1)], f[p + 2 * k]>>
    BY <2>1, Zenon DEF Field
  <2>3. info[k] = <<info[k][1], info[k][2]>>
    <3>1. info[k] \in Num
      <4>1. k \in 1..Len(info)
        BY <1>2
      <4> QED
        BY <1>2, <4>1, ElementOfSeq
    <3> QED
      BY <3>1 DEF Num
  <2> QED
    BY <1>3, <1>4, <2>1, <2>2, <2>3
<1>6. /\ Field(f, 1) = info[1] /\ Field(f, 2) = info[2] /\ Field(f, 4) = info[4]
      /\ Field(f, 5) = info[5] /\ Field(f, 6) = info[6] /\ Field(f, 8) = info[8]
  BY <1>5
<1>7. /\ info[1] = o.ratio /\ info[2] = o.limit
      /\ info[4] = Pair(Len(o.offs)) /\ info[5] = Pair(2 * Len(o.block))
      /\ info[6] = Pair(o.freed) /\ info[8] = Pair(Len(o.syncs))
  BY InfoIs DEF info
<1>8. Len(o.offs) \in Nat /\ Len(o.block) \in Nat /\ o.freed \in Nat /\ Len(o.syncs) \in Nat
  <2>1. o \in Dicts
    BY DEF Shape
  <2> QED
    BY <2>1 DEF Dicts
<1>9. /\ Value(Pair(Len(o.offs))) = Len(o.offs) /\ Value(Pair(o.freed)) = o.freed
      /\ Value(Pair(Len(o.syncs))) = Len(o.syncs)
  BY <1>8, PairValue DEF Fits
<1>10. Value(Pair(2 * Len(o.block))) \div 2 = Len(o.block)
  <2>1. PICK b \in Nat : b = Len(o.block)
    BY <1>8
  <2>2. 2 * b < Huge
    BY <2>1 DEF Fits
  <2>3. 2 * b \in Nat
    OBVIOUS
  <2>4. Value(Pair(2 * b)) = 2 * b
    BY <2>2, <2>3, PairValue
  <2>5. (2 * b) \div 2 = b
    OBVIOUS
  <2> QED
    BY <2>1, <2>4, <2>5
<1> QED
  BY <1>6, <1>7, <1>9, <1>10 DEF LemmaCount, LemmaSize, SyncCount

(* The block is read from its two parts. *)
LEMMA BlockRead ==
    ASSUME NEW o, Shape(o), o.state # NONE, NEW f \in Seq(Nat),
           Has(f, 2, KeptPart(o)), Has(f, 2 + KeptUnits(o), NewPart(o))
    PROVE  SubSeq(f, 3, 2 + Len(o.block)) = o.block
<1>1. o.block \in Seq(Nat) /\ KeptUnits(o) \in 0..Len(o.block)
  BY DEF Shape, Dicts
<1>2. PICK b \in Nat, k \in Nat : b = Len(o.block) /\ k = KeptUnits(o) /\ k <= b
  BY <1>1
<1>3. /\ Len(KeptPart(o)) = k /\ \A j \in 1..k : KeptPart(o)[j] = o.block[j]
      /\ Len(NewPart(o)) = b - k /\ \A j \in 1..(b - k) : NewPart(o)[j] = o.block[k + j]
  BY <1>1, <1>2, PartsIs
<1>4. 2 + b <= Len(f)
  BY <1>2, <1>3 DEF Has
<1>5. ASSUME NEW j \in 1..b PROVE f[2 + j] = o.block[j]
  <2>1. CASE j <= k
    <3>1. j \in 1..k
      BY <2>1
    <3>2. \A i \in 1..k : f[2 + i] = KeptPart(o)[i]
      BY <1>3, Zenon DEF Has
    <3> QED
      BY <1>3, <3>1, <3>2, Zenon
  <2>2. CASE j > k
    <3>1. j - k \in 1..(b - k) /\ 2 + k + (j - k) = 2 + j /\ k + (j - k) = j
      BY <1>2, <2>2
    <3>2. f[2 + k + (j - k)] = NewPart(o)[j - k]
      BY <1>2, <1>3, <3>1 DEF Has
    <3> QED
      BY <1>3, <3>1, <3>2
  <2> QED
    BY <1>2, <2>1, <2>2
<1>6. /\ SubSeq(f, 3, 2 + b) \in Seq(Nat) /\ Len(SubSeq(f, 3, 2 + b)) = b
      /\ \A j \in 1..b : SubSeq(f, 3, 2 + b)[j] = f[2 + j]
  <2>1. \A j \in 3..2 + b : f[j] \in Nat
    BY <1>4
  <2>2. /\ SubSeq(f, 3, 2 + b) \in Seq(Nat)
        /\ Len(SubSeq(f, 3, 2 + b)) = IF 3 <= 2 + b THEN 2 + b - 3 + 1 ELSE 0
        /\ \A j \in 1..2 + b - 3 + 1 : SubSeq(f, 3, 2 + b)[j] = f[3 + j - 1]
    BY <2>1, SubSeqProperties
  <2>3. /\ (IF 3 <= 2 + b THEN 2 + b - 3 + 1 ELSE 0) = b /\ 2 + b - 3 + 1 = b
        /\ \A j \in 1..b : 3 + j - 1 = 2 + j
    OBVIOUS
  <2> QED
    BY <2>2, <2>3, Zenon
<1> HIDE DEF Shape
<1>7. SubSeq(f, 3, 2 + b) = o.block
  BY <1>1, <1>2, <1>5, <1>6
<1> QED
  BY <1>2, <1>7

(* A sequence of two. *)
LEMMA TwoUnits ==
    ASSUME NEW t \in Seq(Nat), Len(t) = 2
    PROVE  t = <<t[1], t[2]>>
OBVIOUS

(* A number in two units. *)
LEMMA PairParts ==
    ASSUME NEW n \in Nat, n < Huge
    PROVE  \E l, h \in Nat : Pair(n) = <<l, h>> /\ n = l + 65536 * h /\ l < 65536 /\ h < 256
<1>1. /\ n % 65536 \in Nat /\ n % 65536 < 65536 /\ n \div 65536 \in Nat
      /\ n = (n % 65536) + 65536 * (n \div 65536)
  OBVIOUS
<1>2. n \div 65536 < 256
  BY <1>1 DEF Huge
<1> QED
  BY <1>1, <1>2 DEF Pair

(* The parts of a sum: nothing is lost in 32 bits. *)
LEMMA SizeInBytes ==
    ASSUME NEW f, NEW a \in Nat, NEW n \in Nat, NEW y \in Nat, a < Huge, n < Huge, y < Huge,
           Field(f, 5) = Pair(a), Field(f, 4) = Pair(n), Field(f, 8) = Pair(y)
    PROVE  DictFileSize(f) = Pair(40 + a + 12 * n + 4 * y)
<1>1. PICK al \in Nat, ah \in Nat :
        Pair(a) = <<al, ah>> /\ a = al + 65536 * ah /\ al < 65536 /\ ah < 256
  BY PairParts
<1>2. PICK nl \in Nat, nh \in Nat :
        Pair(n) = <<nl, nh>> /\ n = nl + 65536 * nh /\ nl < 65536 /\ nh < 256
  BY PairParts
<1>3. PICK yl \in Nat, yh \in Nat :
        Pair(y) = <<yl, yh>> /\ y = yl + 65536 * yh /\ yl < 65536 /\ yh < 256
  BY PairParts
<1> DEFINE low  == 40 + al + 12 * nl + 4 * yl
           high == ah + 12 * nh + 4 * yh + low \div 65536
<1>4. DictFileSize(f) = <<low % 65536, high % 65536>>
  <2>1. 4 + 2 * InfoSize + al + 12 * nl + 4 * yl = low
    BY DEF InfoSize
  <2> QED
    BY <1>1, <1>2, <1>3, <2>1 DEF DictFileSize
<1>5. PICK q \in Nat, r \in Nat :
        q = low \div 65536 /\ r = low % 65536 /\ low = r + 65536 * q /\ r < 65536 /\ q < 32
  <2>1. low \in Nat /\ low < 32 * 65536
    BY <1>1, <1>2, <1>3
  <2> HIDE DEF low
  <2>2. /\ low % 65536 \in Nat /\ low % 65536 < 65536 /\ low \div 65536 \in Nat
        /\ low = (low % 65536) + 65536 * (low \div 65536)
    BY <2>1
  <2> QED
    BY <2>1, <2>2
<1>6. high \in Nat /\ high < 65536 /\ high % 65536 = high
  <2>1. high = ah + 12 * nh + 4 * yh + q
    BY <1>5
  <2> HIDE DEF high
  <2>2. high \in Nat /\ high < 65536
    BY <1>1, <1>2, <1>3, <1>5, <2>1
  <2> QED
    BY <2>2
<1>7. 40 + a + 12 * n + 4 * y = r + 65536 * high
  <2>1. high = ah + 12 * nh + 4 * yh + q
    BY <1>5
  <2> QED
    BY <1>1, <1>2, <1>3, <1>5, <2>1
<1> HIDE DEF low, high
<1>8. (r + 65536 * high) % 65536 = r /\ (r + 65536 * high) \div 65536 = high
  BY <1>5, <1>6
<1> QED
  BY <1>4, <1>5, <1>6, <1>7, <1>8 DEF Pair

(* What a finished write-back leaves is read as the object was. *)
LEMMA ReadBack ==
    ASSUME NEW o, Shape(o), o.state # NONE, Fits(o),
           NEW f \in Seq(Nat), Len(f) = Pos(o, 8), HasUpTo(f, o, 8)
    PROVE  Sound(f) /\ Decoded(f) = Memory(o)
<1>1. /\ Has(f, Pos(o, 0), Seg(o, 0)) /\ Has(f, Pos(o, 1), Seg(o, 1))
      /\ Has(f, Pos(o, 2), Seg(o, 2)) /\ Has(f, Pos(o, 3), Seg(o, 3))
      /\ Has(f, Pos(o, 4), Seg(o, 4)) /\ Has(f, Pos(o, 5), Seg(o, 5))
      /\ Has(f, Pos(o, 6), Seg(o, 6)) /\ Has(f, Pos(o, 7), Seg(o, 7))
  <2>1. \A i \in {0, 1, 2, 3, 4, 5, 6, 7} : i \in 0..7 /\ i < 8
    OBVIOUS
  <2> QED
    BY <2>1, Zenon DEF HasUpTo
<1>2. /\ Field(f, 1) = o.ratio /\ Field(f, 2) = o.limit
      /\ LemmaCount(f) = Len(o.offs) /\ LemmaSize(f) = Len(o.block)
      /\ Value(Field(f, 6)) = o.freed /\ SyncCount(f) = Len(o.syncs)
      /\ Field(f, 4) = Pair(Len(o.offs)) /\ Field(f, 5) = Pair(2 * Len(o.block))
      /\ Field(f, 8) = Pair(Len(o.syncs))
  BY <1>1, FieldsWritten
<1>3. /\ o.offs \in Seq(Num) /\ o.preds \in Seq(Num) /\ o.scores \in Seq(Num)
      /\ o.syncs \in Seq(Num) /\ o.block \in Seq(Nat)
      /\ Len(o.preds) = Len(o.offs) /\ Len(o.scores) = Len(o.offs)
  BY DEF Shape, Dicts
<1>4. PICK b \in Nat, n \in Nat, y \in Nat : b = Len(o.block) /\ n = Len(o.offs) /\ y = Len(o.syncs)
  BY <1>3
<1>5. /\ Pos(o, 0) = 0 /\ Pos(o, 1) = 2 /\ Pos(o, 2) = 2 + KeptUnits(o)
      /\ Pos(o, 3) = 2 + b /\ Pos(o, 4) = 2 + b + 2 * n /\ Pos(o, 5) = 2 + b + 4 * n
      /\ Pos(o, 6) = 2 + b + 6 * n /\ Pos(o, 8) = 2 + b + 6 * n + 2 * y + 18
  BY <1>4 DEF Pos, InfoSize
<1>6. SubSeq(f, 3, 2 + b) = o.block
  BY <1>1, <1>4, <1>5, BlockRead, SegmentsAre
<1>7. /\ Pairs(f, 2 + b, n) = o.offs /\ Pairs(f, 2 + b + 2 * n, n) = o.preds
      /\ Pairs(f, 2 + b + 4 * n, n) = o.scores /\ Pairs(f, 2 + b + 6 * n, y) = o.syncs
  <2>1. /\ 2 + b \in Nat /\ 2 + b + 2 * n \in Nat /\ 2 + b + 4 * n \in Nat /\ 2 + b + 6 * n \in Nat
    OBVIOUS
  <2>2. /\ Has(f, 2 + b, Written(o.offs)) /\ Has(f, 2 + b + 2 * n, Written(o.preds))
        /\ Has(f, 2 + b + 4 * n, Written(o.scores)) /\ Has(f, 2 + b + 6 * n, Written(o.syncs))
    BY <1>1, <1>5, SegmentsAre
  <2>0. Len(o.preds) = n /\ Len(o.scores) = n
    BY <1>3, <1>4
  <2>3. Pairs(f, 2 + b, n) = o.offs
    BY <1>3, <1>4, <2>0, <2>1, <2>2, PairsRead
  <2>4. Pairs(f, 2 + b + 2 * n, n) = o.preds
    BY <1>3, <1>4, <2>0, <2>1, <2>2, PairsRead
  <2>5. Pairs(f, 2 + b + 4 * n, n) = o.scores
    BY <1>3, <1>4, <2>0, <2>1, <2>2, PairsRead
  <2>6. Pairs(f, 2 + b + 6 * n, y) = o.syncs
    BY <1>3, <1>4, <2>0, <2>1, <2>2, PairsRead
  <2> QED
    BY <2>3, <2>4, <2>5, <2>6
<1>8. Decoded(f) = Memory(o)
  BY <1>2, <1>4, <1>6, <1>7, Zenon DEF Decoded, Memory
<1>9. SubSeq(f, 1, 2) = Version /\ Len(f) >= 2 + InfoSize
  <2>1. Len(f) >= 20
    BY <1>5
  <2>2. Len(Version) = 2 /\ Version = <<Version[1], Version[2]>>
    BY DEF Version
  <2>3. Has(f, 0, Version)
    BY <1>1, <1>5, SegmentsAre
  <2>4. f[1] = Version[1] /\ f[2] = Version[2]
    <3>1. f[0 + 1] = Version[1] /\ f[0 + 2] = Version[2]
      BY <2>2, <2>3 DEF Has
    <3> QED
      BY <3>1
  <2>5. SubSeq(f, 1, 2) = <<f[1], f[2]>>
    <3>1. \A j \in 1..2 : f[j] \in Nat
      BY <2>1
    <3>2. /\ SubSeq(f, 1, 2) \in Seq(Nat) /\ Len(SubSeq(f, 1, 2)) = IF 1 <= 2 THEN 2 - 1 + 1 ELSE 0
          /\ \A j \in 1..2 - 1 + 1 : SubSeq(f, 1, 2)[j] = f[1 + j - 1]
      BY <3>1, SubSeqProperties
    <3>3. Len(SubSeq(f, 1, 2)) = 2 /\ SubSeq(f, 1, 2)[1] = f[1] /\ SubSeq(f, 1, 2)[2] = f[2]
      BY <3>2
    <3> QED
      BY <3>2, <3>3, TwoUnits
  <2> QED
    BY <2>1, <2>2, <2>4, <2>5 DEF InfoSize
<1>10. Loadable(f) /\ 2 * Len(f) = 40 + 2 * b + 12 * n + 4 * y
  <2> PICK z \in Nat : z = Len(f)
    OBVIOUS
  <2>1. z = 2 + b + 6 * n + 2 * y + 18
    BY <1>5
  <2>2. LemmaCount(f) = n /\ LemmaSize(f) = b /\ SyncCount(f) = y
    BY <1>2, <1>4
  <2>3. z >= 18 /\ 2 + b + 6 * n + 2 * y <= z /\ 2 * z = 40 + 2 * b + 12 * n + 4 * y
    BY <2>1
  <2> QED
    BY <2>2, <2>3 DEF InfoSize, Loadable
<1>11. DictFileSize(f) = Pair(2 * Len(f))
  <2>1. 2 * b < Huge /\ n < Huge /\ y < Huge
    BY <1>4 DEF Fits
  <2> PICK a \in Nat : a = 2 * b
    OBVIOUS
  <2>2. Field(f, 5) = Pair(a) /\ Field(f, 4) = Pair(n) /\ Field(f, 8) = Pair(y)
    BY <1>2, <1>4
  <2>3. DictFileSize(f) = Pair(40 + a + 12 * n + 4 * y)
    BY <2>1, <2>2, SizeInBytes
  <2> QED
    BY <1>10, <2>3
<1> QED
  BY <1>8, <1>9, <1>10, <1>11 DEF Validate, Sound

(* The segments are those of the lists and the counts alone. *)
SameData(x, y) ==
    /\ x.block = y.block /\ x.offs = y.offs /\ x.preds = y.preds /\ x.scores = y.scores
    /\ x.syncs = y.syncs /\ x.ratio = y.ratio /\ x.limit = y.limit /\ x.freed = y.freed
    /\ x.room = y.room

(* Objects of the same data have the same segments. *)
LEMMA SameSegments ==
    ASSUME NEW x, NEW y, SameData(x, y)
    PROVE  /\ KeptUnits(x) = KeptUnits(y) /\ InfoOf(x) = InfoOf(y) /\ Memory(x) = Memory(y)
           /\ \A i : Seg(x, i) = Seg(y, i) /\ Pos(x, i) = Pos(y, i)
           /\ \A f, n : HasUpTo(f, x, n) <=> HasUpTo(f, y, n)
           /\ \A n : Small(x, n) <=> Small(y, n)
<1>1. KeptUnits(x) = KeptUnits(y)
  BY DEF SameData, KeptUnits
<1>2. InfoOf(x) = InfoOf(y)
  BY DEF SameData, InfoOf
<1>3. Memory(x) = Memory(y)
  BY DEF SameData, Memory
<1>4. KeptPart(x) = KeptPart(y) /\ NewPart(x) = NewPart(y)
  BY <1>1 DEF SameData, KeptPart, NewPart
<1>5. ASSUME NEW i PROVE Seg(x, i) = Seg(y, i)
  BY <1>2, <1>4, Zenon DEF SameData, Seg
<1>6. ASSUME NEW i PROVE Pos(x, i) = Pos(y, i)
  BY <1>1, Zenon DEF SameData, Pos
<1>7. \A f, n : HasUpTo(f, x, n) <=> HasUpTo(f, y, n)
  <2> SUFFICES ASSUME NEW f, NEW n PROVE HasUpTo(f, x, n) <=> HasUpTo(f, y, n)
    OBVIOUS
  <2>1. \A i : Has(f, Pos(x, i), Seg(x, i)) <=> Has(f, Pos(y, i), Seg(y, i))
    BY <1>5, <1>6, Zenon
  <2> QED
    BY <2>1, Zenon DEF HasUpTo
<1>8. \A n : Small(x, n) <=> Small(y, n)
  BY Zenon DEF SameData, Small
<1> QED
  BY <1>1, <1>2, <1>3, <1>5, <1>6, <1>7, <1>8

(* What load reads is made of numbers. *)
LEMMA DecodedIs ==
    ASSUME NEW f \in Seq(Nat), Loadable(f)
    PROVE  /\ LemmaSize(f) \in Nat /\ LemmaCount(f) \in Nat /\ SyncCount(f) \in Nat
           /\ Decoded(f).block \in Seq(Nat) /\ Len(Decoded(f).block) = LemmaSize(f)
           /\ Decoded(f).offs \in Seq(Num) /\ Len(Decoded(f).offs) = LemmaCount(f)
           /\ Decoded(f).preds \in Seq(Num) /\ Len(Decoded(f).preds) = LemmaCount(f)
           /\ Decoded(f).scores \in Seq(Num) /\ Len(Decoded(f).scores) = LemmaCount(f)
           /\ Decoded(f).syncs \in Seq(Num) /\ Len(Decoded(f).syncs) = SyncCount(f)
           /\ Decoded(f).ratio \in Num /\ Decoded(f).limit \in Num /\ Decoded(f).freed \in Nat
           /\ Has(f, 2, Decoded(f).block)
           /\ Has(f, 2 + LemmaSize(f), Written(Decoded(f).offs))
           /\ Has(f, 2 + LemmaSize(f) + 2 * LemmaCount(f), Written(Decoded(f).preds))
           /\ Has(f, 2 + LemmaSize(f) + 4 * LemmaCount(f), Written(Decoded(f).scores))
           /\ Has(f, 2 + LemmaSize(f) + 6 * LemmaCount(f), Written(Decoded(f).syncs))
<1>1. Len(f) \in Nat /\ Len(f) >= 18
  BY DEF Loadable, InfoSize
<1>2. ASSUME NEW k \in 1..9 PROVE Field(f, k) \in Num
  <2>1. Len(f) - 18 + 2 * k - 1 \in 1..Len(f) /\ Len(f) - 18 + 2 * k - 1 + 1 \in 1..Len(f)
    BY <1>1
  <2>2. f[Len(f) - 18 + 2 * k - 1] \in Nat /\ f[Len(f) - 18 + 2 * k - 1 + 1] \in Nat
    BY <2>1, ElementOfSeq
  <2>3. Field(f, k) = <<f[Len(f) - 18 + 2 * k - 1], f[Len(f) - 18 + 2 * k - 1 + 1]>>
    BY Zenon DEF Field, InfoSize
  <2>4. \A a, b \in Nat : <<a, b>> \in Num
    BY DEF Num
  <2> QED
    BY <2>2, <2>3, <2>4, Zenon
<1>3. /\ Value(Field(f, 4)) \in Nat /\ Value(Field(f, 5)) \in Nat /\ Value(Field(f, 6)) \in Nat
      /\ Value(Field(f, 8)) \in Nat /\ Field(f, 1) \in Num /\ Field(f, 2) \in Num
  BY <1>2, ValueNat
<1>4. LemmaSize(f) \in Nat /\ LemmaCount(f) \in Nat /\ SyncCount(f) \in Nat
  BY <1>3 DEF LemmaSize, LemmaCount, SyncCount
<1>5. PICK b \in Nat, n \in Nat, y \in Nat :
        b = LemmaSize(f) /\ n = LemmaCount(f) /\ y = SyncCount(f)
  BY <1>4
<1>6. 2 + b + 6 * n + 2 * y <= Len(f)
  BY <1>5 DEF Loadable
<1>7. /\ SubSeq(f, 3, 2 + b) \in Seq(Nat) /\ Len(SubSeq(f, 3, 2 + b)) = b
      /\ \A j \in 1..b : SubSeq(f, 3, 2 + b)[j] = f[2 + j]
  <2>1. \A j \in 3..2 + b : f[j] \in Nat
    <3>1. 2 + b <= Len(f)
      BY <1>1, <1>6
    <3> QED
      BY <1>1, <3>1
  <2>2. /\ SubSeq(f, 3, 2 + b) \in Seq(Nat)
        /\ Len(SubSeq(f, 3, 2 + b)) = IF 3 <= 2 + b THEN 2 + b - 3 + 1 ELSE 0
        /\ \A j \in 1..2 + b - 3 + 1 : SubSeq(f, 3, 2 + b)[j] = f[3 + j - 1]
    BY <2>1, SubSeqProperties
  <2>3. /\ (IF 3 <= 2 + b THEN 2 + b - 3 + 1 ELSE 0) = b /\ 2 + b - 3 + 1 = b
        /\ \A j \in 1..b : 3 + j - 1 = 2 + j
    OBVIOUS
  <2> QED
    BY <2>2, <2>3, Zenon
<1>8. Has(f, 2, SubSeq(f, 3, 2 + b))
  <2>1. 2 + b <= Len(f)
    BY <1>1, <1>6
  <2> QED
    BY <1>7, <2>1 DEF Has
<1>9. /\ 2 + b + 2 * n <= Len(f) /\ 2 + b + 2 * n + 2 * n <= Len(f)
      /\ 2 + b + 4 * n + 2 * n <= Len(f) /\ 2 + b + 6 * n + 2 * y <= Len(f)
      /\ 2 + b \in Nat /\ 2 + b + 2 * n \in Nat /\ 2 + b + 4 * n \in Nat /\ 2 + b + 6 * n \in Nat
  BY <1>1, <1>6
<1>10. /\ Pairs(f, 2 + b, n) \in Seq(Num) /\ Len(Pairs(f, 2 + b, n)) = n
       /\ Has(f, 2 + b, Written(Pairs(f, 2 + b, n)))
  BY <1>9, PairsAre
<1>11. /\ Pairs(f, 2 + b + 2 * n, n) \in Seq(Num) /\ Len(Pairs(f, 2 + b + 2 * n, n)) = n
       /\ Has(f, 2 + b + 2 * n, Written(Pairs(f, 2 + b + 2 * n, n)))
  BY <1>9, PairsAre
<1>12. /\ Pairs(f, 2 + b + 4 * n, n) \in Seq(Num) /\ Len(Pairs(f, 2 + b + 4 * n, n)) = n
       /\ Has(f, 2 + b + 4 * n, Written(Pairs(f, 2 + b + 4 * n, n)))
  BY <1>9, PairsAre
<1>13. /\ Pairs(f, 2 + b + 6 * n, y) \in Seq(Num) /\ Len(Pairs(f, 2 + b + 6 * n, y)) = y
       /\ Has(f, 2 + b + 6 * n, Written(Pairs(f, 2 + b + 6 * n, y)))
  BY <1>9, PairsAre
<1>14. /\ Decoded(f).block = SubSeq(f, 3, 2 + b)
       /\ Decoded(f).offs = Pairs(f, 2 + b, n) /\ Decoded(f).preds = Pairs(f, 2 + b + 2 * n, n)
       /\ Decoded(f).scores = Pairs(f, 2 + b + 4 * n, n)
       /\ Decoded(f).syncs = Pairs(f, 2 + b + 6 * n, y)
       /\ Decoded(f).ratio = Field(f, 1) /\ Decoded(f).limit = Field(f, 2)
       /\ Decoded(f).freed = Value(Field(f, 6))
  BY <1>5 DEF Decoded
<1>15. /\ Decoded(f).block \in Seq(Nat) /\ Len(Decoded(f).block) = b /\ Has(f, 2, Decoded(f).block)
       /\ Decoded(f).ratio \in Num /\ Decoded(f).limit \in Num /\ Decoded(f).freed \in Nat
  BY <1>3, <1>7, <1>8, <1>14, Zenon
<1>16. /\ Decoded(f).offs \in Seq(Num) /\ Len(Decoded(f).offs) = n
       /\ Decoded(f).preds \in Seq(Num) /\ Len(Decoded(f).preds) = n
       /\ Decoded(f).scores \in Seq(Num) /\ Len(Decoded(f).scores) = n
       /\ Decoded(f).syncs \in Seq(Num) /\ Len(Decoded(f).syncs) = y
  BY <1>10, <1>11, <1>12, <1>13, <1>14, Zenon
<1>17. /\ Has(f, 2 + b, Written(Decoded(f).offs))
       /\ Has(f, 2 + b + 2 * n, Written(Decoded(f).preds))
       /\ Has(f, 2 + b + 4 * n, Written(Decoded(f).scores))
       /\ Has(f, 2 + b + 6 * n, Written(Decoded(f).syncs))
  BY <1>10, <1>11, <1>12, <1>13, <1>14, Zenon
<1> QED
  BY <1>5, <1>15, <1>16, <1>17, Zenon

(* What a new block has room for. *)
LEMMA RoomInt == PreAlloc * Average \in Nat
BY FileAssumption

(* A dictionary that has just been read is the file's, whatever it was. *)
LEMMA LoadedIs ==
    ASSUME NEW o, Shape(o), o.pc \notin {"lock", "write"}, NEW f \in Seq(Nat), Loadable(f)
    PROVE  /\ Shape(Loaded(o, f)) /\ Loaded(o, f).state = SYNC
           /\ Memory(Loaded(o, f)) = Decoded(f)
           /\ Validate(f) => HasUpTo(f, Loaded(o, f), 7)
<1> DEFINE x == Decoded(f)
           r == Loaded(o, f)
<1>1. /\ x.block \in Seq(Nat) /\ x.offs \in Seq(Num) /\ x.preds \in Seq(Num)
      /\ x.scores \in Seq(Num) /\ x.syncs \in Seq(Num)
      /\ x.ratio \in Num /\ x.limit \in Num /\ x.freed \in Nat
      /\ Len(x.block) = LemmaSize(f) /\ Len(x.offs) = LemmaCount(f)
      /\ Len(x.preds) = Len(x.offs) /\ Len(x.scores) = Len(x.offs)
      /\ Len(x.syncs) = SyncCount(f)
  BY DecodedIs
<1>2. o \in Dicts
  BY DEF Shape
<1> PICK y : y = x
  OBVIOUS
<1>3. r = [o EXCEPT !.state = SYNC, !.block = y.block, !.offs = y.offs, !.preds = y.preds,
                  !.scores = y.scores, !.syncs = y.syncs, !.ratio = y.ratio, !.limit = y.limit,
                  !.freed = y.freed, !.left = PreAlloc, !.room = PreAlloc * Average,
                  !.freed_name = FALSE]
  BY DEF Loaded
<1> HIDE DEF r, x
<1>4. /\ r.state = SYNC /\ r.block = y.block /\ r.offs = y.offs /\ r.preds = y.preds
      /\ r.scores = y.scores /\ r.syncs = y.syncs /\ r.ratio = y.ratio /\ r.limit = y.limit
      /\ r.freed = y.freed /\ r.left = PreAlloc /\ r.room = PreAlloc * Average
      /\ r.freed_name = FALSE /\ r.pc = o.pc /\ r.then = o.then
  BY <1>2, <1>3 DEF Dicts
<1>5. r \in Dicts
  <2>1. PreAlloc \in Int /\ PreAlloc * Average \in Int /\ SYNC \in 0..5
    <3>1. PreAlloc \in Int
      BY FileAssumption
    <3>2. PreAlloc * Average \in Int
      BY RoomInt
    <3>3. SYNC \in 0..5
      BY DEF SYNC
    <3> QED
      BY <3>1, <3>2, <3>3
  <2>2. /\ y.block \in Seq(Nat) /\ y.offs \in Seq(Num) /\ y.preds \in Seq(Num)
        /\ y.scores \in Seq(Num) /\ y.syncs \in Seq(Num)
        /\ y.ratio \in Num /\ y.limit \in Num /\ y.freed \in Nat
    BY <1>1
  <2> PICK room : room = PreAlloc * Average
    OBVIOUS
  <2>3. r = [o EXCEPT !.state = SYNC, !.block = y.block, !.offs = y.offs, !.preds = y.preds,
                  !.scores = y.scores, !.syncs = y.syncs, !.ratio = y.ratio, !.limit = y.limit,
                  !.freed = y.freed, !.left = PreAlloc, !.room = room,
                  !.freed_name = FALSE]
    BY <1>3
  <2>4. room \in Int
    BY <2>1
  <2> QED
    <3>1. PICK z : z = [o EXCEPT !.state = SYNC, !.block = y.block, !.offs = y.offs,
                                 !.preds = y.preds, !.scores = y.scores]
      OBVIOUS
    <3>2. z \in Dicts
      BY <1>2, <2>1, <2>2, <3>1 DEF Dicts
    <3>3. r = [z EXCEPT !.syncs = y.syncs, !.ratio = y.ratio, !.limit = y.limit,
                        !.freed = y.freed, !.left = PreAlloc, !.room = room,
                        !.freed_name = FALSE]
      BY <2>3, <3>1, Zenon
    <3> QED
      BY <2>1, <2>2, <2>4, <3>2, <3>3 DEF Dicts
<1>6. KeptUnits(r) = Len(r.block) /\ Len(r.block) \in Nat
  BY <1>1, <1>4, RoomInt DEF KeptUnits
<1>7. Shape(r)
  BY <1>1, <1>4, <1>5, <1>6 DEF Shape, SYNC, NONE
<1>8. Memory(r) = Decoded(f)
  <2>1. Memory(r) =
          [block |-> y.block, offs |-> y.offs, preds |-> y.preds, scores |-> y.scores,
           syncs |-> y.syncs, ratio |-> y.ratio, limit |-> y.limit, freed |-> y.freed]
    BY <1>4, Zenon DEF Memory
  <2>2. y = [block |-> y.block, offs |-> y.offs, preds |-> y.preds, scores |-> y.scores,
           syncs |-> y.syncs, ratio |-> y.ratio, limit |-> y.limit, freed |-> y.freed]
    BY DEF Decoded, x
  <2> QED
    BY <2>1, <2>2 DEF x
<1>9. ASSUME Validate(f) PROVE HasUpTo(f, r, 7)
  <2>2. /\ Pos(r, 0) = 0 /\ Pos(r, 1) = 2 /\ Pos(r, 2) = 2 + Len(r.block)
        /\ Pos(r, 3) = 2 + LemmaSize(f) /\ Pos(r, 4) = 2 + LemmaSize(f) + 2 * LemmaCount(f)
        /\ Pos(r, 5) = 2 + LemmaSize(f) + 4 * LemmaCount(f)
        /\ Pos(r, 6) = 2 + LemmaSize(f) + 6 * LemmaCount(f)
    <3>1. /\ Len(r.block) = LemmaSize(f) /\ Len(r.offs) = LemmaCount(f)
          /\ Len(r.syncs) = SyncCount(f)
      BY <1>1, <1>4
    <3>2. PICK b \in Nat, n \in Nat, z \in Nat :
             b = LemmaSize(f) /\ n = LemmaCount(f) /\ z = SyncCount(f)
      BY DecodedIs
    <3>3. KeptUnits(r) = b /\ b <= b
      BY <1>6, <3>1, <3>2
    <3>4. /\ Pos(r, 0) = 0 /\ Pos(r, 1) = 2 /\ Pos(r, 2) = 2 + b /\ Pos(r, 3) = 2 + b
          /\ Pos(r, 4) = 2 + b + 2 * n /\ Pos(r, 5) = 2 + b + 4 * n /\ Pos(r, 6) = 2 + b + 6 * n
      BY <3>1, <3>2, <3>3 DEF Pos
    <3> QED
      BY <3>1, <3>2, <3>4, Zenon
  <2>3. /\ Has(f, 2 + LemmaSize(f), Seg(r, 3))
        /\ Has(f, 2 + LemmaSize(f) + 2 * LemmaCount(f), Seg(r, 4))
        /\ Has(f, 2 + LemmaSize(f) + 4 * LemmaCount(f), Seg(r, 5))
        /\ Has(f, 2 + LemmaSize(f) + 6 * LemmaCount(f), Seg(r, 6))
    BY <1>4, DecodedIs, SegmentsAre DEF x
  <2>4. Has(f, 0, Seg(r, 0))
    <3>1. Len(f) >= 20 /\ SubSeq(f, 1, 2) = Version
      BY <1>9 DEF Validate, InfoSize
    <3>2. \A j \in 1..2 : f[j] \in Nat
      BY <3>1
    <3>3. \A j \in 1..2 - 1 + 1 : SubSeq(f, 1, 2)[j] = f[1 + j - 1]
      BY <3>2, SubSeqProperties
    <3>4. Version[1] = f[1] /\ Version[2] = f[2]
      BY <3>1, <3>3
    <3>5. Len(Version) = 2
      BY DEF Version
    <3>6. Len(f) \in Nat /\ \A j \in 1..2 : f[0 + j] = Version[j]
      BY <3>4
    <3>7. Has(f, 0, Version)
      BY <3>1, <3>5, <3>6 DEF Has
    <3> QED
      BY <3>7, SegmentsAre
  <2>5. Has(f, 2, Seg(r, 1))
    <3>1. KeptPart(r) = r.block
      BY <1>1, <1>4, <1>6, SubSeqFull DEF KeptPart
    <3> QED
      BY <1>4, <3>1, DecodedIs, SegmentsAre DEF x
  <2>6. Has(f, 2 + Len(r.block), Seg(r, 2))
    <3>0. r.block \in Seq(Nat) /\ KeptUnits(r) \in 0..Len(r.block)
      BY <1>1, <1>4, <1>6
    <3>1. Len(NewPart(r)) = 0
      BY <1>6, <3>0, PartsIs
    <3>2. 2 + Len(r.block) <= Len(f)
      BY <1>1, <1>4, DecodedIs DEF Has, x
    <3> QED
      BY <1>6, <3>1, <3>2, SegmentsAre DEF Has
  <2>7. ASSUME NEW i \in 0..7, i < 7 PROVE Has(f, Pos(r, i), Seg(r, i))
    <3>1. i = 0 \/ i = 1 \/ i = 2 \/ i = 3 \/ i = 4 \/ i = 5 \/ i = 6
      BY <2>7
    <3> QED
      BY <2>2, <2>3, <2>4, <2>5, <2>6, <3>1, Zenon
  <2> QED
    BY <2>7 DEF HasUpTo
<1> QED
  BY <1>4, <1>7, <1>8, <1>9 DEF r

-----------------------------------------------------------------------------
(* What the calls do to an object, and which segments they leave alone. *)

(* The level rises, and never beyond the one asked for or the one before. *)
LEMMA DirtyIs ==
    ASSUME NEW o, o.state \in 1..5, NEW level \in 3..5
    PROVE  /\ Dirty(o, level) \in 3..5 /\ Dirty(o, level) >= level /\ Dirty(o, level) >= o.state
           /\ FirstWritten(Dirty(o, level)) \in 2..5
           /\ FirstWritten(Dirty(o, level)) <= FirstWritten(o.state)
           /\ level = 3 => FirstWritten(Dirty(o, level)) <= 5
           /\ level = 4 => FirstWritten(Dirty(o, level)) <= 3
           /\ level = 5 => FirstWritten(Dirty(o, level)) = 2 /\ Dirty(o, level) = 5
           /\ level < 5 => (Dirty(o, level) = 5 <=> o.state = 5)
<1>1. /\ FirstWritten(1) = 7 /\ FirstWritten(2) = 6 /\ FirstWritten(3) = 5
      /\ FirstWritten(4) = 3 /\ FirstWritten(5) = 2
  BY DEF FirstWritten, SYNC, SYNC_DIRTY, SCORE_DIRTY, OFFSET_DIRTY, LEMMA_DIRTY
<1>2. o.state \in {1, 2, 3, 4, 5} /\ level \in {3, 4, 5}
  OBVIOUS
<1>3. Dirty(o, level) = IF o.state < level THEN level ELSE o.state
  BY DEF Dirty
<1> QED
  BY <1>1, <1>2, <1>3, SMTT(30)

(* The two parts of the block depend on the block and the room. *)
LEMMA SameBlock ==
    ASSUME NEW o, NEW x, x.block = o.block, x.room = o.room
    PROVE  /\ KeptUnits(x) = KeptUnits(o)
           /\ Seg(x, 0) = Seg(o, 0) /\ Seg(x, 1) = Seg(o, 1) /\ Seg(x, 2) = Seg(o, 2)
           /\ Pos(x, 0) = Pos(o, 0) /\ Pos(x, 1) = Pos(o, 1) /\ Pos(x, 2) = Pos(o, 2)
           /\ Pos(x, 3) = Pos(o, 3)
<1>1. KeptUnits(x) = KeptUnits(o)
  BY DEF KeptUnits
<1>2. KeptPart(x) = KeptPart(o) /\ NewPart(x) = NewPart(o)
  BY <1>1 DEF KeptPart, NewPart
<1>3. Seg(x, 0) = Seg(o, 0) /\ Seg(x, 1) = Seg(o, 1) /\ Seg(x, 2) = Seg(o, 2)
  BY <1>2, SegmentsAre
<1>4. /\ Pos(x, 0) = Pos(o, 0) /\ Pos(x, 1) = Pos(o, 1) /\ Pos(x, 2) = Pos(o, 2)
      /\ Pos(x, 3) = Pos(o, 3)
  <2>1. /\ Pos(x, 0) = 0 /\ Pos(x, 1) = 2 /\ Pos(x, 2) = 2 + KeptUnits(x)
        /\ Pos(x, 3) = 2 + Len(x.block)
    BY DEF Pos
  <2>2. /\ Pos(o, 0) = 0 /\ Pos(o, 1) = 2 /\ Pos(o, 2) = 2 + KeptUnits(o)
        /\ Pos(o, 3) = 2 + Len(o.block)
    BY DEF Pos
  <2> QED
    BY <1>1, <2>1, <2>2, Zenon
<1> QED
  BY <1>1, <1>3, <1>4

(* Scores and what is queued come last. *)
LEMMA ScoresCover ==
    ASSUME NEW o, o.state \in 1..5, NEW f, Covers(o, f),
           NEW x, x.block = o.block, x.room = o.room, x.offs = o.offs, x.preds = o.preds,
           x.state = Dirty(o, SCORE_DIRTY)
    PROVE  Covers(x, f)
<1>1. /\ FirstWritten(x.state) \in 2..5 /\ FirstWritten(x.state) <= FirstWritten(o.state)
  BY DirtyIs DEF SCORE_DIRTY
<1>2. FirstWritten(o.state) \in 2..7
  <2>1. /\ FirstWritten(1) = 7 /\ FirstWritten(2) = 6 /\ FirstWritten(3) = 5
        /\ FirstWritten(4) = 3 /\ FirstWritten(5) = 2
    BY DEF FirstWritten, SYNC, SYNC_DIRTY, SCORE_DIRTY, OFFSET_DIRTY, LEMMA_DIRTY
  <2> QED
    BY <2>1
<1>3. Seg(x, 3) = Seg(o, 3) /\ Seg(x, 4) = Seg(o, 4)
  BY SegmentsAre
<1>4. Pos(x, 4) = Pos(o, 4)
  BY DEF Pos
<1>5. ASSUME NEW i \in 0..7, i < FirstWritten(x.state) PROVE Has(f, Pos(x, i), Seg(x, i))
  <2>1. i < FirstWritten(o.state)
    BY <1>1, <1>2, <1>5
  <2>2. Has(f, Pos(o, i), Seg(o, i))
    BY <2>1 DEF Covers, HasUpTo
  <2>3. i = 0 \/ i = 1 \/ i = 2 \/ i = 3 \/ i = 4
    BY <1>1, <1>5
  <2>4. Pos(x, i) = Pos(o, i) /\ Seg(x, i) = Seg(o, i)
    BY <1>3, <1>4, <2>3, SameBlock, Zenon
  <2> QED
    BY <2>2, <2>4
<1> QED
  BY <1>5 DEF Covers, HasUpTo

(* The offsets come behind the block. *)
LEMMA OffsetsCover ==
    ASSUME NEW o, o.state \in 1..5, NEW f, Covers(o, f),
           NEW x, x.block = o.block, x.room = o.room,
           x.state = Dirty(o, OFFSET_DIRTY)
    PROVE  Covers(x, f)
<1>1. /\ FirstWritten(x.state) \in 2..5 /\ FirstWritten(x.state) <= FirstWritten(o.state)
      /\ FirstWritten(x.state) <= 3
  BY DirtyIs DEF OFFSET_DIRTY
<1>2. FirstWritten(o.state) \in 2..7
  <2>1. /\ FirstWritten(1) = 7 /\ FirstWritten(2) = 6 /\ FirstWritten(3) = 5
        /\ FirstWritten(4) = 3 /\ FirstWritten(5) = 2
    BY DEF FirstWritten, SYNC, SYNC_DIRTY, SCORE_DIRTY, OFFSET_DIRTY, LEMMA_DIRTY
  <2> QED
    BY <2>1
<1>3. ASSUME NEW i \in 0..7, i < FirstWritten(x.state) PROVE Has(f, Pos(x, i), Seg(x, i))
  <2>1. i < FirstWritten(o.state)
    BY <1>1, <1>2, <1>3
  <2>2. Has(f, Pos(o, i), Seg(o, i))
    BY <2>1 DEF Covers, HasUpTo
  <2>3. i = 0 \/ i = 1 \/ i = 2
    BY <1>1, <1>3
  <2>4. Pos(x, i) = Pos(o, i) /\ Seg(x, i) = Seg(o, i)
    BY <2>3, SameBlock, Zenon
  <2> QED
    BY <2>2, <2>4
<1> QED
  BY <1>3 DEF Covers, HasUpTo

(* The bound on the block with one lemma more. *)
LEMMA OneMore ==
    ASSUME NEW n \in Nat
    PROVE  /\ n * Average \in Nat /\ (n + 1) * Average \in Nat
           /\ (n + 1) * Average = n * Average + Average
           /\ n * Average <= (n + 1) * Average
<1>1. PICK a \in Nat : a = Average
  BY FileAssumption
<1>2. n * a \in Nat /\ (n + 1) * a \in Nat
  OBVIOUS
<1>3. (n + 1) * a = n * a + a
  OBVIOUS
<1>4. n * a <= (n + 1) * a
  BY <1>2, <1>3
<1> QED
  BY <1>1, <1>2, <1>3, <1>4

(* A list keeps its length where one of its numbers is set. *)
LEMMA EntrySet ==
    ASSUME NEW s \in Seq(Num), NEW k, NEW v \in Num
    PROVE  [s EXCEPT ![k] = v] \in Seq(Num) /\ Len([s EXCEPT ![k] = v]) = Len(s)
<1>1. CASE k \in 1..Len(s)
  BY <1>1
<1>2. CASE k \notin 1..Len(s)
  <2>1. DOMAIN s = 1..Len(s)
    OBVIOUS
  <2>2. [s EXCEPT ![k] = v] = s
    BY <1>2, <2>1
  <2> QED
    BY <2>2
<1> QED
  BY <1>1, <1>2

(* An entry's score may change; what a list grows by is queued. *)
Scored(o, k, v, q) ==
    [o EXCEPT !.scores[k] = v, !.syncs = q, !.state = Dirty(o, SCORE_DIRTY)]

(* A score that is set, and what is queued with it, leave the rest as it was. *)
LEMMA ScoreKeeps ==
    ASSUME NEW o, Shape(o), o.state # NONE, NEW k, NEW v \in Num, NEW q \in Seq(Num),
           o.pc \notin {"lock", "write"},
           NEW x, x = Scored(o, k, v, q)
    PROVE  /\ Shape(x) /\ x.state # NONE /\ x.pc = o.pc /\ x.then = o.then /\ x.time = o.time
           /\ \A f : Covers(o, f) => Covers(x, f)
           /\ \A n \in Nat : Small(o, n) /\ Len(q) <= n + 1 => Small(x, n + 1)
<1>1. /\ o \in Dicts /\ o.state \in 1..5 /\ o.scores \in Seq(Num)
  BY DEF Shape, Dicts, NONE
<1>2. PICK s : s = [o.scores EXCEPT ![k] = v]
  OBVIOUS
<1>3. s \in Seq(Num) /\ Len(s) = Len(o.scores)
  BY <1>1, <1>2, EntrySet
<1>4. PICK level : level = Dirty(o, SCORE_DIRTY)
  OBVIOUS
<1>5. level \in 3..5 /\ (level = 5 <=> o.state = 5)
  BY <1>1, <1>4, DirtyIs DEF SCORE_DIRTY
<1>6. x = [o EXCEPT !.scores = s, !.syncs = q, !.state = level]
  BY <1>1, <1>2, <1>4 DEF Dicts, Scored
<1>7. /\ x.state = level /\ x.scores = s /\ x.syncs = q /\ x.block = o.block /\ x.room = o.room
      /\ x.offs = o.offs /\ x.preds = o.preds /\ x.freed = o.freed
      /\ x.pc = o.pc /\ x.then = o.then /\ x.time = o.time
  BY <1>1, <1>6 DEF Dicts
<1>8. x \in Dicts
  <2>1. level \in 0..5
    BY <1>5
  <2> QED
    BY <1>1, <1>3, <1>6, <2>1 DEF Dicts
<1>9. Shape(x)
  <2>1. KeptUnits(x) = KeptUnits(o)
    BY <1>7 DEF KeptUnits
  <2> QED
    BY <1>1, <1>3, <1>5, <1>7, <1>8, <2>1 DEF Shape, NONE
<1>10. \A f : Covers(o, f) => Covers(x, f)
  BY <1>1, <1>4, <1>7, ScoresCover
<1>11. ASSUME NEW n \in Nat, Small(o, n), Len(q) <= n + 1 PROVE Small(x, n + 1)
  <2>1. Len(o.offs) \in Nat /\ o.freed \in Nat /\ Len(o.block) \in Nat
    BY <1>1 DEF Dicts
  <2>2. n * Average \in Nat /\ (n + 1) * Average \in Nat /\ n * Average <= (n + 1) * Average
    BY OneMore
  <2> QED
    BY <1>7, <1>11, <2>1, <2>2 DEF Small
<1> QED
  BY <1>5, <1>7, <1>9, <1>10, <1>11 DEF NONE

(* The offset of an entry is marked, here and in the other lists. *)
LEMMA RemoveKeeps ==
    ASSUME NEW o, Shape(o), o.state # NONE, o.pc \notin {"lock", "write"},
           NEW k \in DOMAIN o.offs, NEW x, x = RemoveEntry(o, k)
    PROVE  /\ Shape(x) /\ x.state # NONE /\ x.pc = o.pc /\ x.then = o.then /\ x.time = o.time
           /\ \A f : Covers(o, f) => Covers(x, f)
           /\ \A n \in Nat : Small(o, n) => Small(x, n + 1)
<1>1. /\ o \in Dicts /\ o.state \in 1..5 /\ o.offs \in Seq(Num) /\ o.preds \in Seq(Num)
      /\ o.syncs \in Seq(Num) /\ o.freed \in Nat
  BY DEF Shape, Dicts, NONE
<1> DEFINE off == o.offs[k]
           q == {i \in DOMAIN o.syncs : o.syncs[i] = off}
<1>2. off \in Num /\ Remove(off) \in Num
  <2>1. off \in Num
    BY <1>1
  <2> HIDE DEF off
  <2>2. off[1] \in Nat /\ off[2] \in Nat
    BY <2>1 DEF Num
  <2>3. Remove(off) = <<off[1], 32768 + off[2]>> /\ 32768 + off[2] \in Nat
    BY <2>2 DEF Remove
  <2>4. PICK a \in Nat, b \in Nat : a = off[1] /\ b = 32768 + off[2]
    BY <2>2, <2>3
  <2>5. <<a, b>> \in Num
    BY DEF Num
  <2> QED
    BY <2>1, <2>3, <2>4, <2>5
<1>3. PICK offs : offs = [o.offs EXCEPT ![k] = Remove(off)]
  OBVIOUS
<1>4. PICK preds : preds = [i \in DOMAIN o.preds |->
                              IF o.preds[i] = off THEN Remove(off) ELSE o.preds[i]]
  OBVIOUS
<1>5. PICK syncs : syncs = IF q = {} THEN o.syncs
                           ELSE SX!Front([o.syncs EXCEPT ![First(q)] = SX!Last(o.syncs)])
  OBVIOUS
<1>6. PICK level : level = Dirty(o, OFFSET_DIRTY)
  OBVIOUS
<1>7. x = [o EXCEPT !.offs = offs, !.preds = preds, !.syncs = syncs, !.freed = o.freed + 1,
                    !.state = level]
  <2>1. x = [o EXCEPT !.offs = [o.offs EXCEPT ![k] = Remove(off)],
                  !.preds = [i \in DOMAIN o.preds |->
                              IF o.preds[i] = off THEN Remove(off) ELSE o.preds[i]],
                  !.syncs = IF q = {} THEN o.syncs
                           ELSE SX!Front([o.syncs EXCEPT ![First(q)] = SX!Last(o.syncs)]),
                  !.freed = o.freed + 1, !.state = Dirty(o, OFFSET_DIRTY)]
    BY <1>1 DEF RemoveEntry, Dicts
  <2> QED
    BY <1>3, <1>4, <1>5, <1>6, <2>1, Zenon
<1> HIDE DEF off
<1>8. offs \in Seq(Num) /\ Len(offs) = Len(o.offs)
  BY <1>1, <1>2, <1>3, EntrySet
<1>9. preds \in Seq(Num) /\ Len(preds) = Len(o.preds)
  <2>1. PICK n \in Nat : n = Len(o.preds) /\ DOMAIN o.preds = 1..n
    BY <1>1
  <2>2. \A i \in 1..n : o.preds[i] \in Num
    BY <1>1, <2>1
  <2>3. preds \in [1..n -> Num]
    BY <1>2, <1>4, <2>1, <2>2
  <2> QED
    BY <2>1, <2>3
<1>10. syncs \in Seq(Num) /\ Len(syncs) <= Len(o.syncs)
  <2>1. CASE q = {}
    BY <1>1, <1>5, <2>1
  <2>2. CASE q # {}
    <3>1. Len(o.syncs) >= 1
      BY <1>1, <2>2
    <3>2. o.syncs[Len(o.syncs)] \in Num
      BY <1>1, <3>1
    <3>3. PICK s : s = [o.syncs EXCEPT ![First(q)] = o.syncs[Len(o.syncs)]]
      OBVIOUS
    <3>4. s \in Seq(Num) /\ Len(s) = Len(o.syncs)
      BY <1>1, <3>2, <3>3, EntrySet
    <3>5. syncs = SubSeq(s, 1, Len(s) - 1)
      BY <1>5, <2>2, <3>3, Zenon DEF SX!Front, SX!Last
    <3> HIDE DEF q
    <3> QED
      BY <3>1, <3>4, <3>5
  <2> QED
    BY <2>1, <2>2
<1> HIDE DEF q
<1>11. level \in 3..5 /\ level >= 4 /\ (level = 5 <=> o.state = 5)
  BY <1>1, <1>6, DirtyIs DEF OFFSET_DIRTY
<1>12. /\ x.state = level /\ x.offs = offs /\ x.preds = preds /\ x.syncs = syncs
       /\ x.freed = o.freed + 1 /\ x.scores = o.scores
       /\ x.block = o.block /\ x.room = o.room
       /\ x.pc = o.pc /\ x.then = o.then /\ x.time = o.time
  BY <1>1, <1>7 DEF Dicts
<1>13. x \in Dicts
  <2>1. level \in 0..5 /\ o.freed + 1 \in Nat
    BY <1>1, <1>11
  <2> QED
    BY <1>1, <1>7, <1>8, <1>9, <1>10, <2>1 DEF Dicts
<1>14. Shape(x)
  <2>1. KeptUnits(x) = KeptUnits(o)
    BY <1>12 DEF KeptUnits
  <2> QED
    BY <1>1, <1>8, <1>9, <1>11, <1>12, <1>13, <2>1 DEF Shape, NONE
<1>15. \A f : Covers(o, f) => Covers(x, f)
  BY <1>1, <1>6, <1>12, OffsetsCover
<1>16. ASSUME NEW n \in Nat, Small(o, n) PROVE Small(x, n + 1)
  <2>1. Len(o.offs) \in Nat /\ Len(o.syncs) \in Nat /\ Len(syncs) \in Nat /\ Len(o.block) \in Nat
    BY <1>1, <1>10 DEF Dicts
  <2>2. n * Average \in Nat /\ (n + 1) * Average \in Nat /\ n * Average <= (n + 1) * Average
    BY OneMore
  <2> QED
    BY <1>1, <1>8, <1>10, <1>12, <1>16, <2>1, <2>2 DEF Small
<1> QED
  BY <1>11, <1>12, <1>14, <1>15, <1>16 DEF NONE

(* A lemma is a list of units, no longer than the average allows. *)
LEMMA LemmaIs ==
    ASSUME NEW w \in Lemmas
    PROVE  w \in Seq(Nat) /\ Len(w) \in Nat /\ Len(w) <= Average
<1>1. w \in Seq(Units) /\ Len(w) <= Average
  BY FileAssumption
<1>2. PICK n \in Nat : n = Len(w) /\ DOMAIN w = 1..n
  BY <1>1
<1>3. \A j \in 1..n : w[j] \in Nat
  <2>1. \A j \in 1..n : w[j] \in Units
    BY <1>1, <1>2
  <2>2. Units \subseteq Nat
    BY DEF Units
  <2> QED
    BY <2>1, <2>2
<1>4. w = [j \in 1..n |-> w[j]]
  BY <1>1, <1>2
<1>5. w \in [1..n -> Nat]
  BY <1>3, <1>4
<1>6. w \in Seq(Nat)
  BY <1>5
<1> QED
  BY <1>1, <1>2, <1>6

(* Average is a number. *)
LEMMA AverageNat == Average \in Nat
BY FileAssumption

(* A lemma is appended to the block behind what the file has of it. *)
LEMMA AppendKeeps ==
    ASSUME NEW o, Shape(o), o.state # NONE, o.pc \notin {"lock", "write"},
           NEW w \in Lemmas, NEW x, x = Append1(o, w)
    PROVE  /\ Shape(x) /\ x.state # NONE /\ x.pc = o.pc /\ x.then = o.then /\ x.time = o.time
           /\ \A f : Covers(o, f) => Covers(x, f)
           /\ \A n \in Nat : Small(o, n) => Small(x, n + 1)
<1>1. /\ o \in Dicts /\ o.state \in 1..5 /\ o.block \in Seq(Nat) /\ o.offs \in Seq(Num)
      /\ o.preds \in Seq(Num) /\ o.scores \in Seq(Num) /\ o.syncs \in Seq(Num)
      /\ o.left \in Int /\ o.room \in Int
      /\ Len(o.preds) = Len(o.offs) /\ Len(o.scores) = Len(o.offs)
  BY DEF Shape, Dicts, NONE
<1>2. w \in Seq(Nat) /\ Len(w) \in Nat /\ Len(w) <= Average
  BY LemmaIs
<1>3. PICK off \in Num : off = Pair(2 * Len(o.block))
  BY <1>1, PairValue
<1>4. PICK room \in Int, left \in Int : room = o.room - Len(w) /\ left = o.left - 1
  <2>1. o.room - Len(w) \in Int
    BY <1>1, <1>2
  <2>2. o.left - 1 \in Int
    BY <1>1
  <2> QED
    BY <2>1, <2>2
<1>5. Dirty(o, LEMMA_DIRTY) = 5
  BY <1>1, DirtyIs DEF LEMMA_DIRTY
<1>6. PICK block : block = o.block \o w
  OBVIOUS
<1>7. PICK offs, preds, scores, syncs :
        /\ offs = Append(o.offs, off) /\ preds = Append(o.preds, off)
        /\ scores = Append(o.scores, <<1, 0>>) /\ syncs = Append(o.syncs, off)
  OBVIOUS
<1>8. x = [o EXCEPT !.block = block, !.offs = offs, !.preds = preds, !.scores = scores,
                    !.syncs = syncs, !.left = left, !.room = room, !.state = 5]
  <2>1. x = [o EXCEPT !.block = o.block \o w, !.offs = Append(o.offs, off),
                      !.preds = Append(o.preds, off), !.scores = Append(o.scores, <<1, 0>>),
                      !.syncs = Append(o.syncs, off), !.left = o.left - 1,
                      !.room = o.room - Len(w), !.state = Dirty(o, LEMMA_DIRTY)]
    BY <1>1, <1>3 DEF Append1, Dicts
  <2> QED
    BY <1>4, <1>5, <1>6, <1>7, <2>1, Zenon
<1>9. /\ block \in Seq(Nat) /\ Len(block) = Len(o.block) + Len(w)
      /\ \A j \in 1..Len(o.block) : block[j] = o.block[j]
  BY <1>1, <1>2, <1>6
<1>10. <<1, 0>> \in Num
  BY DEF Num
<1>11. /\ offs \in Seq(Num) /\ Len(offs) = Len(o.offs) + 1
       /\ preds \in Seq(Num) /\ Len(preds) = Len(o.preds) + 1
       /\ scores \in Seq(Num) /\ Len(scores) = Len(o.scores) + 1
       /\ syncs \in Seq(Num) /\ Len(syncs) = Len(o.syncs) + 1
  <2>1. \A s \in Seq(Num), e \in Num : Append(s, e) \in Seq(Num) /\ Len(Append(s, e)) = Len(s) + 1
    OBVIOUS
  <2> QED
    BY <1>1, <1>3, <1>7, <1>10, <2>1, Zenon
<1>12. /\ x.state = 5 /\ x.block = block /\ x.offs = offs /\ x.preds = preds /\ x.scores = scores
       /\ x.syncs = syncs /\ x.room = room /\ x.freed = o.freed
       /\ x.pc = o.pc /\ x.then = o.then /\ x.time = o.time
  BY <1>1, <1>8 DEF Dicts
<1>13. x \in Dicts
  <2>1. 5 \in 0..5
    OBVIOUS
  <2>2. /\ block \in Seq(Nat) /\ offs \in Seq(Num) /\ preds \in Seq(Num) /\ scores \in Seq(Num)
        /\ syncs \in Seq(Num) /\ left \in Int /\ room \in Int /\ o \in Dicts
    BY <1>1, <1>9, <1>11
  <2> QED
    <3>1. PICK y : y = [o EXCEPT !.block = block, !.offs = offs, !.preds = preds, !.scores = scores]
      OBVIOUS
    <3>2. y \in Dicts
      BY <2>2, <3>1 DEF Dicts
    <3>3. x = [y EXCEPT !.syncs = syncs, !.left = left, !.room = room, !.state = 5]
      BY <1>8, <2>2, <3>1 DEF Dicts
    <3> QED
      BY <2>1, <2>2, <3>2, <3>3 DEF Dicts
<1>14. KeptUnits(x) = KeptUnits(o) /\ KeptUnits(o) \in 0..Len(o.block)
  <2>1. KeptUnits(o) \in 0..Len(o.block)
    BY DEF Shape
  <2>2. PICK all \in Int : all = PreAlloc * Average
    BY RoomInt
  <2>3. /\ KeptUnits(x) = Len(x.block) - (all - x.room)
        /\ KeptUnits(o) = Len(o.block) - (all - o.room)
    BY <2>2, Zenon DEF KeptUnits
  <2>5. Len(x.block) = Len(o.block) + Len(w) /\ x.room = o.room - Len(w)
    BY <1>4, <1>9, <1>12, Zenon
  <2>4. Len(o.block) \in Nat
    BY <1>1
  <2> QED
    BY <1>1, <1>2, <2>1, <2>3, <2>4, <2>5
<1>15. Shape(x)
  <2>1. KeptUnits(x) \in 0..Len(x.block)
    BY <1>1, <1>2, <1>9, <1>12, <1>14
  <2>2. Len(x.preds) = Len(x.offs) /\ Len(x.scores) = Len(x.offs)
    BY <1>1, <1>11, <1>12
  <2>3. /\ x.pc \in {"idle", "compare"} => x.then = <<>>
        /\ x.state \notin 1..4
    BY <1>12 DEF Shape
  <2> QED
    BY <1>12, <1>13, <2>1, <2>2, <2>3 DEF Shape
<1>16. ASSUME NEW f, Covers(o, f) PROVE Covers(x, f)
  <2>1. FirstWritten(x.state) = 2
    BY <1>12 DEF FirstWritten, SYNC, SYNC_DIRTY, SCORE_DIRTY, OFFSET_DIRTY, LEMMA_DIRTY
  <2>2. FirstWritten(o.state) \in 2..7
    <3>1. /\ FirstWritten(1) = 7 /\ FirstWritten(2) = 6 /\ FirstWritten(3) = 5
          /\ FirstWritten(4) = 3 /\ FirstWritten(5) = 2
      BY DEF FirstWritten, SYNC, SYNC_DIRTY, SCORE_DIRTY, OFFSET_DIRTY, LEMMA_DIRTY
    <3> QED
      BY <1>1, <3>1
  <2>3. Has(f, Pos(o, 0), Seg(o, 0)) /\ Has(f, Pos(o, 1), Seg(o, 1))
    <3>1. 0 < FirstWritten(o.state) /\ 1 < FirstWritten(o.state) /\ 0 \in 0..7 /\ 1 \in 0..7
      BY <2>2
    <3> QED
      BY <1>16, <3>1, Zenon DEF Covers, HasUpTo
  <2>4. KeptPart(x) = KeptPart(o)
    <3>1. KeptUnits(x) \in 0..Len(x.block) /\ x.block \in Seq(Nat)
      BY <1>13, <1>15, <1>12 DEF Shape, Dicts, NONE
    <3>2. PICK k \in Nat : k = KeptUnits(o) /\ k = KeptUnits(x) /\ k <= Len(o.block)
      BY <1>14
    <3>3. /\ KeptPart(o) \in Seq(Nat) /\ Len(KeptPart(o)) = k
          /\ \A j \in 1..k : KeptPart(o)[j] = o.block[j]
      BY <1>1, <1>14, <3>2, PartsIs
    <3>4. /\ KeptPart(x) \in Seq(Nat) /\ Len(KeptPart(x)) = k
          /\ \A j \in 1..k : KeptPart(x)[j] = x.block[j]
      BY <3>1, <3>2, PartsIs
    <3>5. \A j \in 1..k : x.block[j] = o.block[j]
      BY <1>1, <1>9, <1>12, <3>2
    <3>6. \A j \in 1..Len(KeptPart(x)) : KeptPart(x)[j] = KeptPart(o)[j]
      BY <3>3, <3>4, <3>5
    <3> QED
      BY <3>3, <3>4, <3>6, SeqEqual
  <2>5. /\ Pos(x, 0) = 0 /\ Pos(o, 0) = 0 /\ Pos(x, 1) = 2 /\ Pos(o, 1) = 2
    BY DEF Pos
  <2>6. ASSUME NEW i \in 0..7, i < 2 PROVE Has(f, Pos(x, i), Seg(x, i))
    <3>1. i = 0 \/ i = 1
      BY <2>6
    <3>2. Seg(x, 0) = Seg(o, 0) /\ Seg(x, 1) = Seg(o, 1)
      BY <2>4, SegmentsAre
    <3> QED
      BY <2>3, <2>5, <3>1, <3>2
  <2> QED
    BY <2>1, <2>6 DEF Covers, HasUpTo
<1>17. ASSUME NEW n \in Nat, Small(o, n) PROVE Small(x, n + 1)
  <2>1. /\ Len(o.offs) \in Nat /\ Len(o.syncs) \in Nat /\ Len(o.block) \in Nat /\ o.freed \in Nat
    BY <1>1 DEF Dicts
  <2>2. /\ n * Average \in Nat /\ (n + 1) * Average \in Nat
        /\ (n + 1) * Average = n * Average + Average /\ Average \in Nat
    BY OneMore, AverageNat, Zenon
  <2>3. PICK small \in Nat, large \in Nat, a \in Nat :
           small = n * Average /\ large = (n + 1) * Average /\ a = Average /\ large = small + a
    BY <2>2
  <2>4. Len(x.block) <= large
    <3>1. Len(o.block) <= small
      BY <1>17, <2>3 DEF Small
    <3>2. Len(w) <= a
      BY <1>2, <2>3
    <3> QED
      BY <1>2, <1>9, <1>12, <2>1, <2>3, <3>1, <3>2
  <2>5. Len(x.offs) <= n + 1 /\ Len(x.syncs) <= n + 1 /\ x.freed <= n + 1
    <3>1. /\ Len(x.offs) = Len(o.offs) + 1 /\ Len(x.syncs) = Len(o.syncs) + 1 /\ x.freed = o.freed
      BY <1>11, <1>12, Zenon
    <3>2. Len(o.offs) <= n /\ Len(o.syncs) <= n /\ o.freed <= n
      BY <1>17, Zenon DEF Small
    <3> QED
      BY <2>1, <3>1, <3>2
  <2> QED
    BY <2>3, <2>4, <2>5 DEF Small
<1> QED
  BY <1>12, <1>15, <1>16, <1>17 DEF NONE

-----------------------------------------------------------------------------
(* Steps. *)

LEMMA BoundNat ==
    ASSUME SInv
    PROVE  Bound \in Nat
BY DEF SInv, ShapesOK, Bound

(* What holds for fewer entries holds for more. *)
LEMMA SmallMore ==
    ASSUME NEW x, Len(x.offs) \in Nat, Len(x.syncs) \in Nat, x.freed \in Nat, Len(x.block) \in Nat,
           NEW n \in Nat, NEW m \in Nat, n <= m, Small(x, n)
    PROVE  Small(x, m)
<1>1. PICK a \in Nat : a = Average
  BY AverageNat
<1>2. n * a <= m * a /\ n * a \in Nat /\ m * a \in Nat
  <2>1. PICK d \in Nat : m = n + d
    <3>1. m - n \in Nat /\ m = n + (m - n)
      OBVIOUS
    <3> QED
      BY <3>1
  <2>2. n * a \in Nat /\ d * a \in Nat /\ m * a \in Nat
    OBVIOUS
  <2>3. (n + d) * a = n * a + d * a
    OBVIOUS
  <2> QED
    BY <2>1, <2>2, <2>3
<1>3. PICK small \in Nat, large \in Nat :
         small = n * Average /\ large = m * Average /\ small <= large
  BY <1>1, <1>2
<1>4. Len(x.block) <= small
  BY <1>3 DEF Small
<1>5. Len(x.block) <= m * Average
  BY <1>3, <1>4
<1>6. Len(x.offs) <= m /\ Len(x.syncs) <= m /\ x.freed <= m
  BY DEF Small
<1> QED
  BY <1>5, <1>6 DEF Small

(* The same of an object ... *)
LEMMA ShapeSmallMore ==
    ASSUME NEW x, Shape(x), NEW n \in Nat, NEW m \in Nat, n <= m, Small(x, n)
    PROVE  Small(x, m)
<1>1. Len(x.offs) \in Nat /\ Len(x.syncs) \in Nat /\ x.freed \in Nat /\ Len(x.block) \in Nat
  BY DEF Shape, Dicts
<1> QED
  BY <1>1, SmallMore

(* ... and of a valid file. *)
LEMMA FileSmallMore ==
    ASSUME NEW f \in Seq(Nat), Sound(f), NEW n \in Nat, NEW m \in Nat, n <= m,
           Small(Decoded(f), n)
    PROVE  Small(Decoded(f), m)
<1>1. Loadable(f)
  BY DEF Sound
<1>2. /\ Len(Decoded(f).offs) \in Nat /\ Len(Decoded(f).syncs) \in Nat
      /\ Decoded(f).freed \in Nat /\ Len(Decoded(f).block) \in Nat
  BY <1>1, DecodedIs
<1> QED
  BY <1>2, SmallMore

(* Between calls nothing waits. *)
LEMMA QuietBound ==
    ASSUME SInv, \A p \in Objects : ~Busy(p)
    PROVE  ~Waiting /\ Bound = calls + 1
<1>1. \A p \in Objects : obj[p].then = <<>>
  BY DEF SInv, ShapesOK, Shape, Busy
<1>2. ~Waiting
  BY <1>1 DEF Waiting
<1> QED
  BY <1>2 DEF Bound

(* A call makes room for one entry, now or after its load. *)
LEMMA CallBound ==
    ASSUME SInv, \A p \in Objects : ~Busy(p), NEW o \in Objects, NEW rec,
           obj' = [obj EXCEPT ![o] = rec], calls' = calls + 1
    PROVE  /\ Bound' \in Nat /\ Bound <= Bound'
           /\ rec.then = <<>> => Bound' = Bound + 1
<1>1. Bound = calls + 1 /\ calls \in Nat
  BY QuietBound DEF SInv, ShapesOK
<1>2. Bound' = calls + 1 + IF Waiting' THEN 0 ELSE 1
  BY DEF Bound
<1>3. ASSUME rec.then = <<>> PROVE ~Waiting'
  <2>1. \A p \in Objects : obj[p].then = <<>>
    BY DEF SInv, ShapesOK, Shape, Busy
  <2>2. \A p \in Objects : obj'[p].then = <<>>
    BY <1>3, <2>1 DEF SInv, ShapesOK
  <2> QED
    BY <2>2 DEF Waiting
<1> QED
  BY <1>1, <1>2, <1>3

(* Within a call that goes on, or ends, the bound does not fall. *)
LEMMA InnerBound ==
    ASSUME SInv, NEW o \in Objects, NEW rec, obj' = [obj EXCEPT ![o] = rec],
           calls' = calls, Len(rec.then) = 2 => rec.then = obj[o].then
    PROVE  Bound' \in Nat /\ Bound <= Bound'
<1>1. Waiting' => Waiting
  <2>1. ASSUME NEW p \in Objects, Len(obj'[p].then) = 2 PROVE Len(obj[p].then) = 2
    <3>1. DOMAIN obj = Objects
      BY DEF SInv, ShapesOK
    <3>2. CASE p # o
      BY <2>1, <3>1, <3>2
    <3>3. CASE p = o
      BY <2>1, <3>1, <3>3
    <3> QED
      BY <3>2, <3>3
  <2> QED
    BY <2>1 DEF Waiting
<1>2. Bound' = calls + IF Waiting' THEN 0 ELSE 1
  BY DEF Bound
<1>3. Bound = calls + IF Waiting THEN 0 ELSE 1
  BY DEF Bound
<1>4. calls \in Nat
  BY DEF SInv, ShapesOK
<1> QED
  BY <1>1, <1>2, <1>3, <1>4

(* A step of one object that leaves the file and its version alone. *)
LEMMA ObjStep ==
    ASSUME SInv, NEW o \in Objects, NEW rec, Shape(rec), obj' = [obj EXCEPT ![o] = rec],
           file' = file, hist'.version = hist.version, hist'.base[o] <= hist.version,
           \A p \in Objects : p # o => hist'.base[p] = hist.base[p],
           "torn" \in DOMAIN hist', hist'.torn \in BOOLEAN, calls' \in 0..MaxCalls,
           Orderly' => Orderly /\ Bound' \in Nat /\ Bound <= Bound',
           obj[o].pc # "write", rec.pc \notin {"write", "saved"},
           Orderly' => rec.pc \notin {"reset", "fill"},
           Orderly' /\ rec.state # NONE /\ hist'.base[o] = hist.version /\ ~Writing =>
              Covers(rec, file) /\ Small(rec, Bound')
    PROVE  SInv'
<1>1. DOMAIN obj = Objects /\ \A p \in Objects : Shape(obj[p])
  BY DEF SInv, ShapesOK
<1>2. /\ DOMAIN obj' = Objects /\ obj'[o] = rec
      /\ \A p \in Objects : p # o => obj'[p] = obj[p]
  BY <1>1
<1>3. ShapesOK'
  <2>1. \A p \in Objects : Shape(obj'[p])
    BY <1>1, <1>2
  <2>2. obj' \in [Objects -> Dicts]
    BY DEF SInv, ShapesOK, Shape
  <2> QED
    BY <1>2, <2>1, <2>2 DEF SInv, ShapesOK
<1>4. Writing' <=> Writing
  BY <1>2 DEF Writing
<1>5. ASSUME Orderly' PROVE Saved'
  <2>1. Saved /\ Bound \in Nat /\ Bound' \in Nat /\ Bound <= Bound' /\ file \in Seq(Nat)
    BY <1>5, BoundNat DEF SInv, ShapesOK
  <2>2. \A p \in Objects : obj'[p].pc \notin {"reset", "fill"}
    BY <1>2, <1>5, <2>1 DEF Saved
  <2>3. ~Writing' => FileGood'
    <3>1. SUFFICES ASSUME ~Writing PROVE Sound(file) /\ Small(Decoded(file), Bound')
      BY <1>4 DEF FileGood
    <3>2. Sound(file) /\ Small(Decoded(file), Bound)
      BY <2>1, <3>1 DEF Saved, FileGood
    <3> QED
      BY <2>1, <3>2, FileSmallMore
  <2>4. ASSUME NEW p \in Objects, Current(p)', ~Writing'
        PROVE  Covers(obj'[p], file) /\ Small(obj'[p], Bound')
    <3>1. CASE p = o
      BY <1>2, <1>4, <1>5, <2>4, <3>1 DEF Current
    <3>2. CASE p # o
      <4>1. Current(p) /\ ~Writing
        BY <1>2, <1>4, <2>4, <3>2 DEF Current
      <4>2. Covers(obj[p], file) /\ Small(obj[p], Bound)
        BY <2>1, <4>1 DEF Saved
      <4>3. Small(obj[p], Bound')
        BY <1>1, <2>1, <4>2, ShapeSmallMore
      <4> QED
        BY <1>2, <3>2, <4>2, <4>3
    <3> QED
      BY <3>1, <3>2
  <2>5. ASSUME NEW p \in Objects, obj'[p].pc = "write"
        PROVE  Stage(obj'[p], file) /\ Small(obj'[p], Bound')
    <3>1. p # o /\ obj'[p] = obj[p] /\ obj[p].pc = "write"
      BY <1>2, <2>5
    <3>2. Stage(obj[p], file) /\ Small(obj[p], Bound)
      BY <2>1, <3>1 DEF Saved
    <3>3. Small(obj[p], Bound')
      BY <1>1, <2>1, <3>2, ShapeSmallMore
    <3> QED
      BY <3>1, <3>2, <3>3
  <2>6. ASSUME NEW p \in Objects, obj'[p].pc = "saved"
        PROVE  Validate(file) /\ Decoded(file) = Memory(obj'[p])
    <3>1. obj'[p] = obj[p] /\ obj[p].pc = "saved"
      BY <1>2, <2>6
    <3> QED
      BY <2>1, <3>1 DEF Saved
  <2> QED
    BY <2>2, <2>3, <2>4, <2>5, <2>6 DEF Saved
<1> QED
  BY <1>3, <1>5 DEF SInv

(* A record that went to another place of its call, or got another time. *)
LEMMA MovedKeeps ==
    ASSUME NEW o, Shape(o), NEW x, x \in Dicts, SameData(x, o), x.state = o.state,
           x.pc \in {"idle", "compare"} => x.then = <<>>,
           x.pc \in {"lock", "write"} => o.state \in 2..5
    PROVE  /\ Shape(x)
           /\ \A f : Covers(o, f) => Covers(x, f)
           /\ \A n : Small(o, n) => Small(x, n)
<1>1. KeptUnits(x) = KeptUnits(o) /\ Len(x.block) = Len(o.block)
  BY SameSegments DEF SameData
<1>2. Len(x.preds) = Len(o.preds) /\ Len(x.scores) = Len(o.scores) /\ Len(x.offs) = Len(o.offs)
  BY DEF SameData
<1>3. Shape(x)
  BY <1>1, <1>2 DEF Shape
<1>4. \A f, n : HasUpTo(f, x, n) <=> HasUpTo(f, o, n)
  BY SameSegments
<1>5. \A n : Small(x, n) <=> Small(o, n)
  BY SameSegments
<1> QED
  BY <1>3, <1>4, <1>5 DEF Covers

(* A record of a call at another place. *)
LEMMA PlacedKeeps ==
    ASSUME NEW o, Shape(o), NEW t \in Nat, NEW place \in Places, NEW then \in Thens,
           place \in {"idle", "compare"} => then = <<>>,
           place \in {"lock", "write"} => o.state \in 2..5,
           NEW x, x = [o EXCEPT !.pc = place, !.time = t, !.then = then]
    PROVE  /\ Shape(x) /\ x.pc = place /\ x.then = then /\ x.state = o.state /\ SameData(x, o)
           /\ \A f : Covers(o, f) => Covers(x, f)
           /\ \A n : Small(o, n) => Small(x, n)
<1>1. o \in Dicts
  BY DEF Shape
<1>2. x \in Dicts
  BY <1>1 DEF Dicts
<1>3. x.pc = place /\ x.then = then /\ x.state = o.state
  BY <1>1 DEF Dicts
<1>4. SameData(x, o)
  BY <1>1 DEF Dicts, SameData
<1> QED
  BY <1>2, <1>3, <1>4, MovedKeeps

(* The same where the load time stays, and what comes behind the close. *)
LEMMA PlaceKeeps ==
    ASSUME NEW o, Shape(o), NEW place \in Places,
           place \in {"idle", "compare"} => o.then = <<>>,
           place \in {"lock", "write"} => o.state \in 2..5,
           NEW x, x = [o EXCEPT !.pc = place]
    PROVE  /\ Shape(x) /\ x.pc = place /\ x.then = o.then /\ x.state = o.state
           /\ \A f : Covers(o, f) => Covers(x, f)
           /\ \A n : Small(o, n) => Small(x, n)
<1>1. o \in Dicts
  BY DEF Shape
<1>2. x \in Dicts
  BY <1>1 DEF Dicts
<1>3. x.pc = place /\ x.then = o.then /\ x.state = o.state
  BY <1>1 DEF Dicts
<1>4. SameData(x, o)
  BY <1>1 DEF Dicts, SameData
<1> QED
  BY <1>2, <1>3, <1>4, MovedKeeps

(* No dictionary: the fields that matter. *)
Emptied(x) ==
    x \in Dicts /\ x.state = NONE /\ x.offs = <<>> /\ x.preds = <<>> /\ x.scores = <<>>

(* A record without a dictionary has its type. *)
LEMMA EmptyDict ==
    ASSUME NEW z \in Num, NEW e, e \in Seq(Num), e \in Seq(Nat), e \in Seq(Seq(Nat)),
           NEW then \in Thens, NEW place \in Places
    PROVE  [state |-> 0, block |-> e, offs |-> e, preds |-> e, scores |-> e, syncs |-> e,
            ratio |-> z, limit |-> z, freed |-> 0, left |-> 0, room |-> 0, time |-> 0,
            pc |-> place, at |-> 0, segs |-> e, then |-> then, freed_name |-> FALSE] \in Dicts
BY DEF Dicts

(* An object before it is opened. *)
LEMMA NoDictEmpty == Emptied(NoDict) /\ NoDict.pc = "idle" /\ NoDict.then = <<>>
<1>1. <<0, 0>> \in Num
  BY DEF Num
<1>2. <<>> \in Seq(Num) /\ <<>> \in Seq(Nat) /\ <<>> \in Seq(Seq(Nat))
  OBVIOUS
<1>3. <<>> \in Thens /\ "idle" \in Places
  BY DEF Thens, Places
<1> PICK e : e = <<>>
  OBVIOUS
<1> PICK z \in Num : z = <<0, 0>>
  BY <1>1
<1> PICK place \in Places : place = "idle"
  BY <1>3
<1>5. e \in Seq(Num) /\ e \in Seq(Nat) /\ e \in Seq(Seq(Nat)) /\ e \in Thens
  BY <1>2, <1>3, Zenon
<1>6. [state |-> 0, block |-> e, offs |-> e, preds |-> e, scores |-> e, syncs |-> e,
       ratio |-> z, limit |-> z, freed |-> 0, left |-> 0, room |-> 0, time |-> 0,
       pc |-> place, at |-> 0, segs |-> e, then |-> e, freed_name |-> FALSE] \in Dicts
  BY <1>5, EmptyDict
<1>7. NoDict \in Dicts
  BY <1>6, Zenon DEF NoDict, NONE
<1> QED
  BY <1>7, Zenon DEF Emptied, NoDict

(* An object without a dictionary. *)
LEMMA EmptyShape ==
    ASSUME NEW x, Emptied(x), x.pc \notin {"lock", "write"},
           x.pc \in {"idle", "compare"} => x.then = <<>>
    PROVE  Shape(x) /\ x.state = NONE
BY DEF Shape, Emptied, NONE

(* What close_dict leaves. *)
LEMMA ClosedEmpty ==
    ASSUME NEW o, o.time \in Nat, o.then \in Thens
    PROVE  Emptied(Closed(o)) /\ Closed(o).then = o.then
<1> PICK y : y = NoDict
  OBVIOUS
<1> PICK x : x = Closed(o)
  OBVIOUS
<1>1. x = [y EXCEPT !.time = o.time, !.then = o.then]
  BY Zenon DEF Closed
<1>2. Emptied(y)
  BY NoDictEmpty
<1>3. Emptied(x) /\ x.then = o.then
  BY <1>1, <1>2 DEF Emptied, Dicts
<1> QED
  BY <1>3

(* close_dict empties the object, or lets it wait for the lock as it is. *)
LEMMA ClosingKeeps ==
    ASSUME NEW o, Shape(o), o.state # NONE, NEW then \in Thens, NEW x, x = Closing(o, then)
    PROVE  /\ Shape(x) /\ x.pc \in {"closed", "lock"} /\ x.then = then
           /\ x.state # NONE =>
                 /\ \A f : Covers(o, f) => Covers(x, f)
                 /\ \A n : Small(o, n) => Small(x, n)
<1>1. o \in Dicts /\ o.state \in 0..5 /\ o.time \in Nat /\ o.then \in Thens
  BY DEF Shape, Dicts
<1>2. CASE o.state = SYNC
  <2>1. x = [Closed(o) EXCEPT !.then = then, !.pc = "closed"]
    BY <1>2, Zenon DEF Closing
  <2>2. PICK y : y = Closed(o) /\ Emptied(y)
    BY <1>1, ClosedEmpty
  <2>3. x = [y EXCEPT !.then = then, !.pc = "closed"]
    BY <2>1, <2>2, Zenon
  <2>4. x \in Dicts /\ x.state = NONE /\ x.offs = <<>> /\ x.preds = <<>> /\ x.scores = <<>>
    BY <2>2, <2>3 DEF Emptied, Dicts, Places
  <2>5. x.pc = "closed" /\ x.then = then
    BY <2>2, <2>3 DEF Emptied, Dicts
  <2>6. Emptied(x)
    BY <2>4 DEF Emptied
  <2>7. Shape(x) /\ x.state = NONE
    BY <2>5, <2>6, EmptyShape
  <2> QED
    BY <2>5, <2>7
<1>3. CASE o.state # SYNC
  <2>1. x = [o EXCEPT !.then = then, !.pc = "lock"]
    BY <1>3, Zenon DEF Closing
  <2>2. o.state \in 2..5
    BY <1>1, <1>3 DEF NONE, SYNC
  <2>3. x \in Dicts
    BY <1>1, <2>1 DEF Dicts, Places
  <2>4. x.state = o.state /\ x.pc = "lock" /\ x.then = then
    BY <1>1, <2>1 DEF Dicts
  <2>5. SameData(x, o)
    BY <1>1, <2>1 DEF Dicts, SameData
  <2> QED
    BY <2>2, <2>3, <2>4, <2>5, MovedKeeps
<1> QED
  BY <1>2, <1>3

(* What a call may make of the data of its object: nothing is lost that the
   file has not, and there is one entry more at most, or one to come. *)
Grows(old, rec) ==
    /\ old.state # NONE
    /\ \A f : Covers(old, f) => Covers(rec, f)
    /\ \A n \in Nat : Small(old, n) => Small(rec, IF rec.then = <<>> THEN n + 1 ELSE n)

Grown(old, rec) == Shape(rec) /\ rec.pc = "idle" /\ Grows(old, rec)

(* A score that is set in the middle of no call. *)
LEMMA ScoredGrows ==
    ASSUME NEW o, Shape(o), o.state # NONE, o.pc = "idle", NEW k, NEW v \in Num,
           NEW q \in Seq(Num), Len(q) <= Len(o.syncs) + 1
    PROVE  Grown(o, Scored(o, k, v, q))
<1>1. PICK x : x = Scored(o, k, v, q)
  OBVIOUS
<1>2. o.pc \notin {"lock", "write"} /\ Len(o.syncs) \in Nat /\ Len(q) \in Nat
  BY DEF Shape, Dicts
<1>c. o.then = <<>>
  BY DEF Shape
<1>3. Shape(x)
  BY <1>1, <1>2, ScoreKeeps
<1>b. x.pc = o.pc /\ x.then = o.then
  <2>1. o \in Dicts
    BY DEF Shape
  <2> QED
    BY <1>1, <2>1 DEF Scored, Dicts
<1>4. \A f : Covers(o, f) => Covers(x, f)
  BY <1>1, <1>2, ScoreKeeps
<1>5. ASSUME NEW n \in Nat, Small(o, n) PROVE Small(x, n + 1)
  <2>1. Len(q) <= n + 1
    BY <1>2, <1>5 DEF Small
  <2> QED
    BY <1>1, <1>2, <1>5, <2>1, ScoreKeeps
<1>6. Grown(o, x)
  BY <1>c, <1>3, <1>b, <1>4, <1>5 DEF Grown, Grows
<1> QED
  BY <1>1, <1>6, Zenon

(* The beginning of a call, in any of the calls. *)
LEMMA CallSaved ==
    ASSUME IInv, SInv, NEW o \in Objects, Call(o), NEW rec, Shape(rec), Sets(o, rec),
           file' = file, rec.pc \notin {"write", "saved", "reset", "fill"},
           rec.state # NONE => Grows(obj[o], rec)
    PROVE  SInv'
<1>1. /\ hist' = [hist EXCEPT !.alone = hist.alone /\ \A p \in Objects : ~Busy(p)]
      /\ calls' = calls + 1 /\ calls < MaxCalls /\ obj[o].pc = "idle"
  BY DEF Call, Room, Busy
<1> DEFINE quiet == hist.alone /\ \A p \in Objects : ~Busy(p)
<1>2. /\ hist'.version = hist.version /\ hist'.base = hist.base /\ hist'.alone = quiet
      /\ hist'.torn = hist.torn /\ "torn" \in DOMAIN hist' /\ hist'.torn \in BOOLEAN
  BY <1>1, ZenonT(40) DEF IInv, FieldsOK, SInv, ShapesOK
<1>b. hist'.base[o] <= hist.version /\ \A p \in Objects : p # o => hist'.base[p] = hist.base[p]
  BY <1>2 DEF SInv, ShapesOK
<1>3. calls' \in 0..MaxCalls
  BY <1>1, FileAssumption DEF SInv, ShapesOK
<1>4. obj' = [obj EXCEPT ![o] = rec]
  BY DEF Sets
<1>5. ASSUME Orderly' PROVE Orderly /\ \A p \in Objects : ~Busy(p)
  BY <1>2, <1>5 DEF Orderly
<1>6. ASSUME Orderly'
      PROVE  Bound \in Nat /\ Bound' \in Nat /\ Bound <= Bound' /\ (rec.then = <<>> => Bound' = Bound + 1)
  BY <1>1, <1>4, <1>5, <1>6, CallBound, BoundNat
<1>7. ASSUME Orderly', rec.state # NONE, hist.base[o] = hist.version, ~Writing
      PROVE  Covers(rec, file) /\ Small(rec, Bound')
  <2>1. Grows(obj[o], rec)
    BY <1>7
  <2>2. Covers(obj[o], file) /\ Small(obj[o], Bound)
    BY <1>5, <1>7, <2>1 DEF Grows, SInv, Saved, Current
  <2>3. Covers(rec, file)
    BY <2>1, <2>2 DEF Grows
  <2>4. Small(rec, IF rec.then = <<>> THEN Bound + 1 ELSE Bound)
    BY <1>6, <1>7, <2>1, <2>2 DEF Grows
  <2>5. Small(rec, Bound')
    BY <1>6, <1>7, <2>4, ShapeSmallMore
  <2> QED
    BY <2>3, <2>5
<1> QED
  BY <1>1, <1>2, <1>b, <1>3, <1>4, <1>5, <1>6, <1>7, ObjStep

(* A step inside a call that leaves the file and the versions alone. *)
LEMMA InnerSaved ==
    ASSUME IInv, SInv, NEW o \in Objects, obj[o].pc \notin {"idle", "write"},
           NEW rec, Shape(rec), Sets(o, rec), UNCHANGED <<file, calls>>,
           hist' = hist \/ \E b : hist' = [hist EXCEPT !.blocks = b],
           rec.pc \notin {"write", "saved"},
           Orderly => rec.pc \notin {"reset", "fill"},
           Len(rec.then) = 2 => rec.then = obj[o].then,
           rec.state # NONE =>
              /\ obj[o].state # NONE
              /\ \A f : Covers(obj[o], f) => Covers(rec, f)
              /\ \A n : Small(obj[o], n) => Small(rec, n)
    PROVE  SInv'
<1>1. /\ hist'.version = hist.version /\ hist'.base = hist.base /\ hist'.alone = hist.alone
      /\ hist'.torn = hist.torn /\ "torn" \in DOMAIN hist' /\ hist'.torn \in BOOLEAN
  BY DEF IInv, FieldsOK, SInv, ShapesOK
<1>2. Orderly' <=> Orderly
  BY <1>1 DEF Orderly
<1>b. hist'.base[o] <= hist.version /\ \A p \in Objects : p # o => hist'.base[p] = hist.base[p]
  BY <1>1 DEF SInv, ShapesOK
<1>3. obj' = [obj EXCEPT ![o] = rec] /\ calls' = calls /\ calls' \in 0..MaxCalls
  BY DEF Sets, SInv, ShapesOK
<1>4. Bound \in Nat /\ Bound' \in Nat /\ Bound <= Bound'
  BY <1>3, InnerBound, BoundNat
<1>5. ASSUME Orderly, rec.state # NONE, hist.base[o] = hist.version, ~Writing
      PROVE  Covers(rec, file) /\ Small(rec, Bound')
  <2>1. Covers(obj[o], file) /\ Small(obj[o], Bound)
    BY <1>5 DEF SInv, Saved, Current
  <2>2. Covers(rec, file) /\ Small(rec, Bound)
    BY <1>5, <2>1
  <2> QED
    BY <1>4, <2>2, ShapeSmallMore
<1> QED
  BY <1>1, <1>2, <1>b, <1>3, <1>4, <1>5, ObjStep

-----------------------------------------------------------------------------
(* The calls. *)

(* An object in its shape, and what it takes of the call. *)
LEMMA ObjShape ==
    ASSUME SInv, NEW o \in Objects
    PROVE  Shape(obj[o]) /\ obj[o] \in Dicts /\ obj[o].time \in Nat /\ obj[o].then \in Thens
BY DEF SInv, ShapesOK, Shape, Dicts

(* Open, Close and Flush. *)
LEMMA SavedOpenClose ==
    ASSUME IInv, SInv, NEW o \in Objects, Open(o) \/ Close(o) \/ Flush(o)
    PROVE  SInv'
<1>1. Call(o) /\ file' = file
  BY DEF Open, Close, Flush
<1>2. CASE Open(o)
  <2> PICK y : y = NoDict
    OBVIOUS
  <2> PICK rec : rec = [y EXCEPT !.pc = "validate"]
    OBVIOUS
  <2>1. Sets(o, rec)
    BY <1>2, Zenon DEF Open
  <2>2. Emptied(y) /\ y.then = <<>>
    BY NoDictEmpty
  <2>3. Emptied(rec) /\ rec.pc = "validate"
    BY <2>2 DEF Emptied, Dicts, Places
  <2>4. Shape(rec) /\ rec.state = NONE
    BY <2>3, EmptyShape
  <2> QED
    BY <1>1, <2>1, <2>3, <2>4, CallSaved
<1>3. CASE Flush(o) /\ obj[o].freed_name
  <2>1. obj' = obj
    BY <1>3 DEF Flush
  <2>2. obj' = [obj EXCEPT ![o] = obj[o]]
    BY <2>1 DEF SInv, ShapesOK
  <2>3. Sets(o, obj[o])
    BY <2>2, Zenon DEF Sets
  <2>4. obj[o].pc = "idle"
    BY <1>1 DEF Call, Busy
  <2>5. obj[o].state # NONE => Grows(obj[o], obj[o])
    <3>1. obj[o].then = <<>>
      BY <2>4, ObjShape DEF Shape
    <3>2. \A n \in Nat : Small(obj[o], n) => Small(obj[o], n + 1)
      BY ObjShape, ShapeSmallMore
    <3> QED
      BY <3>1, <3>2 DEF Grows
  <2> QED
    BY <1>1, <2>3, <2>4, <2>5, CallSaved, ObjShape
<1>4. CASE Close(o) \/ (Flush(o) /\ ~obj[o].freed_name)
  <2>1. PICK then \in {<<"close">>, <<"load">>} : Sets(o, Closing(obj[o], then))
    BY <1>4, Zenon DEF Close, Flush
  <2>2. then \in Thens /\ then # <<>>
    BY DEF Thens
  <2>3. obj[o].state # NONE
    BY <1>4 DEF Close, Flush
  <2> PICK rec : rec = Closing(obj[o], then)
    OBVIOUS
  <2>4. /\ Shape(rec) /\ rec.pc \in {"closed", "lock"} /\ rec.then = then
        /\ rec.state # NONE =>
              /\ \A f : Covers(obj[o], f) => Covers(rec, f)
              /\ \A n : Small(obj[o], n) => Small(rec, n)
    BY <2>2, <2>3, ObjShape, ClosingKeeps
  <2>5. rec.state # NONE => Grows(obj[o], rec)
    BY <2>2, <2>3, <2>4 DEF Grows
  <2> QED
    BY <1>1, <2>1, <2>4, <2>5, CallSaved
<1> QED
  BY <1>2, <1>3, <1>4

(* A lemma put, in the four cases. *)
LEMMA SavedPut ==
    ASSUME IInv, SInv, NEW o \in Objects, NEW w \in Lemmas, Put(o, w)
    PROVE  SInv'
<1>1. Call(o) /\ file' = file /\ obj[o].state # NONE /\ obj[o].pc = "idle"
  BY DEF Put, Call, Busy
<1> PICK old : old = obj[o]
  OBVIOUS
<1>2. Shape(old) /\ old \in Dicts /\ old.state # NONE /\ old.pc = "idle" /\ old.then = <<>>
  BY <1>1, ObjShape DEF Shape
<1>3. PICK rec :
        /\ Sets(o, rec)
        /\ \/ rec = [old EXCEPT !.scores[First(Entries(old, w))] = <<1, 0>>,
                                !.state = Dirty(old, SCORE_DIRTY)]
           \/ rec = old
           \/ rec = Closing(old, <<"put", w>>)
           \/ rec = Append1(old, w)
  BY Zenon DEF Put
<1> SUFFICES Shape(rec) /\ rec.pc \in {"idle", "lock", "closed"} /\ (rec.state # NONE => Grows(old, rec))
  BY <1>1, <1>3, CallSaved
<1>4. CASE rec = [old EXCEPT !.scores[First(Entries(old, w))] = <<1, 0>>,
                             !.state = Dirty(old, SCORE_DIRTY)]
  <2>1. <<1, 0>> \in Num
    BY DEF Num
  <2>2. rec = [old EXCEPT !.scores[First(Entries(old, w))] = <<1, 0>>,
                          !.syncs = old.syncs, !.state = Dirty(old, SCORE_DIRTY)]
    BY <1>2, <1>4 DEF Dicts
  <2>3. old.syncs \in Seq(Num)
    BY <1>2 DEF Dicts
  <2>4. rec = Scored(old, First(Entries(old, w)), <<1, 0>>, old.syncs)
    BY <2>2, Zenon DEF Scored
  <2>5. Len(old.syncs) <= Len(old.syncs) + 1
    BY <2>3
  <2>6. Grown(old, Scored(old, First(Entries(old, w)), <<1, 0>>, old.syncs))
    BY <1>2, <2>1, <2>3, <2>5, ScoredGrows, Zenon
  <2> QED
    BY <2>4, <2>6 DEF Grown
<1>5. CASE rec = old
  <2>1. \A n \in Nat : Small(old, n) => Small(old, n + 1)
    BY <1>2, ShapeSmallMore
  <2> QED
    BY <1>2, <1>5, <2>1 DEF Grows
<1>6. CASE rec = Closing(old, <<"put", w>>)
  <2>1. <<"put", w>> \in Thens /\ <<"put", w>> # <<>>
    BY DEF Thens
  <2>2. /\ Shape(rec) /\ rec.pc \in {"closed", "lock"} /\ rec.then = <<"put", w>>
        /\ rec.state # NONE =>
              /\ \A f : Covers(old, f) => Covers(rec, f)
              /\ \A n : Small(old, n) => Small(rec, n)
    BY <1>2, <1>6, <2>1, ClosingKeeps
  <2> QED
    BY <1>2, <2>1, <2>2 DEF Grows
<1>7. CASE rec = Append1(old, w)
  <2>1. /\ Shape(rec) /\ rec.pc = "idle" /\ rec.then = <<>>
        /\ \A f : Covers(old, f) => Covers(rec, f)
        /\ \A n \in Nat : Small(old, n) => Small(rec, n + 1)
    BY <1>2, <1>7, AppendKeeps
  <2> QED
    BY <1>2, <2>1 DEF Grows
<1> QED
  BY <1>3, <1>4, <1>5, <1>6, <1>7

(* An update or a removal of an entry. *)
LEMMA SavedEntry ==
    ASSUME IInv, TInv, SInv, NEW o \in Objects, NEW k \in Known(o), Update(o, k) \/ RemoveLemma(o, k)
    PROVE  SInv'
<1>1. k \in DOMAIN obj[o].offs /\ obj[o].offs # <<>>
  BY DEF Known, Entries
<1>2. obj[o].state # NONE
  BY <1>1 DEF TInv, Timed
<1>3. Call(o) /\ file' = file /\ obj[o].pc = "idle"
  BY DEF Update, RemoveLemma, Call, Busy
<1> PICK old : old = obj[o]
  OBVIOUS
<1>4. Shape(old) /\ old \in Dicts /\ old.then = <<>>
  BY <1>3, ObjShape DEF Shape
<1>5. PICK rec : rec \in {UpdateEntry(old, k), RemoveEntry(old, k)} /\ Sets(o, rec)
  BY Zenon DEF Update, RemoveLemma
<1> SUFFICES Shape(rec) /\ rec.pc = "idle" /\ Grows(old, rec)
  BY <1>3, <1>5, CallSaved
<1>6. CASE rec = RemoveEntry(old, k)
  <2>1. /\ Shape(rec) /\ rec.pc = "idle" /\ rec.then = <<>>
        /\ \A f : Covers(old, f) => Covers(rec, f)
        /\ \A n \in Nat : Small(old, n) => Small(rec, n + 1)
    BY <1>1, <1>2, <1>3, <1>4, <1>6, RemoveKeeps
  <2> QED
    BY <1>2, <2>1 DEF Grows
<1>7. CASE rec = UpdateEntry(old, k)
  <2>1. /\ old.scores \in Seq(Num) /\ old.offs \in Seq(Num) /\ old.syncs \in Seq(Num)
        /\ Len(old.scores) = Len(old.offs)
    BY <1>4 DEF Shape, Dicts
  <2>2. k \in 1..Len(old.offs) /\ old.offs[k] \in Num /\ old.scores[k] \in Num
    BY <1>1, <2>1
  <2>3. PICK v \in Num : v = <<old.scores[k][1] + 1, old.scores[k][2]>>
    <3>1. old.scores[k][1] + 1 \in Nat /\ old.scores[k][2] \in Nat
      BY <2>2 DEF Num
    <3> QED
      BY <3>1 DEF Num
  <2>4. PICK q \in Seq(Num) : q = Append(old.syncs, old.offs[k]) /\ Len(q) = Len(old.syncs) + 1
    <3>1. \A s \in Seq(Num), e \in Num : Append(s, e) \in Seq(Num) /\ Len(Append(s, e)) = Len(s) + 1
      OBVIOUS
    <3>2. /\ Append(old.syncs, old.offs[k]) \in Seq(Num)
          /\ Len(Append(old.syncs, old.offs[k])) = Len(old.syncs) + 1
      BY <2>1, <2>2, <3>1, Zenon
    <3> QED
      BY <3>2, Zenon
  <2>5. rec = [old EXCEPT !.scores[k] = <<old.scores[k][1] + 1, old.scores[k][2]>>,
                          !.syncs = Append(old.syncs, old.offs[k]), !.state = Dirty(old, SCORE_DIRTY)]
    BY <1>4, <1>7, <2>1, <2>2 DEF UpdateEntry, Dicts
  <2>6. rec = [old EXCEPT !.scores[k] = v, !.syncs = q, !.state = Dirty(old, SCORE_DIRTY)]
    BY <2>3, <2>4, <2>5, Zenon
  <2>7. rec = Scored(old, k, v, q)
    BY <2>6, Zenon DEF Scored
  <2>8. Len(q) <= Len(old.syncs) + 1
    BY <2>1, <2>4
  <2>9. Grown(old, Scored(old, k, v, q))
    BY <1>2, <1>3, <1>4, <2>8, ScoredGrows
  <2> QED
    BY <2>7, <2>9 DEF Grown
<1> QED
  BY <1>5, <1>6, <1>7

(* A search, with the lock or without. *)
LEMMA SavedSearch ==
    ASSUME IInv, SInv, NEW o \in Objects, Search(o)
    PROVE  SInv'
<1>1. Call(o) /\ file' = file /\ obj[o].state # NONE /\ obj[o].pc = "idle"
  BY DEF Search, Call, Busy
<1> PICK old : old = obj[o]
  OBVIOUS
<1>2. Shape(old) /\ old \in Dicts /\ old.then = <<>>
  BY <1>1, ObjShape DEF Shape
<1>3. PICK place \in {"idle", "compare"} : Sets(o, [old EXCEPT !.pc = place])
  <2>1. CASE mutex = Nobody
    BY <2>1, Zenon DEF Search
  <2>2. CASE mutex # Nobody
    <3>1. obj' = obj
      BY <2>2 DEF Search
    <3>2. [old EXCEPT !.pc = "idle"] = old
      BY <1>1, <1>2 DEF Dicts
    <3>3. obj' = [obj EXCEPT ![o] = old]
      BY <3>1 DEF SInv, ShapesOK
    <3>4. Sets(o, [old EXCEPT !.pc = "idle"])
      BY <3>2, <3>3, Zenon DEF Sets
    <3> QED
      BY <3>4
  <2> QED
    BY <2>1, <2>2
<1> PICK rec : rec = [old EXCEPT !.pc = place]
  OBVIOUS
<1>4. place \in Places
  BY DEF Places
<1>5. /\ Shape(rec) /\ rec.pc = place /\ rec.then = <<>>
      /\ \A f : Covers(old, f) => Covers(rec, f)
      /\ \A n : Small(old, n) => Small(rec, n)
  BY <1>2, <1>4, PlaceKeeps
<1>6. Grows(old, rec)
  <2>1. \A n \in Nat : Small(rec, n) => Small(rec, n + 1)
    BY <1>5, ShapeSmallMore
  <2> QED
    BY <1>1, <1>5, <2>1 DEF Grows
<1> QED
  BY <1>1, <1>3, <1>5, <1>6, CallSaved

-----------------------------------------------------------------------------
(* The steps inside a call that leave the file alone. *)

(* While calls do not overlap, a step is of the only object inside one. *)
LEMMA NotWriting ==
    ASSUME IInv, NEW o \in Objects, obj[o].pc \notin {"idle", "write"}, Orderly
    PROVE  ~Writing
BY DEF IInv, OneBusy, Orderly, Writing

(* A step to another place. *)
LEMMA SavedPlace ==
    ASSUME IInv, SInv, NEW o \in Objects, obj[o].pc \notin {"idle", "write"},
           NEW place \in Places \ {"idle", "compare", "lock", "write", "saved"},
           Sets(o, [obj[o] EXCEPT !.pc = place]), UNCHANGED <<file, calls>>,
           hist' = hist \/ \E b : hist' = [hist EXCEPT !.blocks = b],
           Orderly => place \notin {"reset", "fill"}
    PROVE  SInv'
<1> PICK old : old = obj[o]
  OBVIOUS
<1> PICK rec : rec = [old EXCEPT !.pc = place]
  OBVIOUS
<1>1. Shape(old)
  BY ObjShape
<1>2. /\ Shape(rec) /\ rec.pc = place /\ rec.then = old.then /\ rec.state = old.state
      /\ \A f : Covers(old, f) => Covers(rec, f)
      /\ \A n : Small(old, n) => Small(rec, n)
  BY <1>1, PlaceKeeps
<1>3. Sets(o, rec)
  BY Zenon
<1> QED
  BY <1>2, <1>3, InnerSaved

(* A step that leaves no dictionary. *)
LEMMA SavedEmpty ==
    ASSUME IInv, SInv, NEW o \in Objects, obj[o].pc \notin {"idle", "write"},
           NEW rec, Emptied(rec), rec.pc \in {"idle", "closed"}, rec.pc = "idle" => rec.then = <<>>,
           rec.then = <<>> \/ rec.then = obj[o].then,
           Sets(o, rec), UNCHANGED <<file, calls, hist>>
    PROVE  SInv'
<1>1. Shape(rec) /\ rec.state = NONE
  BY EmptyShape
<1>2. Len(rec.then) = 2 => rec.then = obj[o].then
  OBVIOUS
<1> QED
  BY <1>1, <1>2, InnerSaved

(* The comparison ends the search, or begins to close a dictionary. *)
LEMMA SavedCompare ==
    ASSUME IInv, TInv, SInv, NEW o \in Objects, Compare(o)
    PROVE  SInv'
<1> PICK old : old = obj[o]
  OBVIOUS
<1>1. /\ old.pc = "compare" /\ old.state # NONE /\ Shape(old)
      /\ UNCHANGED <<file, calls, hist>>
  BY ObjShape DEF Compare, TInv, Timed, Opened
<1>2. old.then = <<>>
  BY <1>1 DEF Shape
<1>3. PICK rec :
        /\ Sets(o, rec)
        /\ rec = Closing(old, <<"load">>) \/ rec = [old EXCEPT !.pc = "idle"]
  BY Zenon DEF Compare
<1>4. CASE rec = Closing(old, <<"load">>)
  <2>1. <<"load">> \in Thens /\ Len(<<"load">>) # 2
    BY DEF Thens
  <2>2. /\ Shape(rec) /\ rec.pc \in {"closed", "lock"} /\ rec.then = <<"load">>
        /\ rec.state # NONE =>
              /\ \A f : Covers(old, f) => Covers(rec, f)
              /\ \A n : Small(old, n) => Small(rec, n)
    BY <1>1, <1>4, <2>1, ClosingKeeps
  <2> QED
    BY <1>1, <1>3, <2>1, <2>2, InnerSaved
<1>5. CASE rec = [old EXCEPT !.pc = "idle"]
  <2>1. "idle" \in Places
    BY DEF Places
  <2>2. /\ Shape(rec) /\ rec.pc = "idle" /\ rec.then = old.then /\ rec.state = old.state
        /\ \A f : Covers(old, f) => Covers(rec, f)
        /\ \A n : Small(old, n) => Small(rec, n)
    BY <1>1, <1>2, <1>5, <2>1, PlaceKeeps
  <2> QED
    BY <1>1, <1>3, <2>2, InnerSaved
<1> QED
  BY <1>3, <1>4, <1>5

(* The lock of an object that is behind. *)
LEMMA SavedStale ==
    ASSUME IInv, SInv, NEW o \in Objects, Lock(o), ~MayWrite(obj[o])
    PROVE  SInv'
<1>1. Sets(o, [obj[o] EXCEPT !.pc = "stale"])
  BY Zenon DEF Lock
<1>2. PICK b : hist' = [hist EXCEPT !.blocks = b]
  BY Zenon DEF Lock
<1>3. obj[o].pc = "lock" /\ UNCHANGED <<file, calls>>
  BY DEF Lock
<1>4. "stale" \in Places \ {"idle", "compare", "lock", "write", "saved"}
  BY DEF Places
<1> QED
  BY <1>1, <1>2, <1>3, <1>4, SavedPlace

(* The lock is released, and what comes behind the close. *)
LEMMA SavedUnlock ==
    ASSUME IInv, SInv, NEW o \in Objects, Unlock(o) \/ AfterClose(o)
    PROVE  SInv'
<1> PICK old : old = obj[o]
  OBVIOUS
<1>1. /\ old.pc \in {"saved", "stale", "closed"} /\ Shape(old) /\ UNCHANGED <<file, calls, hist>>
      /\ old.time \in Nat /\ old.then \in Thens
  BY ObjShape DEF Unlock, AfterClose
<1>2. CASE Unlock(o)
  <2>1. PICK y : y = Closed(old)
    OBVIOUS
  <2>2. Emptied(y) /\ y.then = old.then
    BY <1>1, <2>1, ClosedEmpty
  <2> PICK rec : rec = [y EXCEPT !.pc = "closed"]
    OBVIOUS
  <2>3. Sets(o, rec)
    BY <1>2, <2>1, Zenon DEF Unlock
  <2>4. Emptied(rec) /\ rec.pc = "closed" /\ rec.then = old.then
    BY <2>2 DEF Emptied, Dicts, Places
  <2> QED
    BY <1>1, <2>3, <2>4, SavedEmpty
<1>3. CASE AfterClose(o) /\ old.then = <<"close">>
  <2> PICK y : y = NoDict
    OBVIOUS
  <2> PICK t \in Nat : t = old.time
    BY <1>1
  <2> PICK rec : rec = [y EXCEPT !.time = t]
    OBVIOUS
  <2>1. Sets(o, rec)
    BY <1>3, Zenon DEF AfterClose
  <2>2. Emptied(y) /\ y.then = <<>> /\ y.pc = "idle"
    BY NoDictEmpty
  <2>3. Emptied(rec) /\ rec.pc = "idle" /\ rec.then = <<>>
    BY <2>2 DEF Emptied, Dicts
  <2> QED
    BY <1>1, <2>1, <2>3, SavedEmpty
<1>4. CASE AfterClose(o) /\ old.then # <<"close">>
  <2>1. Sets(o, [obj[o] EXCEPT !.pc = "validate"])
    BY <1>4, Zenon DEF AfterClose
  <2>2. "validate" \in Places \ {"idle", "compare", "lock", "write", "saved"}
    BY DEF Places
  <2> QED
    BY <1>1, <2>1, <2>2, SavedPlace
<1> QED
  BY <1>2, <1>3, <1>4

(* Between writes the file is good: no reset. *)
LEMMA SavedValidate ==
    ASSUME IInv, SInv, NEW o \in Objects, ValidateFile(o)
    PROVE  SInv'
<1>1. obj[o].pc = "validate" /\ UNCHANGED <<file, calls, hist>>
  BY DEF ValidateFile
<1>2. PICK place : place = IF Validate(file) THEN "load" ELSE "reset"
  OBVIOUS
<1>3. Sets(o, [obj[o] EXCEPT !.pc = place])
  BY <1>2, Zenon DEF ValidateFile
<1>4. place \in Places \ {"idle", "compare", "lock", "write", "saved"}
  BY <1>2 DEF Places
<1>5. ASSUME Orderly PROVE place \notin {"reset", "fill"}
  <2>1. ~Writing
    BY <1>1, <1>5, NotWriting
  <2>2. Validate(file)
    BY <1>5, <2>1 DEF SInv, Saved, FileGood, Sound
  <2> QED
    BY <1>2, <2>2
<1> QED
  BY <1>1, <1>3, <1>4, <1>5, SavedPlace

(* A load that failed leaves no dictionary. *)
LEMMA SavedFailed ==
    ASSUME IInv, SInv, NEW o \in Objects, LoadFailed(o), obj[o].pc \notin {"idle", "write"},
           UNCHANGED <<file, calls, hist>>
    PROVE  SInv'
<1> PICK y : y = NoDict
  OBVIOUS
<1> PICK t \in Nat : t = obj[o].time
  BY ObjShape
<1> PICK rec : rec = [y EXCEPT !.time = t, !.freed_name = TRUE]
  OBVIOUS
<1>1. Sets(o, rec)
  BY Zenon DEF LoadFailed
<1>2. Emptied(y) /\ y.then = <<>> /\ y.pc = "idle"
  BY NoDictEmpty
<1>3. Emptied(rec) /\ rec.pc = "idle" /\ rec.then = <<>>
  BY <1>2 DEF Emptied, Dicts
<1> QED
  BY <1>1, <1>3, SavedEmpty

(* load takes the lock, or fails without it. *)
LEMMA SavedTryLock ==
    ASSUME IInv, SInv, NEW o \in Objects, TryLock(o)
    PROVE  SInv'
<1>1. obj[o].pc = "load" /\ UNCHANGED <<file, calls, hist>>
  BY DEF TryLock
<1>2. CASE mutex = Nobody
  <2>1. Sets(o, [obj[o] EXCEPT !.pc = "read"])
    BY <1>2, Zenon DEF TryLock
  <2>2. "read" \in Places \ {"idle", "compare", "lock", "write", "saved"}
    BY DEF Places
  <2> QED
    BY <1>1, <2>1, <2>2, SavedPlace
<1>3. CASE mutex # Nobody
  <2>1. LoadFailed(o)
    BY <1>3 DEF TryLock
  <2> QED
    BY <1>1, <2>1, SavedFailed
<1> QED
  BY <1>2, <1>3

(* The read takes over what is in the file. *)
LEMMA SavedRead ==
    ASSUME IInv, SInv, NEW o \in Objects, Read(o)
    PROVE  SInv'
<1>1. obj[o].pc = "read" /\ UNCHANGED <<file, calls>> /\ file \in Seq(Nat)
  BY DEF Read, SInv, ShapesOK
<1>2. CASE ~Loadable(file)
  <2>1. LoadFailed(o) /\ hist' = hist
    BY <1>2 DEF Read
  <2> QED
    BY <1>1, <2>1, SavedFailed
<1>3. CASE Loadable(file)
  <2> PICK old : old = obj[o]
    OBVIOUS
  <2> PICK y : y = Loaded(old, file)
    OBVIOUS
  <2> PICK rec : rec = [y EXCEPT !.pc = "stamp"]
    OBVIOUS
  <2>1. Sets(o, rec) /\ hist' = [hist EXCEPT !.base[o] = hist.version]
    BY <1>3, Zenon DEF Read
  <2>2. Shape(old) /\ old.pc = "read"
    BY <1>1, ObjShape
  <2>3. /\ Shape(y) /\ y.state = SYNC
        /\ Memory(y) = Decoded(file) /\ (Validate(file) => HasUpTo(file, y, 7))
    BY <1>1, <1>3, <2>2, LoadedIs
  <2>4. y.pc = "read" /\ y.then = old.then
    <3>1. old \in Dicts
      BY <2>2 DEF Shape
    <3> QED
      BY <2>2, <3>1 DEF Loaded, Dicts
  <2>5. "stamp" \in Places
    BY DEF Places
  <2>6. /\ Shape(rec) /\ rec.pc = "stamp" /\ rec.then = y.then /\ rec.state = y.state
        /\ \A f : Covers(y, f) => Covers(rec, f)
        /\ \A n : Small(y, n) => Small(rec, n)
    BY <2>3, <2>4, <2>5, PlaceKeeps
  <2>7. /\ hist'.version = hist.version /\ hist'.base = [hist.base EXCEPT ![o] = hist.version]
        /\ hist'.alone = hist.alone /\ hist'.torn = hist.torn
        /\ "torn" \in DOMAIN hist' /\ hist'.torn \in BOOLEAN
    BY <2>1 DEF IInv, FieldsOK, SInv, ShapesOK
  <2>8. /\ hist'.base[o] <= hist.version
        /\ \A p \in Objects : p # o => hist'.base[p] = hist.base[p]
    BY <2>7 DEF IInv, FieldsOK
  <2>9. obj' = [obj EXCEPT ![o] = rec] /\ calls' \in 0..MaxCalls
    BY <1>1, <2>1 DEF Sets, SInv, ShapesOK
  <2>10. Orderly' <=> Orderly
    BY <2>7 DEF Orderly
  <2>11. Bound \in Nat /\ Bound' \in Nat /\ Bound <= Bound'
    BY <1>1, <2>4, <2>6, <2>9, InnerBound, BoundNat
  <2>12. ASSUME Orderly PROVE Covers(rec, file) /\ Small(rec, Bound')
    <3>1. FileGood
      BY <1>1, <2>12, NotWriting DEF SInv, Saved
    <3>2. Memory(y) = Decoded(file) /\ HasUpTo(file, y, 7)
      BY <2>3, <3>1 DEF FileGood, Sound
    <3>3. Covers(y, file)
      BY <2>3, <3>2 DEF Covers, FirstWritten, SYNC, SYNC_DIRTY, SCORE_DIRTY, OFFSET_DIRTY, LEMMA_DIRTY
    <3>4. Small(y, Bound)
      <4>1. /\ y.offs = Decoded(file).offs /\ y.syncs = Decoded(file).syncs
            /\ y.block = Decoded(file).block /\ y.freed = Decoded(file).freed
        BY <3>2 DEF Memory
      <4> QED
        BY <3>1, <4>1 DEF FileGood, Small
    <3>5. Small(rec, Bound')
      BY <2>6, <2>11, <3>4, ShapeSmallMore
    <3> QED
      BY <2>6, <3>3, <3>5
  <2> QED
    BY <1>1, <2>6, <2>7, <2>8, <2>9, <2>10, <2>11, <2>12, ObjStep
<1> QED
  BY <1>2, <1>3

(* Only a put has a lemma to append after the load. *)
LEMMA HeadPut ==
    ASSUME NEW then \in Thens, NEW e, e # "put", Head(then \o <<e>>) = "put"
    PROVE  \E w \in Lemmas : then = <<"put", w>>
<1>1. then # <<>>
  <2>1. Head(<<>> \o <<e>>) = e
    OBVIOUS
  <2> QED
    BY <2>1, Zenon
<1>2. then # <<"close">> /\ then # <<"load">>
  <2>1. \A a : Head(<<a>> \o <<e>>) = a
    OBVIOUS
  <2>2. "close" # "put" /\ "load" # "put"
    OBVIOUS
  <2> QED
    BY <2>1, <2>2, Zenon
<1>3. then \in {<<>>, <<"close">>, <<"load">>} \/ \E w \in Lemmas : then = <<"put", w>>
  BY Zenon DEF Thens
<1> QED
  BY <1>1, <1>2, <1>3, Zenon

(* The object is loaded, and the load time is set. *)
Stamped(o, t, x) == x = [o EXCEPT !.pc = "idle", !.time = t, !.then = <<>>]

(* It is the object that was loaded. *)
LEMMA StampedKeeps ==
    ASSUME NEW o, Shape(o), NEW t \in Nat, NEW x, Stamped(o, t, x)
    PROVE  /\ Shape(x) /\ x.pc = "idle" /\ x.then = <<>> /\ x.state = o.state
           /\ \A f : Covers(o, f) => Covers(x, f)
           /\ \A n : Small(o, n) => Small(x, n)
<1> PICK none \in Thens : none = <<>>
  BY DEF Thens
<1> PICK place \in Places : place = "idle"
  BY DEF Places
<1>1. x = [o EXCEPT !.pc = place, !.time = t, !.then = none]
  BY Zenon DEF Stamped
<1>2. o \in Dicts
  BY DEF Shape
<1>3. x \in Dicts
  BY <1>1, <1>2 DEF Dicts
<1>4. x.pc = place /\ x.then = none /\ x.state = o.state
  BY <1>1, <1>2 DEF Dicts
<1>5. SameData(x, o)
  BY <1>1, <1>2 DEF Dicts, SameData
<1>6. x.pc = "idle" /\ x.then = <<>>
  BY <1>4, Zenon
<1> QED
  BY <1>3, <1>4, <1>5, <1>6, MovedKeeps

(* What the call waits for is appended behind its load. *)
LEMMA SavedStamp ==
    ASSUME IInv, TInv, SInv, NEW o \in Objects, Stamp(o)
    PROVE  SInv'
<1> PICK old : old = obj[o]
  OBVIOUS
<1>1. /\ old.pc = "stamp" /\ old.state # NONE /\ Shape(old) /\ old.then \in Thens
      /\ UNCHANGED <<file, calls, hist>>
  BY ObjShape DEF Stamp, TInv, Timed, Opened
<1>2. PICK t, rec :
         /\ t \in {now, now + 1} /\ Stamped(old, t, rec)
         /\ \/ Sets(o, rec)
            \/ /\ \E e : e # "put" /\ Head(old.then \o <<e>>) = "put"
               /\ Sets(o, Append1(rec, old.then[2]))
  BY Zenon DEF Stamp, Stamped
<1>3. t \in Nat
  BY <1>2 DEF IInv, TimesOK
<1> PICK none : none = <<>>
  OBVIOUS
<1>5. /\ Shape(rec) /\ rec.pc = "idle" /\ rec.then = none /\ rec.state = old.state
      /\ \A f : Covers(old, f) => Covers(rec, f)
      /\ \A n : Small(old, n) => Small(rec, n)
  BY <1>1, <1>2, <1>3, StampedKeeps
<1>6. CASE Sets(o, rec)
  <2>1. Len(rec.then) # 2
    BY <1>5
  <2> QED
    BY <1>1, <1>5, <1>6, <2>1, InnerSaved
<1>7. CASE /\ \E e : e # "put" /\ Head(old.then \o <<e>>) = "put"
           /\ Sets(o, Append1(rec, old.then[2]))
  <2>1. PICK w \in Lemmas : old.then = <<"put", w>>
    BY <1>1, <1>7, HeadPut
  <2>2. old.then[2] = w /\ Len(old.then) = 2
    BY <2>1
  <2> PICK new : new = Append1(rec, w)
    OBVIOUS
  <2>3. Sets(o, new)
    BY <1>7, <2>2, Zenon
  <2>4. /\ Shape(new) /\ new.state # NONE /\ new.pc = "idle" /\ new.then = none
        /\ \A f : Covers(rec, f) => Covers(new, f)
        /\ \A n \in Nat : Small(rec, n) => Small(new, n + 1)
    <3>1. rec.state # NONE /\ rec.pc \notin {"lock", "write"}
      BY <1>1, <1>5
    <3>2. /\ Shape(new) /\ new.state # NONE /\ new.pc = rec.pc /\ new.then = rec.then
          /\ \A f : Covers(rec, f) => Covers(new, f)
          /\ \A n \in Nat : Small(rec, n) => Small(new, n + 1)
      <4>1. Shape(rec)
        BY <1>5, Zenon
      <4> QED
        BY <4>1, <3>1, AppendKeeps
    <3> QED
      BY <1>5, <3>2
  <2>5. obj' = [obj EXCEPT ![o] = new] /\ calls' \in 0..MaxCalls
    BY <1>1, <2>3 DEF Sets, SInv, ShapesOK
  <2>6. ASSUME Orderly PROVE Bound \in Nat /\ Bound' = Bound + 1
    <3>1. \A p \in Objects : p # o => obj[p].then = <<>>
      BY <1>1, <2>6, ObjShape DEF IInv, OneBusy, Orderly, Shape
    <3>2. Waiting
      BY <2>2 DEF Waiting
    <3>3. DOMAIN obj = Objects
      BY DEF SInv, ShapesOK
    <3>4. \A p \in Objects : obj'[p].then = <<>>
      BY <2>4, <2>5, <3>1, <3>3
    <3>l. Len(none) # 2
      OBVIOUS
    <3>5. ~Waiting'
      BY <3>4, <3>l, Zenon DEF Waiting
    <3>6. Bound = calls /\ Bound' = calls + 1 /\ calls \in Nat
      BY <1>1, <3>2, <3>5 DEF Bound, SInv, ShapesOK
    <3> QED
      BY <3>6
  <2>7. ASSUME Orderly, hist.base[o] = hist.version
        PROVE  Covers(new, file) /\ Small(new, Bound')
    <3>1. ~Writing
      BY <1>1, <2>7, NotWriting
    <3>2. Covers(old, file) /\ Small(old, Bound)
      BY <1>1, <2>7, <3>1 DEF SInv, Saved, Current
    <3>3. Covers(rec, file) /\ Small(rec, Bound)
      BY <1>5, <3>2
    <3>4. Small(new, Bound + 1)
      BY <2>4, <2>6, <2>7, <3>3
    <3> QED
      BY <2>4, <2>6, <2>7, <3>3, <3>4
  <2>8. Orderly' <=> Orderly
    BY <1>1 DEF Orderly
  <2>9. /\ hist'.version = hist.version /\ hist'.base[o] <= hist.version
        /\ \A p \in Objects : p # o => hist'.base[p] = hist.base[p]
        /\ "torn" \in DOMAIN hist' /\ hist'.torn \in BOOLEAN
    BY <1>1 DEF SInv, ShapesOK
  <2>10. Orderly' => Orderly /\ Bound' \in Nat /\ Bound <= Bound'
    BY <2>6, <2>8
  <2>11. Orderly' /\ new.state # NONE /\ hist'.base[o] = hist.version /\ ~Writing =>
            Covers(new, file) /\ Small(new, Bound')
    BY <1>1, <2>7, <2>8
  <2> QED
    BY <1>1, <2>4, <2>5, <2>9, <2>10, <2>11, ObjStep
<1> QED
  BY <1>2, <1>6, <1>7, Zenon
-----------------------------------------------------------------------------
(* The write-back. *)

(* Two lists of segments in a row. *)
LEMMA RunJoined ==
    ASSUME NEW o, NEW n \in Nat, NEW s, Run(o, n, s), NEW m, m = n + Len(s), NEW t, Run(o, m, t)
    PROVE  Run(o, n, s \o t) /\ Len(s \o t) = Len(s) + Len(t)
<1>1. s \in Seq(Seq(Nat)) /\ t \in Seq(Seq(Nat))
  BY DEF Run
<1> PICK a \in Nat, b \in Nat : a = Len(s) /\ b = Len(t)
  BY <1>1
<1>2. /\ s \o t \in Seq(Seq(Nat)) /\ Len(s \o t) = a + b
      /\ \A j \in 1..(a + b) : (s \o t)[j] = IF j <= a THEN s[j] ELSE t[j - a]
  BY <1>1, ConcatProperties
<1>3. ASSUME NEW j \in 1..(a + b) PROVE (s \o t)[j] = Seg(o, n + j)
  <2>1. CASE j <= a
    BY <1>2, <2>1 DEF Run
  <2>2. CASE ~(j <= a)
    <3>1. j - a \in 1..b /\ n + a + (j - a) = n + j
      BY <2>2
    <3>2. t[j - a] = Seg(o, n + a + (j - a))
      BY <3>1 DEF Run
    <3> QED
      BY <1>2, <2>2, <3>1, <3>2
  <2> QED
    BY <2>1, <2>2
<1> QED
  BY <1>2, <1>3 DEF Run

(* The list without its first one. *)
LEMMA RunTail ==
    ASSUME NEW o, NEW n \in Nat, NEW s, Run(o, n, s), s # <<>>
    PROVE  /\ Run(o, n + 1, Tail(s)) /\ Len(Tail(s)) = Len(s) - 1
           /\ Head(s) = Seg(o, n + 1) /\ Head(s) \in Seq(Nat)
<1>1. s \in Seq(Seq(Nat)) /\ Len(s) \in Nat \ {0}
  BY DEF Run
<1>2. /\ Tail(s) \in Seq(Seq(Nat)) /\ Len(Tail(s)) = Len(s) - 1
      /\ \A j \in 1..(Len(s) - 1) : Tail(s)[j] = s[j + 1]
  BY <1>1, HeadTailProperties
<1>3. ASSUME NEW j \in 1..(Len(s) - 1) PROVE Tail(s)[j] = Seg(o, n + 1 + j)
  <2>1. j + 1 \in 1..Len(s) /\ n + (j + 1) = n + 1 + j
    BY <1>1
  <2>2. s[j + 1] = Seg(o, n + (j + 1))
    BY <2>1 DEF Run
  <2> QED
    BY <1>2, <2>1, <2>2
<1>4. Head(s) = s[1] /\ Head(s) \in Seq(Nat)
  BY <1>1, HeadTailProperties
<1>5. 1 \in 1..Len(s)
  BY <1>1
<1>6. s[1] = Seg(o, n + 1)
  BY <1>5 DEF Run
<1> QED
  BY <1>2, <1>3, <1>4, <1>6 DEF Run

(* One segment, and the last three. *)
LEMMA RunOne ==
    ASSUME NEW o, NEW n \in Nat, NEW a \in Seq(Nat), a = Seg(o, n + 1)
    PROVE  Run(o, n, <<a>>) /\ Len(<<a>>) = 1
<1>1. <<a>> \in Seq(Seq(Nat)) /\ Len(<<a>>) = 1 /\ <<a>>[1] = a
  OBVIOUS
<1> QED
  BY <1>1 DEF Run

(* The lists of write_back are runs of segments. *)
LEMMA Runs ==
    ASSUME NEW o, Shape(o), o.state # NONE
    PROVE  /\ Run(o, 4, Tail3(o)) /\ Len(Tail3(o)) = 3
           /\ Run(o, 2, Tail5(o)) /\ Len(Tail5(o)) = 5
<1>1. PICK s3 \in Seq(Nat), s4 \in Seq(Nat), s5 \in Seq(Nat), s6 \in Seq(Nat), s7 \in Seq(Nat) :
         /\ s3 = Seg(o, 3) /\ s4 = Seg(o, 4) /\ s5 = Seg(o, 5) /\ s6 = Seg(o, 6) /\ s7 = Seg(o, 7)
  <2>1. /\ Seg(o, 3) \in Seq(Nat) /\ Seg(o, 4) \in Seq(Nat)
        /\ Seg(o, 5) \in Seq(Nat) /\ Seg(o, 6) \in Seq(Nat) /\ Seg(o, 7) \in Seq(Nat)
    BY SegmentsFit
  <2> QED
    BY <2>1
<1>2. Tail3(o) = <<s5, s6, s7>>
  BY <1>1, SegmentsAre, Zenon DEF Tail3
<1>3. Run(o, 4, Tail3(o)) /\ Len(Tail3(o)) = 3
  <2>1. <<s5, s6, s7>> \in Seq(Seq(Nat)) /\ Len(<<s5, s6, s7>>) = 3
    OBVIOUS
  <2>2. \A j \in 1..3 : <<s5, s6, s7>>[j] = Seg(o, 4 + j)
    <3>1. /\ <<s5, s6, s7>>[1] = Seg(o, 5) /\ <<s5, s6, s7>>[2] = Seg(o, 6)
          /\ <<s5, s6, s7>>[3] = Seg(o, 7)
      BY <1>1
    <3> QED
      BY <3>1
  <2> QED
    BY <1>2, <2>1, <2>2 DEF Run
<1>4. Run(o, 2, <<s3, s4>>) /\ Len(<<s3, s4>>) = 2
  <2>1. <<s3, s4>> \in Seq(Seq(Nat)) /\ Len(<<s3, s4>>) = 2
    OBVIOUS
  <2>2. \A j \in 1..2 : <<s3, s4>>[j] = Seg(o, 2 + j)
    <3>1. <<s3, s4>>[1] = Seg(o, 3) /\ <<s3, s4>>[2] = Seg(o, 4)
      BY <1>1
    <3> QED
      BY <3>1
  <2> QED
    BY <2>1, <2>2 DEF Run
<1>5. Tail5(o) = <<s3, s4>> \o Tail3(o)
  BY <1>1, SegmentsAre, Zenon DEF Tail5
<1> DEFINE two == <<s3, s4>>
<1> DEFINE three == Tail3(o)
<1>6. Run(o, 2, two) /\ Len(two) = 2 /\ Run(o, 4, three) /\ Len(three) = 3
  BY <1>3, <1>4, Zenon
<1>7. Tail5(o) = two \o three
  BY <1>5, Zenon
<1> HIDE DEF two, three
<1>8. Run(o, 2, two \o three) /\ Len(two \o three) = 5
  <2>1. 2 \in Nat
    OBVIOUS
  <2>2. Run(o, 2, two \o three) /\ Len(two \o three) = Len(two) + Len(three)
    <3>1. Run(o, 2, two) /\ Run(o, 4, three) /\ 4 = 2 + Len(two)
      BY <1>6
    <3> QED
      BY <2>1, <3>1, RunJoined
  <2> QED
    BY <1>6, <2>2
<1>9. Run(o, 2, Tail5(o)) /\ Len(Tail5(o)) = 5
  BY <1>7, <1>8
<1> QED
  BY <1>3, <1>9

(* What is written is the segments from the level's first on. *)
LEMMA SegmentsStage ==
    ASSUME NEW o, Shape(o), o.state \in 2..5
    PROVE  LET n == FirstWritten(o.state)
               s == Segments(o)
           IN  /\ n \in 2..6 /\ s.at = Pos(o, n) /\ s.at \in Nat
               /\ Run(o, n - 1, s.segs) /\ Len(s.segs) = 8 - n
<1> DEFINE s == Segments(o)
<1>1. o.state # NONE
  BY DEF NONE
<1>2. /\ Run(o, 4, Tail3(o)) /\ Len(Tail3(o)) = 3
      /\ Run(o, 2, Tail5(o)) /\ Len(Tail5(o)) = 5
  BY <1>1, Runs
<1>3. \A i \in 0..8 : Pos(o, i) \in Nat
  BY <1>1, SegmentsFit
<1>6. CASE o.state = SYNC_DIRTY
  <2>1. s = [at |-> 2 + Len(o.block) + 6 * Len(o.offs), segs |-> Tail(Tail3(o))]
    BY <1>6 DEF Segments, SYNC_DIRTY, SCORE_DIRTY, OFFSET_DIRTY, LEMMA_DIRTY
  <2>2. FirstWritten(o.state) = 6
    BY <1>6 DEF FirstWritten, SYNC, SYNC_DIRTY, SCORE_DIRTY, OFFSET_DIRTY, LEMMA_DIRTY
  <2>3. Run(o, 5, Tail(Tail3(o))) /\ Len(Tail(Tail3(o))) = 2
    <3>1. Tail3(o) # <<>>
      BY <1>2
    <3> PICK t : t = Tail3(o)
      OBVIOUS
    <3>2. Run(o, 4 + 1, Tail(t)) /\ Len(Tail(t)) = Len(t) - 1
      BY <1>2, <3>1, RunTail
    <3> QED
      BY <1>2, <3>2
  <2>4. s.at = Pos(o, 6) /\ s.segs = Tail(Tail3(o))
    BY <2>1 DEF Pos
  <2> HIDE DEF s
  <2> QED
    BY <1>3, <2>2, <2>3, <2>4 DEF s
<1>7. CASE o.state = SCORE_DIRTY
  <2>1. s = [at |-> 2 + Len(o.block) + 4 * Len(o.offs), segs |-> Tail3(o)]
    BY <1>7 DEF Segments, SYNC_DIRTY, SCORE_DIRTY, OFFSET_DIRTY, LEMMA_DIRTY
  <2>2. FirstWritten(o.state) = 5
    BY <1>7 DEF FirstWritten, SYNC, SYNC_DIRTY, SCORE_DIRTY, OFFSET_DIRTY, LEMMA_DIRTY
  <2>3. s.at = Pos(o, 5) /\ s.segs = Tail3(o)
    BY <2>1 DEF Pos
  <2> HIDE DEF s
  <2> QED
    BY <1>2, <1>3, <2>2, <2>3 DEF s
<1>8. CASE o.state = OFFSET_DIRTY
  <2>1. s = [at |-> 2 + Len(o.block), segs |-> Tail5(o)]
    BY <1>8 DEF Segments, SYNC_DIRTY, SCORE_DIRTY, OFFSET_DIRTY, LEMMA_DIRTY
  <2>2. FirstWritten(o.state) = 3
    BY <1>8 DEF FirstWritten, SYNC, SYNC_DIRTY, SCORE_DIRTY, OFFSET_DIRTY, LEMMA_DIRTY
  <2>3. s.at = Pos(o, 3) /\ s.segs = Tail5(o)
    BY <2>1 DEF Pos
  <2> HIDE DEF s
  <2> QED
    BY <1>2, <1>3, <2>2, <2>3 DEF s
<1>9. CASE o.state = LEMMA_DIRTY
  <2>1. PICK a \in Seq(Nat) : a = Seg(o, 2)
    BY <1>1, SegmentsFit
  <2>2. a = SubSeq(o.block, KeptUnits(o) + 1, Len(o.block))
    BY <2>1, SegmentsAre, Zenon DEF NewPart
  <2>3. s = [at |-> 2 + KeptUnits(o), segs |-> <<a>> \o Tail5(o)]
    BY <1>9, <2>2 DEF Segments, KeptUnits, SYNC_DIRTY, SCORE_DIRTY, OFFSET_DIRTY, LEMMA_DIRTY
  <2>4. FirstWritten(o.state) = 2
    BY <1>9 DEF FirstWritten, SYNC, SYNC_DIRTY, SCORE_DIRTY, OFFSET_DIRTY, LEMMA_DIRTY
  <2>5. Run(o, 1, <<a>> \o Tail5(o)) /\ Len(<<a>> \o Tail5(o)) = 6
    <3>1. a = Seg(o, 1 + 1)
      BY <2>1
    <3>2. Run(o, 1, <<a>>) /\ Len(<<a>>) = 1
      BY <3>1, RunOne
    <3> DEFINE one == <<a>>
    <3> DEFINE five == Tail5(o)
    <3>3. Run(o, 1, one) /\ Len(one) = 1 /\ Run(o, 2, five) /\ Len(five) = 5
      BY <1>2, <3>2, Zenon
    <3> HIDE DEF one, five
    <3>4. Run(o, 1, one) /\ Run(o, 2, five) /\ 2 = 1 + Len(one)
      BY <3>3
    <3>5. 1 \in Nat
      OBVIOUS
    <3>6. Run(o, 1, one \o five) /\ Len(one \o five) = Len(one) + Len(five)
      BY <3>4, <3>5, RunJoined
    <3>7. Run(o, 1, one \o five) /\ Len(one \o five) = 6
      BY <3>3, <3>6
    <3> QED
      BY <3>7 DEF one, five
  <2>6. s.at = Pos(o, 2) /\ s.segs = <<a>> \o Tail5(o)
    BY <2>3 DEF Pos
  <2> HIDE DEF s
  <2> QED
    BY <1>3, <2>4, <2>5, <2>6 DEF s
<1> QED
  BY <1>6, <1>7, <1>8, <1>9 DEF SYNC_DIRTY, SCORE_DIRTY, OFFSET_DIRTY, LEMMA_DIRTY

(* While calls do not overlap, the others are outside. *)
LEMMA OthersIdle ==
    ASSUME IInv, NEW o \in Objects, obj[o].pc # "idle", Orderly, NEW p \in Objects, p # o
    PROVE  obj[p].pc = "idle"
BY DEF IInv, OneBusy, Orderly

(* Before a write of the segments, and between two of them. *)
LEMMA WriteSaved ==
    ASSUME IInv, SInv, NEW o \in Objects, obj[o].pc # "idle", NEW rec, Shape(rec),
           Sets(o, rec), rec.pc = "write", file' \in Seq(Nat), calls' = calls,
           hist'.version = hist.version, hist'.base = hist.base,
           "torn" \in DOMAIN hist', hist'.torn \in BOOLEAN,
           Orderly' => Orderly /\ Stage(rec, file') /\ Small(rec, Bound')
    PROVE  SInv'
<1>1. DOMAIN obj = Objects /\ \A p \in Objects : Shape(obj[p])
  BY DEF SInv, ShapesOK
<1>2. /\ DOMAIN obj' = Objects /\ obj'[o] = rec
      /\ \A p \in Objects : p # o => obj'[p] = obj[p]
  BY <1>1 DEF Sets
<1>3. ShapesOK'
  <2>1. \A p \in Objects : Shape(obj'[p])
    BY <1>1, <1>2
  <2>2. obj' \in [Objects -> Dicts]
    BY DEF SInv, ShapesOK, Shape, Sets
  <2> QED
    BY <1>2, <2>1, <2>2 DEF SInv, ShapesOK
<1>4. Writing'
  BY <1>2 DEF Writing
<1>5. ASSUME Orderly' PROVE Saved'
  <2>1. \A p \in Objects : p # o => obj'[p].pc = "idle"
    BY <1>2, <1>5, OthersIdle
  <2> QED
    BY <1>2, <1>4, <1>5, <2>1 DEF Saved
<1> QED
  BY <1>3, <1>5 DEF SInv

(* The object goes on to write. *)
WriteOf(o, x, n, segs) ==
    /\ x \in Dicts /\ SameData(x, o) /\ x.state = o.state /\ x.pc = "write" /\ x.then = o.then
    /\ x.at = Pos(o, n) /\ x.segs = segs

(* It has the segments that lie before its first write. *)
LEMMA WriteKeeps ==
    ASSUME NEW o, Shape(o), o.state \in 2..5, NEW f, NEW n \in 2..8, HasUpTo(f, o, n),
           NEW segs, Run(o, n - 1, segs), Len(segs) = 8 - n, NEW x, WriteOf(o, x, n, segs)
    PROVE  /\ Shape(x) /\ Stage(x, f)
           /\ \A m : Small(o, m) => Small(x, m)
<1>1. Shape(x) /\ \A m : Small(o, m) => Small(x, m)
  BY MovedKeeps DEF WriteOf
<1>2. /\ \A i : Seg(x, i) = Seg(o, i) /\ Pos(x, i) = Pos(o, i)
      /\ HasUpTo(f, x, n)
  BY SameSegments DEF WriteOf
<1>3. Run(x, n - 1, x.segs) /\ Len(x.segs) = 8 - n /\ x.at = Pos(x, n)
  BY <1>2 DEF WriteOf, Run
<1> QED
  BY <1>1, <1>2, <1>3 DEF Stage, StageAt

(* The lock of an object that has the latest version. *)
LEMMA SavedLock ==
    ASSUME IInv, TInv, SInv, NEW o \in Objects, Lock(o), MayWrite(obj[o])
    PROVE  SInv'
<1> PICK old : old = obj[o]
  OBVIOUS
<1> DEFINE n == FirstWritten(old.state)
           s == Segments(old)
<1>1. /\ old.pc = "lock" /\ UNCHANGED <<file, calls>> /\ Shape(old) /\ old \in Dicts
  BY ObjShape DEF Lock
<1>2. old.state \in 2..5
  BY <1>1 DEF Shape
<1>3. PICK rec : Sets(o, rec) /\ rec = [old EXCEPT !.pc = "write", !.at = s.at, !.segs = s.segs]
  BY Zenon DEF Lock
<1>4. PICK b : hist' = [hist EXCEPT !.blocks = b]
  BY Zenon DEF Lock
<1>5. /\ hist'.version = hist.version /\ hist'.base = hist.base /\ hist'.alone = hist.alone
      /\ hist'.torn = hist.torn /\ "torn" \in DOMAIN hist' /\ hist'.torn \in BOOLEAN
  BY <1>4 DEF IInv, FieldsOK, SInv, ShapesOK
<1>6. Orderly' <=> Orderly
  BY <1>5 DEF Orderly
<1>7. /\ n \in 2..6 /\ s.at = Pos(old, n) /\ s.at \in Nat
      /\ Run(old, n - 1, s.segs) /\ Len(s.segs) = 8 - n
  BY <1>1, <1>2, SegmentsStage
<1> HIDE DEF n
<1>8. WriteOf(old, rec, n, s.segs)
  <2> PICK place \in Places, at \in Nat, segs \in Seq(Seq(Nat)) :
         place = "write" /\ at = s.at /\ segs = s.segs
    BY <1>7 DEF Places, Run
  <2>1. rec = [old EXCEPT !.pc = place, !.at = at, !.segs = segs]
    BY <1>3, Zenon
  <2>2. rec \in Dicts
    BY <1>1, <2>1 DEF Dicts
  <2>3. /\ SameData(rec, old) /\ rec.state = old.state /\ rec.pc = place /\ rec.then = old.then
        /\ rec.at = at /\ rec.segs = segs
    BY <1>1, <2>1 DEF Dicts, SameData
  <2> QED
    BY <1>7, <2>2, <2>3, Zenon DEF WriteOf
<1>9. Shape(rec) /\ \A m : Small(old, m) => Small(rec, m)
  BY <1>1, <1>8, MovedKeeps, <1>2 DEF WriteOf
<1>10. ASSUME Orderly PROVE Stage(rec, file) /\ Small(rec, Bound')
  <2>1. old.state # NONE /\ hist.base[o] = hist.version
    BY <1>2, <1>10 DEF NONE, IInv, Fresh, Latest, MayWrite, Orderly
  <2>2. ~Writing
    BY <1>1, <1>10, NotWriting
  <2>3. Covers(old, file) /\ Small(old, Bound)
    BY <1>10, <2>1, <2>2 DEF SInv, Saved, Current
  <2>4. HasUpTo(file, old, n)
    BY <2>3 DEF Covers, n
  <2>5. Stage(rec, file) /\ Small(rec, Bound)
    <3>1. n \in 2..8
      BY <1>7
    <3> HIDE DEF s
    <3> QED
      BY <1>1, <1>2, <1>7, <1>8, <2>3, <2>4, <3>1, WriteKeeps
  <2>6. Bound \in Nat /\ Bound' \in Nat /\ Bound <= Bound'
    BY <1>1, <1>3, <1>8, BoundNat, InnerBound DEF Sets, WriteOf
  <2> QED
    BY <1>9, <2>5, <2>6, ShapeSmallMore
<1>11. file' \in Seq(Nat) /\ calls' = calls /\ old.pc # "idle" /\ rec.pc = "write"
  BY <1>1, <1>8 DEF SInv, ShapesOK, WriteOf
<1>12. Orderly' => Orderly /\ Stage(rec, file') /\ Small(rec, Bound')
  BY <1>1, <1>6, <1>10
<1> QED
  BY <1>3, <1>5, <1>9, <1>11, <1>12, WriteSaved

(* A write adds the segment that is missing next. *)
LEMMA StageGoesOn ==
    ASSUME NEW o, Shape(o), o.state # NONE, NEW f \in Seq(Nat), NEW n \in 2..8, StageAt(o, f, n),
           o.segs # <<>>
    PROVE  /\ n + 1 \in 2..8 /\ HasUpTo(Overwritten(f, o.at, Head(o.segs)), o, n + 1)
           /\ o.at + Len(Head(o.segs)) = Pos(o, n + 1)
           /\ Run(o, n, Tail(o.segs)) /\ Len(Tail(o.segs)) = 8 - (n + 1)
<1> DEFINE seg == Head(o.segs)
<1>0. /\ HasUpTo(f, o, n) /\ o.at = Pos(o, n)
      /\ Run(o, n - 1, o.segs) /\ Len(o.segs) = 8 - n
  BY DEF StageAt
<1>1. n \in 2..7
  <2>1. o.segs \in Seq(Seq(Nat))
    BY <1>0 DEF Run
  <2>2. Len(o.segs) # 0
    BY <2>1
  <2> QED
    BY <1>0, <2>2
<1>2. Run(o, n, Tail(o.segs)) /\ Len(Tail(o.segs)) = Len(o.segs) - 1 /\ seg = Seg(o, n)
  <2>1. n - 1 \in Nat /\ (n - 1) + 1 = n
    OBVIOUS
  <2> QED
    BY <1>0, <2>1, RunTail
<1> HIDE DEF seg
<1>3. /\ \A i \in 0..8 : Pos(o, i) \in Nat
      /\ \A i \in 0..7 : Seg(o, i) \in Seq(Nat) /\ Pos(o, i + 1) = Pos(o, i) + Len(Seg(o, i))
  BY SegmentsFit
<1>4. Pos(o, n + 1) = Pos(o, n) + Len(seg) /\ seg \in Seq(Nat) /\ Pos(o, n) \in Nat
  <2>1. n \in 0..7 /\ n \in 0..8
    BY <1>1
  <2>2. Seg(o, n) \in Seq(Nat) /\ Pos(o, n + 1) = Pos(o, n) + Len(Seg(o, n)) /\ Pos(o, n) \in Nat
    BY <1>3, <2>1, Zenon
  <2>3. seg = Seg(o, n)
    BY <1>2
  <2> QED
    BY <2>2, <2>3, Zenon
<1> DEFINE new == Overwritten(f, o.at, seg)
<1>5. /\ Has(new, o.at, seg)
      /\ \A p \in Nat, s \in Seq(Nat) : Has(f, p, s) /\ p + Len(s) <= o.at => Has(new, p, s)
  BY <1>0, <1>4, OverwrittenHas
<1> HIDE DEF new
<1>6. ASSUME NEW i \in 0..7, i < n + 1 PROVE Has(new, Pos(o, i), Seg(o, i))
  <2>1. CASE i = n
    BY <1>0, <1>2, <1>5, <2>1
  <2>2. CASE i # n
    <3>1. i < n /\ n \in 0..8
      BY <1>6, <2>2
    <3>2. Pos(o, i) + Len(Seg(o, i)) <= o.at
      BY <1>0, <3>1, PosAscends
    <3>3. Has(f, Pos(o, i), Seg(o, i))
      BY <1>0, <3>1 DEF HasUpTo
    <3>4. Pos(o, i) \in Nat /\ Seg(o, i) \in Seq(Nat)
      <4>1. i \in 0..8
        OBVIOUS
      <4> QED
        BY <1>3, <4>1, Zenon
    <3> QED
      BY <1>5, <3>2, <3>3, <3>4
  <2> QED
    BY <2>1, <2>2
<1>7. HasUpTo(new, o, n + 1)
  BY <1>6 DEF HasUpTo
<1> QED
  BY <1>0, <1>1, <1>2, <1>4, <1>7 DEF new, seg

(* One write of the write-back. *)
LEMMA SavedWrite ==
    ASSUME IInv, SInv, NEW o \in Objects, Write(o)
    PROVE  SInv'
<1> PICK old : old = obj[o]
  OBVIOUS
<1>1. /\ old.pc = "write" /\ old.segs # <<>> /\ UNCHANGED <<calls, hist>>
      /\ Shape(old) /\ old \in Dicts
  BY ObjShape DEF Write
<1>2. old.state \in 2..5 /\ old.state # NONE
  BY <1>1 DEF Shape, NONE
<1> DEFINE seg == Head(old.segs)
<1>3. old.segs \in Seq(Seq(Nat)) /\ old.at \in Nat
  BY <1>1 DEF Dicts
<1>4. seg \in Seq(Nat) /\ Tail(old.segs) \in Seq(Seq(Nat)) /\ old.at + Len(seg) \in Nat
  <2>1. seg \in Seq(Nat) /\ Tail(old.segs) \in Seq(Seq(Nat))
    BY <1>1, <1>3, HeadTailProperties, Zenon
  <2> HIDE DEF seg
  <2> QED
    BY <1>3, <2>1
<1>5. PICK rec : /\ Sets(o, rec) /\ file' = Overwritten(file, old.at, seg)
                 /\ rec = [old EXCEPT !.at = @ + Len(seg), !.segs = Tail(@)]
  BY Zenon DEF Write
<1> HIDE DEF seg
<1> PICK at \in Nat, segs \in Seq(Seq(Nat)) : at = old.at + Len(seg) /\ segs = Tail(old.segs)
  BY <1>4
<1>6. rec = [old EXCEPT !.at = at, !.segs = segs]
  BY <1>5, Zenon
<1>7. rec \in Dicts
  BY <1>1, <1>6 DEF Dicts
<1>8. /\ SameData(rec, old) /\ rec.state = old.state /\ rec.pc = old.pc /\ rec.then = old.then
      /\ rec.at = at /\ rec.segs = segs
  BY <1>1, <1>6 DEF Dicts, SameData
<1>9. rec.pc = "write"
  BY <1>1, <1>8
<1>10. Shape(rec) /\ \A m : Small(old, m) => Small(rec, m)
  BY <1>1, <1>2, <1>7, <1>8, <1>9, MovedKeeps
<1>11. file \in Seq(Nat) /\ file' \in Seq(Nat)
  <2>1. file \in Seq(Nat)
    BY DEF SInv, ShapesOK
  <2> QED
    BY <1>3, <1>4, <1>5, <2>1, OverwrittenHas
<1>12. ASSUME Orderly PROVE Stage(rec, file') /\ Small(rec, Bound')
  <2>1. Stage(old, file) /\ Small(old, Bound)
    BY <1>1, <1>12 DEF SInv, Saved
  <2>2. PICK n \in 2..8 : StageAt(old, file, n)
    BY <2>1 DEF Stage
  <2>3. /\ n + 1 \in 2..8 /\ HasUpTo(file', old, n + 1)
        /\ at = Pos(old, n + 1) /\ Run(old, n, segs) /\ Len(segs) = 8 - (n + 1)
    <3>1. /\ n + 1 \in 2..8 /\ HasUpTo(Overwritten(file, old.at, seg), old, n + 1)
          /\ old.at + Len(seg) = Pos(old, n + 1)
          /\ Run(old, n, Tail(old.segs)) /\ Len(Tail(old.segs)) = 8 - (n + 1)
      BY <1>1, <1>2, <1>11, <2>2, StageGoesOn DEF seg
    <3> QED
      BY <1>5, <3>1, Zenon
  <2>4. WriteOf(old, rec, n + 1, segs)
    BY <1>7, <1>8, <1>9, <2>3 DEF WriteOf
  <2>5. Stage(rec, file')
    <3> PICK m \in 2..8 : m = n + 1
      BY <2>3
    <3>1. n = m - 1
      OBVIOUS
    <3>2. HasUpTo(file', old, m) /\ Run(old, m - 1, segs) /\ Len(segs) = 8 - m
      BY <2>3, <3>1
    <3>3. WriteOf(old, rec, m, segs)
      BY <2>4
    <3> QED
      BY <1>1, <1>2, <3>2, <3>3, WriteKeeps
  <2>6. Bound \in Nat /\ Bound' \in Nat /\ Bound <= Bound'
    BY <1>1, <1>5, <1>8, BoundNat, InnerBound DEF Sets
  <2>7. Small(rec, Bound)
    BY <1>10, <2>1
  <2> QED
    BY <1>10, <2>5, <2>6, <2>7, ShapeSmallMore
<1>13. /\ hist'.version = hist.version /\ hist'.base = hist.base
       /\ "torn" \in DOMAIN hist' /\ hist'.torn \in BOOLEAN /\ calls' = calls /\ old.pc # "idle"
  BY <1>1 DEF SInv, ShapesOK
<1>14. Orderly' => Orderly /\ Stage(rec, file') /\ Small(rec, Bound')
  BY <1>1, <1>12 DEF Orderly
<1> QED
  BY <1>5, <1>9, <1>10, <1>11, <1>13, <1>14, WriteSaved

(* The model's cap on numbers lies above every count that MaxCalls calls reach:
   what 32 bits are in the code. *)
FileFits == MaxCalls + 1 < Huge /\ 2 * ((MaxCalls + 1) * Average) < Huge

(* The counts of an object stay below the cap. *)
LEMMA FitsSmall ==
    ASSUME FileFits, NEW o, Shape(o), NEW n \in Nat, n <= MaxCalls + 1, Small(o, n)
    PROVE  Fits(o)
<1>1. MaxCalls \in Nat
  BY FileAssumption
<1>2. MaxCalls + 1 \in Nat
  BY <1>1
<1>3. Small(o, MaxCalls + 1)
  BY <1>2, ShapeSmallMore
<1>4. PICK a \in Nat : a = (MaxCalls + 1) * Average
  <2>1. (MaxCalls + 1) * Average \in Nat
    BY <1>1, OneMore
  <2> QED
    BY <2>1
<1>5. /\ Len(o.block) \in Nat /\ Len(o.offs) \in Nat /\ Len(o.syncs) \in Nat /\ o.freed \in Nat
  BY DEF Shape, Dicts
<1>6. Len(o.block) <= a /\ 2 * a < Huge
  BY <1>3, <1>4, Zenon DEF Small, FileFits
<1>7. /\ Len(o.offs) <= MaxCalls + 1 /\ Len(o.syncs) <= MaxCalls + 1 /\ o.freed <= MaxCalls + 1
      /\ MaxCalls + 1 < Huge
  BY <1>3, Zenon DEF Small, FileFits
<1>8. Huge \in Nat
  BY DEF Huge
<1> QED
  BY <1>2, <1>5, <1>6, <1>7, <1>8 DEF Fits

(* The bound is not more than the calls allow. *)
LEMMA BoundSmall ==
    ASSUME SInv
    PROVE  Bound \in Nat /\ Bound <= MaxCalls + 1
<1>1. MaxCalls \in Nat
  BY FileAssumption
<1> QED
  BY <1>1 DEF Bound, SInv, ShapesOK

(* All segments are there: what ftruncate leaves is the whole object. *)
LEMMA StageDone ==
    ASSUME NEW o, Shape(o), o.state # NONE, Fits(o), NEW f \in Seq(Nat), Stage(o, f), o.segs = <<>>
    PROVE  /\ Sound(Truncated(f, o.at)) /\ Decoded(Truncated(f, o.at)) = Memory(o)
           /\ HasUpTo(Truncated(f, o.at), o, 8)
<1>1. PICK n \in 2..8 : StageAt(o, f, n)
  BY DEF Stage
<1>2. Len(o.segs) = 0
  OBVIOUS
<1>3. n = 8
  BY <1>1, <1>2 DEF StageAt
<1>4. HasUpTo(f, o, 8) /\ o.at = Pos(o, 8)
  BY <1>1, <1>3 DEF StageAt
<1>5. /\ \A i \in 0..8 : Pos(o, i) \in Nat
      /\ \A i \in 0..7 : Seg(o, i) \in Seq(Nat) /\ Pos(o, i + 1) = Pos(o, i) + Len(Seg(o, i))
  BY SegmentsFit
<1>6. o.at \in Nat
  BY <1>4, <1>5
<1> DEFINE new == Truncated(f, o.at)
<1>7. /\ new \in Seq(Nat) /\ Len(new) = o.at
      /\ \A p \in Nat, s \in Seq(Nat) : Has(f, p, s) /\ p + Len(s) <= o.at => Has(new, p, s)
  BY <1>6, TruncatedHas
<1> HIDE DEF new
<1>8. ASSUME NEW i \in 0..7 PROVE Has(new, Pos(o, i), Seg(o, i))
  <2>1. i < 8 /\ i \in 0..8 /\ 8 \in 0..8
    OBVIOUS
  <2>2. Pos(o, i) + Len(Seg(o, i)) <= o.at
    BY <1>4, <2>1, PosAscends
  <2>3. Has(f, Pos(o, i), Seg(o, i))
    BY <1>4, <2>1 DEF HasUpTo
  <2>4. Pos(o, i) \in Nat /\ Seg(o, i) \in Seq(Nat)
    BY <1>5, <2>1, Zenon
  <2> QED
    BY <1>7, <2>2, <2>3, <2>4
<1>9. HasUpTo(new, o, 8)
  BY <1>8 DEF HasUpTo
<1>10. Sound(new) /\ Decoded(new) = Memory(o)
  BY <1>4, <1>7, <1>9, ReadBack
<1> QED
  BY <1>9, <1>10 DEF new

(* The sizes are those of what is decoded. *)
LEMMA SmallMemory ==
    ASSUME NEW o, NEW x, x = Memory(o), NEW n
    PROVE  Small(x, n) <=> Small(o, n)
BY DEF Small, Memory

(* A file that has all of the object has what its level leaves alone. *)
LEMMA AllCovers ==
    ASSUME NEW o, o.state \in 2..5, NEW f, HasUpTo(f, o, 8)
    PROVE  Covers(o, f)
<1>1. FirstWritten(o.state) \in 2..6
  BY DEF FirstWritten, SYNC, SYNC_DIRTY, SCORE_DIRTY, OFFSET_DIRTY, LEMMA_DIRTY
<1> QED
  BY <1>1 DEF Covers, HasUpTo

(* The last segment is there, and the file gets its length. *)
LEMMA SavedEndWrite ==
    ASSUME FileFits, IInv, SInv, NEW o \in Objects, EndWrite(o)
    PROVE  SInv'
<1> PICK old : old = obj[o]
  OBVIOUS
<1>1. /\ old.pc = "write" /\ old.segs = <<>> /\ calls' = calls
      /\ Shape(old) /\ old \in Dicts
  BY ObjShape DEF EndWrite
<1>2. old.state \in 2..5 /\ old.state # NONE
  BY <1>1 DEF Shape, NONE
<1>3. PICK rec : /\ Sets(o, rec) /\ file' = Truncated(file, old.at)
                 /\ hist' = [hist EXCEPT !.version = @ + 1, !.base[o] = @ + 1]
                 /\ rec = [old EXCEPT !.pc = "saved"]
  BY Zenon DEF EndWrite
<1>4. Shape(rec) /\ rec.pc = "saved" /\ rec.then = old.then /\ rec.state = old.state
  <2>1. "saved" \in Places
    BY DEF Places
  <2> QED
    BY <1>1, <1>3, <2>1, PlaceKeeps
<1>5. /\ SameData(rec, old)
      /\ \A f : Covers(old, f) => Covers(rec, f)
      /\ \A n : Small(old, n) => Small(rec, n)
      /\ Memory(rec) = Memory(old)
  <2>1. SameData(rec, old)
    BY <1>1, <1>3 DEF Dicts, SameData
  <2>2. "saved" \in Places
    BY DEF Places
  <2>3. /\ \A f : Covers(old, f) => Covers(rec, f)
        /\ \A n : Small(old, n) => Small(rec, n)
    BY <1>1, <1>3, <2>2, PlaceKeeps
  <2>4. Memory(rec) = Memory(old)
    BY <2>1, SameSegments
  <2> QED
    BY <2>1, <2>3, <2>4
<1>6. DOMAIN obj = Objects /\ \A p \in Objects : Shape(obj[p])
  BY DEF SInv, ShapesOK
<1>7. /\ DOMAIN obj' = Objects /\ obj'[o] = rec
      /\ \A p \in Objects : p # o => obj'[p] = obj[p]
  BY <1>3, <1>6 DEF Sets
<1>8. /\ hist'.version = hist.version + 1 /\ hist'.alone = hist.alone /\ hist'.torn = hist.torn
      /\ "torn" \in DOMAIN hist' /\ hist'.torn \in BOOLEAN /\ hist.version \in Nat
      /\ hist'.base[o] <= hist'.version
      /\ \A p \in Objects : p # o => hist'.base[p] = hist.base[p] /\ hist.base[p] <= hist.version
                                     /\ hist.base[p] \in Nat
  BY <1>3 DEF IInv, FieldsOK, SInv, ShapesOK
<1>9. file \in Seq(Nat) /\ file' \in Seq(Nat)
  <2>1. file \in Seq(Nat) /\ old.at \in Nat
    BY <1>1 DEF SInv, ShapesOK, Dicts
  <2> QED
    BY <1>3, <2>1, TruncatedHas
<1>10. ShapesOK'
  <2>1. \A p \in Objects : Shape(obj'[p])
    BY <1>4, <1>6, <1>7
  <2>2. obj' \in [Objects -> Dicts]
    BY <1>3, <1>4 DEF SInv, ShapesOK, Shape, Sets
  <2>3. calls' \in 0..MaxCalls
    BY <1>1 DEF SInv, ShapesOK
  <2>4. \A p \in Objects : hist'.base[p] <= hist'.version
    BY <1>8
  <2> QED
    BY <1>8, <1>9, <2>1, <2>2, <2>3, <2>4 DEF ShapesOK
<1>11. ASSUME Orderly' PROVE Saved'
  <2>0. Orderly
    BY <1>8, <1>11 DEF Orderly
  <2>1. \A p \in Objects : p # o => obj'[p].pc = "idle"
    BY <1>1, <1>7, <2>0, OthersIdle
  <2>2. Stage(old, file) /\ Small(old, Bound)
    BY <1>1, <2>0 DEF SInv, Saved
  <2>3. Fits(old)
    BY <1>1, <2>2, BoundSmall, FitsSmall
  <2>4. /\ Sound(file') /\ Decoded(file') = Memory(old) /\ HasUpTo(file', old, 8)
    BY <1>1, <1>2, <1>3, <1>9, <2>2, <2>3, StageDone
  <2>5. Bound \in Nat /\ Bound' \in Nat /\ Bound <= Bound'
    BY <1>1, <1>3, <1>4, BoundNat, InnerBound DEF Sets
  <2>6. Small(old, Bound')
    BY <1>1, <2>2, <2>5, ShapeSmallMore
  <2>7. FileGood'
    <3>1. Small(Decoded(file'), Bound')
      BY <2>4, <2>6, SmallMemory
    <3> QED
      BY <2>4, <3>1 DEF FileGood
  <2>8. ASSUME NEW p \in Objects, Current(p)'
        PROVE  Covers(obj'[p], file') /\ Small(obj'[p], Bound')
    <3>1. p = o
      BY <1>8, <2>8 DEF Current
    <3>2. Covers(old, file')
      BY <1>2, <2>4, AllCovers
    <3> QED
      BY <1>5, <1>7, <2>6, <3>1, <3>2
  <2>9. ASSUME NEW p \in Objects
        PROVE  obj'[p].pc = "saved" => Validate(file') /\ Decoded(file') = Memory(obj'[p])
    BY <1>5, <1>7, <2>1, <2>4 DEF Sound
  <2>10. \A p \in Objects : obj'[p].pc \notin {"reset", "fill", "write"}
    BY <1>4, <1>7, <2>1
  <2> QED
    BY <2>7, <2>8, <2>9, <2>10 DEF Saved
<1> QED
  BY <1>10, <1>11 DEF SInv

-----------------------------------------------------------------------------
(* Deaths, and the other steps. *)

(* What reset writes. *)
LEMMA EmptyFileIs == EmptyFile \in Seq(Nat)
<1>1. Version \in Seq(Nat)
  BY DEF Version
<1>2. [k \in 1..InfoSize |-> 0] \in Seq(Nat)
  BY DEF InfoSize
<1> QED
  BY <1>1, <1>2, ConcatProperties DEF EmptyFile

(* A file is never found invalid while calls do not overlap. *)
LEMMA SavedReset ==
    ASSUME IInv, SInv, NEW o \in Objects, Reset(o) \/ Fill(o)
    PROVE  SInv'
<1> PICK old : old = obj[o]
  OBVIOUS
<1>1. /\ old.pc \in {"reset", "fill"} /\ UNCHANGED <<calls, hist>> /\ Shape(old)
  BY ObjShape DEF Reset, Fill
<1>2. PICK place \in {"fill", "load"} : Sets(o, [old EXCEPT !.pc = place])
  BY Zenon DEF Reset, Fill
<1> PICK rec : rec = [old EXCEPT !.pc = place]
  OBVIOUS
<1>3. Shape(rec)
  <2>1. place \in Places /\ place \notin {"idle", "compare", "lock", "write"}
    BY DEF Places
  <2> QED
    BY <1>1, <2>1, PlaceKeeps
<1>4. file' \in Seq(Nat)
  <2>1. file \in Seq(Nat) /\ 0 \in Nat /\ <<>> \in Seq(Nat)
    BY DEF SInv, ShapesOK
  <2>2. Overwritten(file, 0, EmptyFile) \in Seq(Nat)
    BY <2>1, EmptyFileIs, OverwrittenHas
  <2>3. file' = <<>> \/ file' = Overwritten(file, 0, EmptyFile)
    BY Zenon DEF Reset, Fill
  <2> QED
    BY <2>1, <2>2, <2>3
<1>5. obj' = [obj EXCEPT ![o] = rec]
  BY <1>2, Zenon DEF Sets
<1>6. obj' \in [Objects -> Dicts] /\ \A p \in Objects : Shape(obj'[p])
  BY <1>3, <1>5 DEF SInv, ShapesOK, Shape
<1>7. ShapesOK'
  BY <1>1, <1>4, <1>6 DEF SInv, ShapesOK
<1>8. ~Orderly'
  <2>1. Orderly' <=> Orderly
    BY <1>1 DEF Orderly
  <2>2. ~Orderly
    BY <1>1 DEF SInv, Saved
  <2> QED
    BY <2>1, <2>2
<1> QED
  BY <1>7, <1>8 DEF SInv

(* The bound grows with the calls. *)
LEMMA MoreCalls ==
    ASSUME NEW a \in Nat, NEW b \in Nat, a <= b, NEW c \in {0, 1}, NEW x, x = a + c, NEW y, y = b + c
    PROVE  x \in Nat /\ y \in Nat /\ x <= y
OBVIOUS

(* Nothing happens but a call that the process does not survive. *)
LEMMA SavedSame ==
    ASSUME SInv, UNCHANGED <<file, obj, hist>>, calls' \in 0..MaxCalls, calls <= calls'
    PROVE  SInv'
<1>1. ShapesOK'
  BY DEF SInv, ShapesOK
<1>2. Orderly' <=> Orderly
  BY DEF Orderly
<1>3. Writing' <=> Writing
  BY DEF Writing
<1>4. Bound \in Nat /\ Bound' \in Nat /\ Bound <= Bound'
  <2>1. Waiting' <=> Waiting
    BY DEF Waiting
  <2> QED
    <3>1. calls \in Nat /\ calls' \in Nat
      BY DEF SInv, ShapesOK
    <3>2. /\ Bound = calls + IF Waiting THEN 0 ELSE 1
          /\ Bound' = calls' + IF Waiting' THEN 0 ELSE 1
      BY Zenon DEF Bound
    <3>3. PICK c \in {0, 1} : Bound = calls + c /\ Bound' = calls' + c
      BY <2>1, <3>2, Zenon
    <3> QED
      BY <3>1, <3>3, MoreCalls, Zenon
<1>5. ASSUME NEW x, Shape(x), Small(x, Bound) PROVE Small(x, Bound')
  BY <1>4, <1>5, ShapeSmallMore
<1>6. ASSUME Orderly PROVE Saved'
  <2>1. Saved /\ \A o \in Objects : Shape(obj[o])
    BY <1>6 DEF SInv, ShapesOK
  <2>2. ~Writing' => FileGood'
    <3>1. SUFFICES ASSUME ~Writing PROVE Sound(file) /\ Small(Decoded(file), Bound')
      BY <1>3 DEF FileGood
    <3>2. Sound(file) /\ Small(Decoded(file), Bound) /\ file \in Seq(Nat)
      BY <2>1, <3>1 DEF Saved, FileGood, SInv, ShapesOK
    <3> QED
      BY <1>4, <3>2, FileSmallMore
  <2>3. ASSUME NEW o \in Objects, Current(o)', ~Writing'
        PROVE  Covers(obj[o], file) /\ Small(obj[o], Bound')
    <3>1. Current(o) /\ ~Writing
      BY <1>3, <2>3 DEF Current
    <3>2. Covers(obj[o], file) /\ Small(obj[o], Bound) /\ Shape(obj[o])
      BY <2>1, <3>1 DEF Saved
    <3> QED
      BY <1>5, <3>2
  <2>4. ASSUME NEW o \in Objects, obj[o].pc = "write"
        PROVE  Stage(obj[o], file) /\ Small(obj[o], Bound')
    <3>1. Stage(obj[o], file) /\ Small(obj[o], Bound) /\ Shape(obj[o])
      BY <2>1, <2>4 DEF Saved
    <3> QED
      BY <1>5, <3>1
  <2> QED
    BY <2>1, <2>2, <2>3, <2>4 DEF Saved
<1> QED
  BY <1>1, <1>2, <1>6 DEF SInv

(* A death in the middle of a write is the end of the order. *)
LEMMA SavedRestart ==
    ASSUME IInv, SInv, Restart
    PROVE  SInv'
<1>1. /\ obj' = [o \in Objects |-> NoDict] /\ UNCHANGED <<file, calls>>
      /\ hist' = [hist EXCEPT !.torn = @ \/ \E o \in Objects : obj[o].pc \in {"write", "fill"}]
  BY Zenon DEF Restart
<1>2. /\ hist'.version = hist.version /\ hist'.base = hist.base /\ hist'.alone = hist.alone
      /\ "torn" \in DOMAIN hist' /\ hist'.torn \in BOOLEAN
      /\ ~hist'.torn => ~hist.torn /\ ~Writing
  <2>1. PICK b \in BOOLEAN : b <=> \E o \in Objects : obj[o].pc \in {"write", "fill"}
    OBVIOUS
  <2>2. {"version", "base", "alone", "torn"} \subseteq DOMAIN hist /\ hist.torn \in BOOLEAN
    BY DEF IInv, FieldsOK, SInv, ShapesOK
  <2>3. /\ hist'.version = hist.version /\ hist'.base = hist.base /\ hist'.alone = hist.alone
        /\ DOMAIN hist' = DOMAIN hist
    BY <1>1, <2>2
  <2>4. hist'.torn = (hist.torn \/ \E o \in Objects : obj[o].pc \in {"write", "fill"})
    BY <1>1, <2>2, Zenon
  <2>5. Writing => \E o \in Objects : obj[o].pc \in {"write", "fill"}
    BY DEF Writing
  <2>6. hist'.torn \in BOOLEAN
    BY <2>4, Zenon
  <2>7. ~hist'.torn => ~hist.torn /\ ~Writing
    BY <2>4, <2>5, Zenon
  <2> QED
    BY <2>2, <2>3, <2>6, <2>7
<1>3. Shape(NoDict) /\ NoDict.state = NONE /\ NoDict.pc = "idle" /\ NoDict.then = <<>>
  BY NoDictEmpty, EmptyShape
<1> PICK empty : empty = NoDict
  OBVIOUS
<1>4. \A o \in Objects : obj'[o] = empty
  BY <1>1
<1>5. ShapesOK'
  <2>1. obj' \in [Objects -> Dicts] /\ \A o \in Objects : Shape(obj'[o])
    BY <1>1, <1>3, <1>4 DEF Shape
  <2> QED
    BY <1>1, <1>2, <2>1 DEF SInv, ShapesOK
<1>6. ASSUME Orderly' PROVE Saved'
  <2>1. Orderly /\ ~Writing
    BY <1>2, <1>6 DEF Orderly
  <2>2. Sound(file) /\ Small(Decoded(file), Bound) /\ file \in Seq(Nat)
    BY <2>1 DEF SInv, ShapesOK, Saved, FileGood
  <2>3. Bound \in Nat /\ Bound' \in Nat /\ Bound <= Bound'
    <3>1. Len(empty.then) = 0
      BY <1>3
    <3>2. ~Waiting'
      BY <1>4, <3>1 DEF Waiting
    <3> QED
      BY <1>1, <3>2, BoundNat DEF SInv, ShapesOK, Bound
  <2>4. FileGood'
    <3>1. Small(Decoded(file), Bound')
      BY <2>2, <2>3, FileSmallMore
    <3> QED
      BY <1>1, <2>2, <3>1 DEF FileGood
  <2>5. \A o \in Objects : obj'[o].pc \notin {"reset", "fill", "write", "saved"}
    BY <1>3, <1>4
  <2>6. \A o \in Objects : ~Current(o)'
    BY <1>3, <1>4 DEF Current
  <2> QED
    BY <2>4, <2>5, <2>6 DEF Saved
<1> QED
  BY <1>5, <1>6 DEF SInv

(* Every step keeps the invariant. *)
LEMMA SavedNext ==
    ASSUME FileFits, IInv, TInv, SInv, [Next]_vars
    PROVE  SInv'
<1>1. ASSUME NEW o \in Objects, Calls(o) PROVE SInv'
  BY <1>1, SavedOpenClose, SavedSearch, SavedPut, SavedEntry DEF Calls
<1>2. ASSUME NEW o \in Objects, Step(o) PROVE SInv'
  <2>1. CASE Lock(o)
    BY <2>1, SavedLock, SavedStale
  <2>2. CASE Compare(o) \/ Write(o) \/ EndWrite(o) \/ Unlock(o) \/ AfterClose(o)
    BY <2>2, SavedCompare, SavedWrite, SavedEndWrite, SavedUnlock
  <2>3. CASE ValidateFile(o) \/ Reset(o) \/ Fill(o) \/ TryLock(o) \/ Read(o) \/ Stamp(o)
    BY <2>3, SavedValidate, SavedReset, SavedTryLock, SavedRead, SavedStamp
  <2> QED
    BY <1>2, <2>1, <2>2, <2>3 DEF Step
<1>3. CASE Die
  <2>1. UNCHANGED <<file, obj, hist>> /\ calls' = calls + 1 /\ calls < MaxCalls
    BY <1>3 DEF Die, Room
  <2>2. calls' \in 0..MaxCalls /\ calls <= calls'
    BY <2>1, FileAssumption DEF SInv, ShapesOK
  <2> QED
    BY <2>1, <2>2, SavedSame
<1>4. CASE UNCHANGED vars
  <2>1. UNCHANGED <<file, obj, hist>> /\ calls' = calls
    BY <1>4 DEF vars
  <2>2. calls' \in 0..MaxCalls /\ calls <= calls'
    BY <2>1, FileAssumption DEF SInv, ShapesOK
  <2> QED
    BY <2>1, <2>2, SavedSame
<1> QED
  BY <1>1, <1>2, <1>3, <1>4, SavedRestart DEF Next

-----------------------------------------------------------------------------
(* The file of the session before. *)

(* A unit of a list is the first or the second of a number. *)
LEMMA Halves ==
    ASSUME NEW n \in Nat, NEW i \in 1..(2 * n)
    PROVE  \E k \in 1..n : i = 2 * k - 1 \/ i = 2 * k
<1>1. CASE i % 2 = 1
  <2>1. (i + 1) \div 2 \in 1..n /\ i = 2 * ((i + 1) \div 2) - 1
    BY <1>1
  <2> QED
    BY <2>1
<1>2. CASE i % 2 = 0
  <2>1. i \div 2 \in 1..n /\ i = 2 * (i \div 2)
    BY <1>2
  <2> QED
    BY <2>1
<1> QED
  BY <1>1, <1>2

(* Two lists in a row are written one behind the other. *)
LEMMA WrittenJoined ==
    ASSUME NEW s \in Seq(Num), NEW t \in Seq(Num), NEW f, NEW at \in Nat,
           Has(f, at, Written(s \o t))
    PROVE  Has(f, at, Written(s)) /\ Has(f, at + 2 * Len(s), Written(t))
<1> PICK m \in Nat, n \in Nat : m = Len(s) /\ n = Len(t)
  OBVIOUS
<1> DEFINE st == s \o t
<1>1. /\ st \in Seq(Num) /\ Len(st) = m + n
      /\ \A i \in 1..(m + n) : st[i] = IF i <= m THEN s[i] ELSE t[i - m]
  BY ConcatProperties
<1>2. /\ Len(Written(s)) = 2 * m
      /\ \A k \in 1..m : Written(s)[2 * k - 1] = s[k][1] /\ Written(s)[2 * k] = s[k][2]
  BY WrittenIs
<1>3. /\ Len(Written(t)) = 2 * n
      /\ \A k \in 1..n : Written(t)[2 * k - 1] = t[k][1] /\ Written(t)[2 * k] = t[k][2]
  BY WrittenIs
<1> HIDE DEF st
<1>4. /\ Len(Written(st)) = 2 * (m + n)
      /\ \A k \in 1..(m + n) : Written(st)[2 * k - 1] = st[k][1] /\ Written(st)[2 * k] = st[k][2]
  BY <1>1, WrittenIs
<1>5. /\ at + 2 * (m + n) <= Len(f)
      /\ \A i \in 1..(2 * (m + n)) : f[at + i] = Written(st)[i]
  BY <1>4 DEF Has, st
<1>6. ASSUME NEW i \in 1..(2 * m) PROVE f[at + i] = Written(s)[i]
  <2>1. PICK k \in 1..m : i = 2 * k - 1 \/ i = 2 * k
    BY Halves
  <2>2. k \in 1..(m + n) /\ i \in 1..(2 * (m + n))
    OBVIOUS
  <2>3. Written(st)[2 * k - 1] = s[k][1] /\ Written(st)[2 * k] = s[k][2]
    BY <1>1, <1>4, <2>2
  <2>4. Written(s)[2 * k - 1] = s[k][1] /\ Written(s)[2 * k] = s[k][2]
    BY <1>2
  <2> QED
    BY <1>5, <2>1, <2>2, <2>3, <2>4
<1>7. ASSUME NEW i \in 1..(2 * n) PROVE f[at + 2 * m + i] = Written(t)[i]
  <2>1. PICK k \in 1..n : i = 2 * k - 1 \/ i = 2 * k
    BY Halves
  <2> PICK j \in 1..(m + n), l \in 1..(2 * (m + n)) : j = m + k /\ l = 2 * m + i
    OBVIOUS
  <2>2. st[j] = t[k]
    BY <1>1
  <2>3. Written(st)[2 * j - 1] = t[k][1] /\ Written(st)[2 * j] = t[k][2]
    BY <1>4, <2>2
  <2>4. Written(t)[2 * k - 1] = t[k][1] /\ Written(t)[2 * k] = t[k][2]
    BY <1>3
  <2>5. at + 2 * m + i = at + l /\ (i = 2 * k - 1 => l = 2 * j - 1) /\ (i = 2 * k => l = 2 * j)
    OBVIOUS
  <2>6. f[at + l] = Written(st)[l]
    BY <1>5
  <2> QED
    BY <2>1, <2>3, <2>4, <2>5, <2>6
<1>8. at + 2 * m <= Len(f) /\ at + 2 * m + 2 * n <= Len(f)
  BY <1>5
<1> QED
  BY <1>2, <1>3, <1>6, <1>7, <1>8 DEF Has

(* What is in the file is there in its parts. *)
LEMMA HasJoined ==
    ASSUME NEW a \in Seq(Nat), NEW b \in Seq(Nat), NEW f, NEW at \in Nat, Has(f, at, a \o b),
           Len(f) \in Nat
    PROVE  Has(f, at, a) /\ Has(f, at + Len(a), b)
<1> PICK m \in Nat, n \in Nat : m = Len(a) /\ n = Len(b)
  OBVIOUS
<1>1. /\ Len(a \o b) = m + n
      /\ \A i \in 1..(m + n) : (a \o b)[i] = IF i <= m THEN a[i] ELSE b[i - m]
  BY ConcatProperties
<1> DEFINE ab == a \o b
<1>2. /\ at + (m + n) <= Len(f) /\ \A i \in 1..(m + n) : f[at + i] = ab[i]
  BY <1>1 DEF Has
<1>3. \A i \in 1..(m + n) : ab[i] = IF i <= m THEN a[i] ELSE b[i - m]
  BY <1>1
<1> HIDE DEF ab
<1>4. ASSUME NEW i \in 1..m PROVE f[at + i] = a[i]
  <2>1. i \in 1..(m + n) /\ i <= m
    OBVIOUS
  <2> QED
    BY <1>2, <1>3, <2>1
<1>5. ASSUME NEW i \in 1..n PROVE f[at + m + i] = b[i]
  <2> PICK j \in 1..(m + n) : j = m + i
    OBVIOUS
  <2>1. ab[j] = b[i]
    <3>1. ~(j <= m) /\ j - m = i
      OBVIOUS
    <3> QED
      BY <1>3, <3>1, Zenon
  <2>2. f[at + j] = ab[j]
    BY <1>2, Zenon
  <2>3. at + m + i = at + j
    OBVIOUS
  <2> QED
    BY <2>1, <2>2, <2>3, Zenon
<1>6. at + m <= Len(f) /\ at + m + n <= Len(f)
  BY <1>2
<1> QED
  BY <1>4, <1>5, <1>6 DEF Has

(* The length of two lists in a row. *)
LEMMA JoinedLength ==
    ASSUME NEW S, NEW s \in Seq(S), NEW t \in Seq(S)
    PROVE  s \o t \in Seq(S) /\ Len(s \o t) = Len(s) + Len(t)
BY ConcatProperties

(* Where the lists are in a file that was written in one go. *)
Layout(f, V, B, O, P, S, Y, I) ==
    /\ f \in Seq(Nat)
    /\ Len(f) = Len(V) + Len(B) + 2 * (Len(O) + Len(P) + Len(S) + Len(Y) + Len(I))
    /\ Has(f, 0, V) /\ Has(f, Len(V), B)
    /\ Has(f, Len(V) + Len(B), Written(O))
    /\ Has(f, Len(V) + Len(B) + 2 * Len(O), Written(P))
    /\ Has(f, Len(V) + Len(B) + 2 * (Len(O) + Len(P)), Written(S))
    /\ Has(f, Len(V) + Len(B) + 2 * (Len(O) + Len(P) + Len(S)), Written(Y))
    /\ Has(f, Len(V) + Len(B) + 2 * (Len(O) + Len(P) + Len(S) + Len(Y)), Written(I))

(* ... as FileBefore puts them. *)
LEMMA LaidOut ==
    ASSUME NEW V \in Seq(Nat), NEW B \in Seq(Nat), NEW O \in Seq(Num), NEW P \in Seq(Num),
           NEW S \in Seq(Num), NEW Y \in Seq(Num), NEW I \in Seq(Num)
    PROVE  Layout(V \o B \o Written(O \o P \o S \o Y \o I), V, B, O, P, S, Y, I)
<1> PICK f : f = V \o B \o Written(O \o P \o S \o Y \o I)
  OBVIOUS
<1> DEFINE VB == V \o B
           OP == O \o P
           OS == OP \o S
           OY == OS \o Y
           OI == OY \o I
           W  == Written(OI)
<1>1. VB \in Seq(Nat) /\ Len(VB) = Len(V) + Len(B)
  BY JoinedLength
<1>2. OP \in Seq(Num) /\ Len(OP) = Len(O) + Len(P)
  BY JoinedLength
<1> HIDE DEF OP
<1>3. OS \in Seq(Num) /\ Len(OS) = Len(OP) + Len(S)
  BY <1>2, JoinedLength
<1> HIDE DEF OS
<1>4. OY \in Seq(Num) /\ Len(OY) = Len(OS) + Len(Y)
  BY <1>3, JoinedLength
<1> HIDE DEF OY
<1>5. OI \in Seq(Num) /\ Len(OI) = Len(OY) + Len(I)
  BY <1>4, JoinedLength
<1> HIDE DEF OI
<1>6. W \in Seq(Nat) /\ Len(W) = 2 * Len(OI)
  BY <1>5, WrittenIs
<1> HIDE DEF W
<1>7. f = VB \o W
  BY Zenon DEF W, OI, OY, OS, OP
<1> HIDE DEF VB
<1>8. VB \o W \in Seq(Nat) /\ Len(VB \o W) = Len(VB) + Len(W)
  BY <1>1, <1>6, JoinedLength
<1> PICK at \in Nat : at = Len(VB)
  BY <1>1
<1>9. Len(f) \in Nat /\ f \in Seq(Nat) /\ Len(f) = at + Len(W)
  BY <1>7, <1>8
<1>10. Has(f, 0, VB) /\ Has(f, at, W)
  <2>1. Has(f, 0, f)
    BY <1>9 DEF Has
  <2>2. Has(f, 0, VB \o W) /\ 0 \in Nat
    BY <1>7, <2>1
  <2>3. Has(f, 0, VB) /\ Has(f, 0 + Len(VB), W)
    BY <1>1, <1>6, <1>9, <2>2, HasJoined
  <2>4. 0 + Len(VB) = at
    OBVIOUS
  <2> QED
    BY <2>3, <2>4, Zenon
<1>11. Has(f, 0, V) /\ Has(f, Len(V), B)
  <2>1. Has(f, 0, V \o B) /\ 0 \in Nat
    BY <1>10 DEF VB
  <2>2. Has(f, 0, V) /\ Has(f, 0 + Len(V), B)
    BY <1>9, <2>1, HasJoined
  <2>3. 0 + Len(V) = Len(V)
    OBVIOUS
  <2> QED
    BY <2>2, <2>3, Zenon
<1>12. Has(f, at, Written(OY)) /\ Has(f, at + 2 * Len(OY), Written(I))
  <2>1. Has(f, at, Written(OY \o I))
    BY <1>10, Zenon DEF W, OI
  <2> QED
    BY <1>4, <2>1, WrittenJoined
<1>13. Has(f, at, Written(OS)) /\ Has(f, at + 2 * Len(OS), Written(Y))
  <2>1. Has(f, at, Written(OS \o Y))
    BY <1>12, Zenon DEF OY
  <2> QED
    BY <1>3, <2>1, WrittenJoined
<1>14. Has(f, at, Written(OP)) /\ Has(f, at + 2 * Len(OP), Written(S))
  <2>1. Has(f, at, Written(OP \o S))
    BY <1>13, Zenon DEF OS
  <2> QED
    BY <1>2, <2>1, WrittenJoined
<1>15. Has(f, at, Written(O)) /\ Has(f, at + 2 * Len(O), Written(P))
  <2>1. Has(f, at, Written(O \o P))
    BY <1>14, Zenon DEF OP
  <2> QED
    BY <2>1, WrittenJoined
<1>16. at = Len(V) + Len(B)
  BY <1>1
<1>17. /\ Len(OP) = Len(O) + Len(P) /\ Len(OS) = Len(O) + Len(P) + Len(S)
       /\ Len(OY) = Len(O) + Len(P) + Len(S) + Len(Y)
       /\ Len(OI) = Len(O) + Len(P) + Len(S) + Len(Y) + Len(I)
  BY <1>2, <1>3, <1>4, <1>5, Zenon
<1>18. Len(f) = at + 2 * Len(OI)
  BY <1>6, <1>9
<1>19. Layout(f, V, B, O, P, S, Y, I)
  BY <1>9, <1>11, <1>12, <1>13, <1>14, <1>15, <1>16, <1>17, <1>18, Zenon DEF Layout
<1> QED
  BY <1>19, Zenon

(* Where the segments of an object are whose lemmas are all new. *)
AllNew(o, b, n, y) ==
    /\ Pos(o, 0) = 0 /\ Pos(o, 1) = 2 /\ Pos(o, 2) = 2
    /\ 2 + b = Pos(o, 3) /\ 2 + b + 2 * n = Pos(o, 4) /\ 2 + b + 2 * (n + n) = Pos(o, 5)
    /\ 2 + b + 2 * (n + n + n) = Pos(o, 6) /\ 2 + b + 2 * (n + n + n + y) = Pos(o, 7)
    /\ 2 + b + 2 * (n + n + n + y + 9) = Pos(o, 8)

(* No unit of the block was in the file. *)
LEMMA AllNewIs ==
    ASSUME NEW o, NEW b \in Nat, NEW n \in Nat, NEW y \in Nat,
           Len(o.block) = b, Len(o.offs) = n, Len(o.syncs) = y, KeptUnits(o) = 0
    PROVE  AllNew(o, b, n, y)
<1>1. /\ Pos(o, 0) = 0 /\ Pos(o, 1) = 2 /\ Pos(o, 2) = 2 + 0 /\ Pos(o, 3) = 2 + b
      /\ Pos(o, 4) = 2 + b + 2 * n /\ Pos(o, 5) = 2 + b + 4 * n
      /\ Pos(o, 6) = 2 + b + 6 * n /\ Pos(o, 7) = 2 + b + 6 * n + 2 * y
      /\ Pos(o, 8) = 2 + b + 6 * n + 2 * y + 18
  BY Positions
<1>2. /\ 2 + 0 = 2
      /\ 2 + b + 2 * (n + n) = 2 + b + 4 * n /\ 2 + b + 2 * (n + n + n) = 2 + b + 6 * n
      /\ 2 + b + 2 * (n + n + n + y) = 2 + b + 6 * n + 2 * y
      /\ 2 + b + 2 * (n + n + n + y + 9) = 2 + b + 6 * n + 2 * y + 18
  OBVIOUS
<1> QED
  BY <1>1, <1>2, Zenon DEF AllNew

(* A file that was written in one go has all of the object. *)
LEMMA WholeFile ==
    ASSUME NEW o, Shape(o), o.state # NONE, KeptUnits(o) = 0, NEW f,
           f = Version \o o.block \o Written(o.offs \o o.preds \o o.scores \o o.syncs \o InfoOf(o))
    PROVE  f \in Seq(Nat) /\ Len(f) = Pos(o, 8) /\ HasUpTo(f, o, 8)
<1>1. /\ o.block \in Seq(Nat) /\ o.offs \in Seq(Num) /\ o.preds \in Seq(Num)
      /\ o.scores \in Seq(Num) /\ o.syncs \in Seq(Num)
      /\ Len(o.preds) = Len(o.offs) /\ Len(o.scores) = Len(o.offs)
  BY DEF Shape, Dicts
<1>2. InfoOf(o) \in Seq(Num) /\ Len(InfoOf(o)) = 9
  BY InfoIs
<1>3. Version \in Seq(Nat) /\ Len(Version) = 2
  BY DEF Version
<1>4. Layout(f, Version, o.block, o.offs, o.preds, o.scores, o.syncs, InfoOf(o))
  BY <1>1, <1>2, <1>3, LaidOut, Zenon
<1>5. PICK b \in Nat, n \in Nat, y \in Nat :
         /\ Len(Version) = 2 /\ Len(o.block) = b /\ Len(o.offs) = n /\ Len(o.preds) = n
         /\ Len(o.scores) = n /\ Len(o.syncs) = y /\ Len(InfoOf(o)) = 9
  BY <1>1, <1>2, <1>3
<1>7. AllNew(o, b, n, y)
  BY <1>5, AllNewIs, Zenon
<1>8. /\ f \in Seq(Nat) /\ Len(f) = Pos(o, 8)
      /\ Has(f, 0, Version) /\ Has(f, 2, o.block)
      /\ Has(f, Pos(o, 3), Written(o.offs)) /\ Has(f, Pos(o, 4), Written(o.preds))
      /\ Has(f, Pos(o, 5), Written(o.scores)) /\ Has(f, Pos(o, 6), Written(o.syncs))
      /\ Has(f, Pos(o, 7), Written(InfoOf(o)))
  BY <1>4, <1>5, <1>7, Zenon DEF Layout, AllNew
<1>10. Has(f, 2, KeptPart(o)) /\ Has(f, 2, NewPart(o))
  <2>1. KeptUnits(o) \in 0..Len(o.block) /\ o.block \in Seq(Nat)
    BY <1>1
  <2>2. /\ Len(KeptPart(o)) = KeptUnits(o)
        /\ Len(NewPart(o)) = Len(o.block) - KeptUnits(o)
        /\ \A j \in 1..(Len(o.block) - KeptUnits(o)) : NewPart(o)[j] = o.block[KeptUnits(o) + j]
    BY <2>1, PartsIs, Zenon
  <2>3. Len(KeptPart(o)) = 0 /\ Len(NewPart(o)) = b /\ \A j \in 1..b : NewPart(o)[j] = o.block[j]
    <3>1. KeptUnits(o) = 0 /\ b - 0 = b /\ \A j \in 1..b : 0 + j = j
      OBVIOUS
    <3> QED
      BY <1>5, <2>2, <3>1, Zenon
  <2>4. 2 + b <= Len(f) /\ Len(f) \in Nat /\ \A j \in 1..b : f[2 + j] = o.block[j]
    <3>1. Has(f, 2, o.block) /\ f \in Seq(Nat)
      BY <1>8, Zenon
    <3>2. \A g \in Seq(Nat) : Len(g) \in Nat
      OBVIOUS
    <3> QED
      BY <1>5, <3>1, <3>2, Zenon DEF Has
  <2>5. 2 + 0 <= Len(f)
    <3>1. \A i \in Nat, m \in Nat : 2 + i <= m => 2 + 0 <= m
      OBVIOUS
    <3> QED
      BY <2>4, <3>1, Zenon
  <2>6. Has(f, 2, KeptPart(o))
    <3>1. \A j \in 1..0 : f[2 + j] = KeptPart(o)[j]
      OBVIOUS
    <3> QED
      BY <2>3, <2>5, <3>1, Zenon DEF Has
  <2>7. Has(f, 2, NewPart(o))
    <3>1. \A j \in 1..b : f[2 + j] = NewPart(o)[j]
      BY <2>3, <2>4, Zenon
    <3> QED
      BY <2>3, <2>4, <3>1, Zenon DEF Has
  <2> QED
    BY <2>6, <2>7
<1>11. Pos(o, 0) = 0 /\ Pos(o, 1) = 2 /\ Pos(o, 2) = 2
  BY <1>7, Zenon DEF AllNew
<1>12. /\ Has(f, Pos(o, 0), Seg(o, 0)) /\ Has(f, Pos(o, 1), Seg(o, 1))
       /\ Has(f, Pos(o, 2), Seg(o, 2)) /\ Has(f, Pos(o, 3), Seg(o, 3))
       /\ Has(f, Pos(o, 4), Seg(o, 4)) /\ Has(f, Pos(o, 5), Seg(o, 5))
       /\ Has(f, Pos(o, 6), Seg(o, 6)) /\ Has(f, Pos(o, 7), Seg(o, 7))
  BY <1>8, <1>10, <1>11, SegmentsAre, Zenon
<1>13. HasUpTo(f, o, 8)
  <2>1. ASSUME NEW i \in 0..7 PROVE Has(f, Pos(o, i), Seg(o, i))
    BY <1>12
  <2> QED
    BY <2>1 DEF HasUpTo
<1> QED
  BY <1>8, <1>13

(* What a put that appends makes of the lists. *)
Appended(o, w, off, x) ==
    /\ x.block = o.block \o w /\ x.offs = Append(o.offs, off)
    /\ x.preds = Append(o.preds, off) /\ x.scores = Append(o.scores, <<1, 0>>)
    /\ x.syncs = Append(o.syncs, off) /\ x.room = o.room - Len(w)
    /\ x.ratio = o.ratio /\ x.limit = o.limit /\ x.freed = o.freed

(* These are the fields of Append1. *)
LEMMA AppendFields ==
    ASSUME NEW o \in Dicts, NEW w, NEW x, x = Append1(o, w),
           NEW off, off = Pair(2 * Len(o.block))
    PROVE  Appended(o, w, off, x)
<1> PICK block, offs, preds, scores, syncs, left, room, state :
        /\ block = o.block \o w /\ offs = Append(o.offs, off) /\ preds = Append(o.preds, off)
        /\ scores = Append(o.scores, <<1, 0>>) /\ syncs = Append(o.syncs, off)
        /\ left = o.left - 1 /\ room = o.room - Len(w) /\ state = Dirty(o, LEMMA_DIRTY)
  OBVIOUS
<1>1. x = [o EXCEPT !.block = block, !.offs = offs, !.preds = preds, !.scores = scores,
                    !.syncs = syncs, !.left = left, !.room = room, !.state = state]
  <2>1. x = [o EXCEPT !.block = o.block \o w, !.offs = Append(o.offs, off),
                      !.preds = Append(o.preds, off), !.scores = Append(o.scores, <<1, 0>>),
                      !.syncs = Append(o.syncs, off), !.left = o.left - 1,
                      !.room = o.room - Len(w), !.state = Dirty(o, LEMMA_DIRTY)]
    BY DEF Append1, Dicts
  <2> QED
    BY <2>1, Zenon
<1>2. /\ x.block = block /\ x.offs = offs /\ x.preds = preds /\ x.scores = scores
      /\ x.syncs = syncs /\ x.room = room
      /\ x.ratio = o.ratio /\ x.limit = o.limit /\ x.freed = o.freed
  BY <1>1 DEF Dicts
<1> QED
  BY <1>2, Zenon DEF Appended

(* An object that is told apart by its level only gets the same data. *)
LEMMA AppendSame ==
    ASSUME NEW o \in Dicts, NEW q \in Dicts, SameData(o, q), NEW w,
           NEW x, x = Append1(o, w), NEW z, z = Append1(q, w)
    PROVE  SameData(z, x)
<1>1. PICK off : off = Pair(2 * Len(o.block)) /\ off = Pair(2 * Len(q.block))
  BY Zenon DEF SameData
<1>2. Appended(o, w, off, x) /\ Appended(q, w, off, z)
  BY <1>1, AppendFields
<1> QED
  BY <1>2, Zenon DEF SameData, Appended

(* The session before has put one lemma into an empty dictionary. *)
LEMMA FirstObject ==
    ASSUME FileFits
    PROVE  \E x : /\ Shape(x) /\ x.state # NONE /\ Small(x, 1) /\ Fits(x) /\ KeptUnits(x) = 0
                  /\ FileBefore = Version \o x.block \o
                                  Written(x.offs \o x.preds \o x.scores \o x.syncs \o InfoOf(x))
<1> DEFINE w == CHOOSE w \in Lemmas : TRUE
<1>1. w \in Lemmas
  BY FileAssumption
<1> HIDE DEF w
<1>r. PICK r \in Nat, p \in Nat : r = PreAlloc * Average /\ p = PreAlloc
  BY RoomInt, FileAssumption
<1>y. PICK y : y = NoDict
  OBVIOUS
<1>2. /\ y \in Dicts /\ y.offs = <<>> /\ y.preds = <<>> /\ y.scores = <<>> /\ y.syncs = <<>>
      /\ y.block = <<>> /\ y.freed = 0 /\ y.pc = "idle" /\ y.then = <<>> /\ y.state = NONE
  <2>1. y \in Dicts
    BY <1>y, NoDictEmpty DEF Emptied
  <2> QED
    BY <1>y, <2>1, Zenon DEF NoDict
<1>3. PICK o : o = [y EXCEPT !.room = r, !.left = p]
  OBVIOUS
<1>4. /\ o \in Dicts /\ o.offs = y.offs /\ o.preds = y.preds /\ o.scores = y.scores
      /\ o.syncs = y.syncs /\ o.block = y.block /\ o.freed = y.freed /\ o.pc = y.pc
      /\ o.then = y.then /\ o.state = y.state /\ o.room = r
  <2>1. y \in Dicts
    BY <1>2
  <2>2. r \in Int /\ p \in Int
    OBVIOUS
  <2>3. o \in Dicts
    BY <2>1, <2>2, <1>3 DEF Dicts
  <2>4. o.room = r
    BY <2>1, <1>3 DEF Dicts
  <2>5. /\ o.offs = y.offs /\ o.preds = y.preds /\ o.scores = y.scores
        /\ o.syncs = y.syncs /\ o.block = y.block /\ o.freed = y.freed /\ o.pc = y.pc
        /\ o.then = y.then /\ o.state = y.state
    BY <2>1, <1>3 DEF Dicts
  <2> QED
    BY <2>3, <2>4, <2>5, Zenon
<1>5. PICK x : x = Append1(o, w)
  OBVIOUS
<1>6. FileBefore = Version \o x.block \o
                     Written(x.offs \o x.preds \o x.scores \o x.syncs \o InfoOf(x))
  BY <1>y, <1>r, <1>3, <1>5, Zenon DEF FileBefore, w
<1>7. PICK q : q = [o EXCEPT !.state = SYNC]
  OBVIOUS
<1>8. q \in Dicts /\ q.state = SYNC /\ q.pc = o.pc /\ q.then = o.then /\ SameData(o, q)
  <2>1. o \in Dicts /\ SYNC \in 0..5
    BY <1>4 DEF SYNC
  <2> QED
    BY <2>1, <1>7 DEF Dicts, SameData
<1>9. KeptUnits(q) = 0
  <2>1. PICK all \in Nat : all = PreAlloc * Average
    BY RoomInt
  <2>2. q.room = all
    BY <1>r, <1>4, <1>8, <2>1, Zenon DEF SameData
  <2>3. q.block = <<>>
    BY <1>2, <1>4, <1>8, Zenon DEF SameData
  <2>4. KeptUnits(q) = Len(q.block) - (all - q.room)
    BY <2>1, Zenon DEF KeptUnits
  <2>5. Len(q.block) = 0
    BY <2>3
  <2> QED
    BY <2>2, <2>4, <2>5
<1>10. /\ Len(q.offs) = 0 /\ Len(q.preds) = 0 /\ Len(q.scores) = 0 /\ Len(q.syncs) = 0
       /\ Len(q.block) = 0 /\ q.freed = 0
  <2>1. /\ q.offs = <<>> /\ q.preds = <<>> /\ q.scores = <<>> /\ q.syncs = <<>>
        /\ q.block = <<>> /\ q.freed = 0
    BY <1>2, <1>4, <1>8, Zenon DEF SameData
  <2> QED
    BY <2>1
<1>11. Shape(q) /\ q.state # NONE /\ q.pc \notin {"lock", "write"}
  <2>1. q.then = <<>> /\ q.pc = "idle"
    BY <1>2, <1>4, <1>8, Zenon
  <2>2. q.pc \notin {"lock", "write"}
    BY <2>1
  <2>3. /\ Len(q.preds) = Len(q.offs) /\ Len(q.scores) = Len(q.offs)
        /\ KeptUnits(q) \in 0..Len(q.block) /\ KeptUnits(q) = Len(q.block)
    BY <1>9, <1>10
  <2>4. q.state # NONE
    BY <1>8 DEF SYNC, NONE
  <2> QED
    BY <1>8, <2>1, <2>2, <2>3, <2>4, Zenon DEF Shape
<1>12. Small(q, 0)
  <2>1. 0 * Average = 0
    BY AverageNat
  <2> QED
    BY <1>10, <2>1 DEF Small
<1>13. PICK z : z = Append1(q, w)
  OBVIOUS
<1>14. /\ Shape(z) /\ z.state # NONE /\ \A n \in Nat : Small(q, n) => Small(z, n + 1)
  BY <1>1, <1>11, <1>13, AppendKeeps
<1>15. Small(z, 1)
  <2>1. 0 \in Nat /\ 0 + 1 = 1
    OBVIOUS
  <2> QED
    BY <1>12, <1>14, <2>1, Zenon
<1>16. Fits(z)
  <2>1. 1 \in Nat /\ 1 <= MaxCalls + 1
    BY FileAssumption
  <2> QED
    BY <1>14, <1>15, <2>1, FitsSmall
<1>17. KeptUnits(z) = 0
  <2>1. PICK all \in Nat : all = PreAlloc * Average
    BY RoomInt
  <2>2. w \in Seq(Nat) /\ Len(w) \in Nat
    BY <1>1, LemmaIs
  <2>3. z.block = q.block \o w /\ z.room = q.room - Len(w) /\ q.block \in Seq(Nat) /\ q.room \in Int
    <3>1. z.block = q.block \o w /\ z.room = q.room - Len(w)
      BY <1>8, <1>13, AppendFields DEF Appended
    <3>2. q.block \in Seq(Nat) /\ q.room \in Int
      BY <1>8 DEF Dicts
    <3> QED
      BY <3>1, <3>2
  <2>4. Len(z.block) = Len(q.block) + Len(w)
    BY <2>2, <2>3, JoinedLength, Zenon
  <2>5. KeptUnits(z) = Len(z.block) - (all - z.room) /\ KeptUnits(q) = Len(q.block) - (all - q.room)
    BY <2>1, Zenon DEF KeptUnits
  <2>6. Len(q.block) \in Nat
    BY <2>3
  <2> QED
    BY <1>9, <2>2, <2>3, <2>4, <2>5, <2>6
<1>18. SameData(z, x) /\ InfoOf(z) = InfoOf(x)
  <2>1. SameData(z, x)
    BY <1>4, <1>5, <1>8, <1>13, AppendSame, Zenon
  <2> QED
    BY <2>1, SameSegments, Zenon
<1>19. FileBefore = Version \o z.block \o
                     Written(z.offs \o z.preds \o z.scores \o z.syncs \o InfoOf(z))
  BY <1>6, <1>18, Zenon DEF SameData
<1> QED
  BY <1>14, <1>15, <1>16, <1>17, <1>19, Zenon

(* What each object has loaded before the first call. *)
LEMMA FirstLoaded ==
    ASSUME FileFits
    PROVE  /\ FileBefore \in Seq(Nat) /\ Sound(FileBefore) /\ Small(Decoded(FileBefore), 1)
           /\ \E x : /\ x = [Loaded(NoDict, FileBefore) EXCEPT !.time = 1]
                     /\ Shape(x) /\ x.pc = "idle" /\ x.then = <<>>
                     /\ Covers(x, FileBefore) /\ Small(x, 1)
<1>1. PICK z : /\ Shape(z) /\ z.state # NONE /\ Small(z, 1) /\ Fits(z) /\ KeptUnits(z) = 0
               /\ FileBefore = Version \o z.block \o
                               Written(z.offs \o z.preds \o z.scores \o z.syncs \o InfoOf(z))
  BY FirstObject, Zenon
<1>2. PICK f : f = FileBefore
  OBVIOUS
<1>3. f \in Seq(Nat) /\ Len(f) = Pos(z, 8) /\ HasUpTo(f, z, 8)
  BY <1>1, <1>2, WholeFile, Zenon
<1>4. Sound(f) /\ Decoded(f) = Memory(z)
  BY <1>1, <1>3, ReadBack, Zenon
<1>5. Small(Decoded(f), 1)
  BY <1>1, <1>4, SmallMemory, Zenon
<1>6. PICK none : none = NoDict
  OBVIOUS
<1>7. Shape(none) /\ none.pc = "idle" /\ none.then = <<>> /\ none.pc \notin {"lock", "write"}
  <2>1. Emptied(none) /\ none.pc = "idle" /\ none.then = <<>>
    BY <1>6, NoDictEmpty
  <2>2. none.pc \notin {"lock", "write"}
    BY <2>1
  <2> QED
    BY <2>1, <2>2, EmptyShape
<1>8. Loadable(f) /\ Validate(f)
  BY <1>4 DEF Sound
<1>9. PICK y : y = Loaded(none, f)
  OBVIOUS
<1>10. /\ Shape(y) /\ y.state = SYNC
       /\ Memory(y) = Decoded(f) /\ HasUpTo(f, y, 7)
  BY <1>3, <1>4, <1>7, <1>8, <1>9, LoadedIs
<1>11. y.pc = none.pc /\ y.then = none.then
  <2>1. none \in Dicts
    BY <1>7 DEF Shape
  <2> QED
    BY <2>1, <1>9 DEF Loaded, Dicts
<1>12. Covers(y, f)
  BY <1>10 DEF Covers, FirstWritten, SYNC, SYNC_DIRTY, SCORE_DIRTY, OFFSET_DIRTY, LEMMA_DIRTY
<1>13. Small(y, 1)
  BY <1>5, <1>10, SmallMemory, Zenon
<1>14. PICK x : x = [y EXCEPT !.time = 1]
  OBVIOUS
<1>15. /\ x \in Dicts /\ x.pc = y.pc /\ x.then = y.then /\ x.state = y.state /\ SameData(x, y)
  <2>1. y \in Dicts
    BY <1>10 DEF Shape
  <2>2. x \in Dicts
    BY <1>14, <2>1 DEF Dicts
  <2>3. x.pc = y.pc /\ x.then = y.then /\ x.state = y.state
    BY <1>14, <2>1 DEF Dicts
  <2>4. SameData(x, y)
    BY <1>14, <2>1 DEF Dicts, SameData
  <2> QED
    BY <2>2, <2>3, <2>4
<1>16. x.pc = "idle" /\ x.then = <<>>
  BY <1>7, <1>11, <1>15, Zenon
<1>17. Shape(x) /\ Covers(x, f) /\ Small(x, 1)
  <2>1. x.pc \notin {"lock", "write"}
    BY <1>16
  <2>2. /\ x.pc \in {"idle", "compare"} => x.then = <<>>
        /\ x.pc \in {"lock", "write"} => y.state \in 2..5
    BY <1>16, <2>1, Zenon
  <2>3. /\ Shape(x) /\ \A g : Covers(y, g) => Covers(x, g) /\ \A n : Small(y, n) => Small(x, n)
    BY <1>10, <1>15, <2>2, MovedKeeps
  <2> QED
    BY <1>12, <1>13, <2>3
<1> QED
  BY <1>2, <1>3, <1>4, <1>5, <1>6, <1>9, <1>14, <1>16, <1>17, Zenon

(* The session begins as the file of the one before says. *)
LEMMA SavedInit ==
    ASSUME FileFits, Init
    PROVE  SInv
<1>1. PICK x : /\ x = [Loaded(NoDict, FileBefore) EXCEPT !.time = 1]
               /\ Shape(x) /\ x.pc = "idle" /\ x.then = <<>>
               /\ Covers(x, FileBefore) /\ Small(x, 1)
  BY FirstLoaded, Zenon
<1>2. /\ file = FileBefore /\ obj = [o \in Objects |-> x] /\ calls = 0 /\ hist = HistInit
  BY <1>1, Zenon DEF Init
<1>3. \A o \in Objects : obj[o] = x
  BY <1>2
<1>4. file \in Seq(Nat) /\ Sound(file) /\ Small(Decoded(file), 1) /\ Covers(x, file)
  BY <1>1, <1>2, FirstLoaded, Zenon
<1>5. /\ Shape(x) /\ x.pc = "idle" /\ x.then = <<>> /\ Small(x, 1) /\ x \in Dicts
  BY <1>1, Zenon DEF Shape
<1>6. /\ "torn" \in DOMAIN hist /\ hist.torn = FALSE
      /\ \A o \in Objects : hist.base[o] <= hist.version
  BY <1>2 DEF HistInit
<1>7. Bound = 1
  <2>1. Len(x.then) = 0
    BY <1>5
  <2>2. ~Waiting
    BY <1>3, <2>1 DEF Waiting
  <2> QED
    BY <1>2, <2>2 DEF Bound
<1>8. ShapesOK
  <2>1. calls \in 0..MaxCalls
    BY <1>2, FileAssumption
  <2>2. obj \in [Objects -> Dicts] /\ \A o \in Objects : Shape(obj[o])
    BY <1>2, <1>3, <1>5
  <2>3. hist.torn \in BOOLEAN
    BY <1>6
  <2> QED
    BY <1>4, <1>6, <2>1, <2>2, <2>3 DEF ShapesOK
<1>9. Saved
  <2>1. x.pc \notin {"reset", "fill", "write", "saved"}
    BY <1>5
  <2>2. FileGood
    BY <1>4, <1>7 DEF FileGood
  <2>3. Covers(x, file) /\ Small(x, Bound)
    BY <1>4, <1>5, <1>7
  <2> QED
    BY <1>3, <2>1, <2>2, <2>3 DEF Saved
<1> QED
  BY <1>8, <1>9 DEF SInv

(* While calls do not overlap, whatever part of the file the dirty level let
   close_dict leave alone, the file after its last write is valid and says
   what the object had in memory.  FileFits keeps the numbers of the file below
   those that the model does not tell apart. *)
THEOREM SavedCorrect == ASSUME FileFits PROVE Spec => []SavedIsMemory
<1>1. SInv => SavedIsMemory
  BY DEF SInv, Saved, SavedIsMemory
<1>2. Init => SInv
  BY SavedInit
<1>3. IInv /\ TInv /\ SInv /\ [Next]_vars => SInv'
  BY SavedNext
<1> QED
  BY <1>1, <1>2, <1>3, Invariance, TimesAgree, PTL DEF Spec
=============================================================================
