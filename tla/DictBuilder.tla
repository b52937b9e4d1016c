---------------------------- MODULE DictBuilder ----------------------------
(***************************************************************************)
(* The dictionary builder (share/dictbuilder.cpp) and the dictionary it    *)
(* leaves: build_dict reads the raw file line by line, numbers the lemmas  *)
(* by their Hanzi, makes the lists, sorts by spelling, and builds the trie *)
(* by a recursion whose stack is explicit here, one node a step; load_dict *)
(* adds the quick index.  Then the decoder extends and resets mile stones. *)
(*                                                                         *)
(* A file is its lines and the list of valid Hanzi read beside it.  A line *)
(* is [hz, freq, gbk, spl, ok]: Hanzi, frequency, GBK mark, ids of the     *)
(* spellings, and whether a supported one per Hanzi was all that followed. *)
(* The spelling table and its trie are SpellingTrie's.  A sort is any      *)
(* order that its comparison allows: qsort promises no more.               *)
(***************************************************************************)
EXTENDS DictTrie

CONSTANTS
    Files,       \* raw dictionaries: [lines, valid: the Hanzi of the list, {} if none]
    MaxHzs,      \* the longest word that is read: 4
    MinFreq,     \* the frequency below which a longer word is left out: 60
    TopNum,      \* kTopScoreLemmaNum
    MaxStones    \* bound of the model on mile stones

VARIABLES
    b,       \* the builder: [phase, file, valid, arr, stack]
    t,       \* the dictionary: [le0, ge1, buf, index, list, top]
    m,       \* the mile stones
    found,   \* the lemmas the last extend_dict found
    paths    \* history: the ids each mile stone was extended by, and the last ones

vars == <<b, t, m, found, paths>>

(* read_raw_dict: the lines that are kept. *)
Kept(line, valid) ==
    /\ Len(line.hz) <= MaxHzs
    /\ Len(line.hz) > 1 => line.freq >= MinFreq
    /\ IF valid = {} THEN line.gbk = 0 ELSE Range(line.hz) \subseteq valid
    /\ line.ok

(* Every spelling of the table begins a lemma, and the lengths leave no gap,
   as in the file that is shipped; see the README for what happens else. *)
ASSUME FilesAssumption == \A f \in Files :
    LET lines == {l \in Range(f.lines) : Kept(l, f.valid)}
    IN  /\ \A s \in FullIds : \E l \in lines : l.spl = <<s>>
        /\ \A l \in lines : \A n \in 1..Len(l.hz) : \E k \in lines : Len(k.hz) = n

Blank == [spl |-> 0, son |-> 0, nson |-> 0, homo |-> 0, nhomo |-> 0]

Init ==
    /\ \E f \in Files :
          b = [phase |-> "read", file |-> f.lines, valid |-> f.valid, arr |-> <<>>, stack |-> <<>>]
    /\ t = [le0 |-> <<>>, ge1 |-> <<>>, buf |-> <<>>, index |-> <<>>, list |-> <<>>, top |-> <<>>]
    /\ m = NoStones /\ found = <<>> /\ paths = [stones |-> <<>>, last |-> <<>>]

-----------------------------------------------------------------------------
(* Sorting: the orders of arr in which no pair of positions in less is the
   wrong way round.  Lines that are alike keep their number. *)
Orders(arr, less) ==
    LET of[U \in SUBSET DOMAIN arr] ==
            IF U = {} THEN {<<>>}
            ELSE UNION {{<<arr[x]>> \o rest : rest \in of[U \ {x}]} :
                          x \in {x \in U : \A y \in U : <<y, x>> \notin less}}
    IN  of[DOMAIN arr]

(* utf16_strcmp: a string that ends first is smaller. *)
StrLess(s, u) ==
    LET n == IF Len(s) < Len(u) THEN Len(s) ELSE Len(u)
        c == CmpHanzis(SubSeq(s, 1, n), SubSeq(u, 1, n))
    IN  c < 0 \/ (c = 0 /\ Len(s) < Len(u))

(* cmp_lemma_entry_hzs *)
ByHzs(x, y) == Len(x.hz) < Len(y.hz) \/ (Len(x.hz) = Len(y.hz) /\ StrLess(x.hz, y.hz))

(* compare_py *)
ByPy(x, y) == StrLess(x.spl, y.spl) \/ (x.spl = y.spl /\ x.freq > y.freq)

(* The two sorts of the lemma array. *)
HzsPairs(arr) == {p \in (DOMAIN arr) \X (DOMAIN arr) : ByHzs(arr[p[1]], arr[p[2]])}
PyPairs(arr)  == {p \in (DOMAIN arr) \X (DOMAIN arr) : ByPy(arr[p[1]], arr[p[2]])}

-----------------------------------------------------------------------------
(* The lists. *)

(* build_scis: each Hanzi with each of its spellings, behind a blank. *)
Scis(arr) ==
    LET pairs == UNION {{[hz |-> l.hz[k], half |-> F2h[l.spl[k]], full |-> l.spl[k]] :
                            k \in DOMAIN l.hz} : l \in Range(arr)}
        less(x, y) == \/ x.hz < y.hz
                      \/ x.hz = y.hz /\ x.half < y.half
                      \/ x.hz = y.hz /\ x.half = y.half /\ x.full < y.full
    IN  <<[hz |-> 0, half |-> 0, full |-> 0]>> \o SetToSortSeq(pairs, less)

(* calculate_size: start_pos_ and start_id_. *)
NextSize(s, len) ==
    IF len = s.last THEN [s EXCEPT !.size = @ + len, !.num = @ + 1]
    ELSE [last |-> len, size |-> s.size + len, num |-> s.num + 1,
          pos |-> [i \in 0..MaxLemma |-> IF i = len - 1 THEN s.size
                      ELSE IF i \in s.last..len - 2 THEN s.pos[s.last - 1] ELSE s.pos[i]],
          id  |-> [i \in 0..MaxLemma |-> IF i = len - 1 THEN s.num + 1
                      ELSE IF i \in s.last..len - 2 THEN s.id[s.last - 1] ELSE s.id[i]]]

CalculateSize(arr) ==
    LET zero == [i \in 0..MaxLemma |-> 0]
        s == FoldLeft(LAMBDA x, l : NextSize(x, Len(l.hz)),
                      [last |-> 1, size |-> 1, num |-> 1, pos |-> zero, id |-> [zero EXCEPT ![0] = 1]],
                      Tail(arr))
    IN  [pos |-> [i \in 0..MaxLemma |-> IF i >= s.last THEN s.size ELSE s.pos[i]],
         id  |-> [i \in 0..MaxLemma |-> IF i >= s.last THEN s.num ELSE s.id[i]]]

ListOf(arr) ==
    LET starts == CalculateSize(arr)
    IN  [pos |-> starts.pos, id |-> starts.id, scis |-> Scis(arr),
         buf |-> FlattenSeq([k \in DOMAIN arr |-> arr[k].hz])]

(* get_top_lemmas *)
InsertTop(top, l) ==
    IF top # <<>> /\ l.freq > Last(top).freq
    THEN LET at == CHOOSE k \in DOMAIN top : top[k].freq <= l.freq
                                    /\ \A j \in 1..k - 1 : top[j].freq > l.freq
         IN  Upto(InsertAt(top, at, l), TopNum)
    ELSE Upto(Append(top, l), TopNum)

TopLemmas(arr) == FoldLeft(InsertTop, <<>>, arr)

-----------------------------------------------------------------------------
(* construct_subset: a frame is the part of the array that shares the
   spellings before `level`, counted from 0 as the levels of the code. *)

(* The run of equal spellings that begins at k, up to `to`. *)
RunEnd(arr, k, to, level) ==
    CHOOSE e \in k + 1..to + 1 :
        /\ \A j \in k..e - 1 : arr[j].spl[level + 1] = arr[k].spl[level + 1]
        /\ e = to + 1 \/ arr[e].spl[level + 1] # arr[k].spl[level + 1]

SonNum(arr, from, to, level) ==
    1 + Cardinality({j \in from + 1..to : arr[j].spl[level + 1] # arr[j - 1].spl[level + 1]})

Blanks(n) == [k \in 1..n |-> Blank]

(* Room for all the sons in one piece, and their place in the parent. *)
Parent(d, level, off, son, n) ==
    IF level <= 1 THEN [d EXCEPT !.le0[off + 1].son = son, !.le0[off + 1].nson = n]
                  ELSE [d EXCEPT !.ge1[off + 1].son = son, !.ge1[off + 1].nson = n]

Allocated(d, level, off, n) ==
    IF level = 0
    THEN [Parent(d, level, off, Len(d.le0), n) EXCEPT !.le0 = @ \o Blanks(n)]
    ELSE [Parent(d, level, off, Len(d.ge1), n) EXCEPT !.ge1 = @ \o Blanks(n)]

Frame(d, level, from, to) ==
    [level |-> level, from |-> from, to |-> to, son |-> IF level = 0 THEN Len(d.le0) ELSE Len(d.ge1)]

SetNode(d, level, off, node) ==
    IF level = 0 THEN [d EXCEPT !.le0[off + 1] = node] ELSE [d EXCEPT !.ge1[off + 1] = node]

(* The lemmas that end at the node: they come first in their run. *)
HomoNum(arr, from, end, level) ==
    Cardinality({j \in from..end - 1 : Len(arr[j].spl) = level + 1})

(* One son of the frame on top of the stack; the recursion goes first into
   what is below it. *)
ConstructSon(frame) ==
    LET arr == b.arr
        end == RunEnd(arr, frame.from, frame.to, frame.level)
        n   == HomoNum(arr, frame.from, end, frame.level)
        node == [Blank EXCEPT !.spl = arr[frame.from].spl[frame.level + 1],
                              !.homo = Len(t.buf), !.nhomo = n]
        d   == [SetNode(t, frame.level, frame.son, node)
                  EXCEPT !.buf = @ \o [k \in 1..n |-> arr[frame.from + k - 1].id]]
        rest == Append(Front(b.stack), [frame EXCEPT !.from = end, !.son = @ + 1])
        down == frame.level + 1
    IN  IF end - frame.from > n
        THEN /\ b' = [b EXCEPT !.stack = Append(rest, Frame(d, down, frame.from + n, end - 1))]
             /\ t' = Allocated(d, down, frame.son, SonNum(arr, frame.from + n, end - 1, down))
        ELSE b' = [b EXCEPT !.stack = rest] /\ t' = d

-----------------------------------------------------------------------------
(* build_dict and load_dict. *)
UnchangedSearch == UNCHANGED <<m, found, paths>>

ReadLine ==
    /\ b.phase = "read" /\ b.file # <<>>
    /\ b' = [b EXCEPT !.file = Tail(@),
                      !.arr = IF Kept(Head(b.file), b.valid) THEN Append(@, Head(b.file)) ELSE @]
    /\ UNCHANGED t /\ UnchangedSearch

(* sort_lemmas_by_hz numbers the lemmas; build_scis and init_list. *)
SortByHz ==
    /\ b.phase = "read" /\ b.file = <<>>
    /\ \E s \in Orders(b.arr, HzsPairs(b.arr)) :
          LET arr == [k \in DOMAIN s |-> [hz |-> s[k].hz, spl |-> s[k].spl, freq |-> s[k].freq, id |-> k]]
          IN  /\ b' = [b EXCEPT !.phase = "listed", !.arr = arr]
              /\ t' = [t EXCEPT !.list = ListOf(arr)]
    /\ UnchangedSearch

(* The root, and room for its sons. *)
SortByPy ==
    /\ b.phase = "listed"
    /\ \E arr \in Orders(b.arr, PyPairs(b.arr)) :
          LET d == [t EXCEPT !.le0 = <<Blank>>, !.top = TopLemmas(arr)]
          IN  /\ b' = [b EXCEPT !.phase = "construct", !.arr = arr,
                                !.stack = <<Frame(d, 0, 1, Len(arr))>>]
              /\ t' = Allocated(d, 0, 0, SonNum(arr, 1, Len(arr), 0))
    /\ UnchangedSearch

ConstructSubset ==
    /\ b.phase = "construct" /\ b.stack # <<>>
    /\ LET frame == Last(b.stack)
       IN  IF frame.from > frame.to
           THEN b' = [b EXCEPT !.stack = Front(@)] /\ UNCHANGED t
           ELSE ConstructSon(frame)
    /\ UnchangedSearch

(* load_dict: the quick index; behind the last node it points past it. *)
NextIndex(x, node, i) ==
    [x EXCEPT !.index = [s \in DOMAIN @ |-> IF s = node.spl THEN i
                            ELSE IF s \in x.last..node.spl - 1 THEN x.pos ELSE @[s]],
              !.last = node.spl, !.pos = i]

QuickIndex(le0) ==
    LET ids == FullStart..FullStart + Cardinality(FullIds)
        x   == FoldLeft(LAMBDA y, i : NextIndex(y, le0[i + 1], i),
                        [index |-> [s \in ids |-> 0], last |-> FullStart, pos |-> 0],
                        [k \in 1..Len(le0) - 1 |-> k])
    IN  [s \in ids |-> IF s > x.last THEN x.pos + 1 ELSE x.index[s]]

LoadDict ==
    /\ b.phase = "construct" /\ b.stack = <<>>
    /\ b' = [b EXCEPT !.phase = "ready"]
    /\ t' = [t EXCEPT !.buf = @ \o [k \in DOMAIN t.top |-> t.top[k].id], !.index = QuickIndex(t.le0)]
    /\ UnchangedSearch

Build == ReadLine \/ SortByHz \/ SortByPy \/ ConstructSubset \/ LoadDict

-----------------------------------------------------------------------------
(* What the decoder does with it. *)

PathOf(h) == IF h = 0 THEN <<>> ELSE paths.stones[h]

Extend(h, id) ==
    /\ b.phase = "ready" /\ Len(m.stones) < MaxStones
    /\ LET r == ExtendDict(t, m, h, Len(PathOf(h)), id)
           path == Append(PathOf(h), id)
       IN  /\ m' = r.m /\ found' = r.lpis
           /\ paths' = [last |-> path,
                        stones |-> IF Len(r.m.stones) > Len(m.stones) THEN Append(paths.stones, path)
                                   ELSE paths.stones]
    /\ UNCHANGED <<b, t>>

Reset(step, h) ==
    /\ b.phase = "ready"
    /\ m' = ResetMilestones(m, step, h)
    /\ paths' = [last |-> <<>>, stones |-> IF step = 0 THEN <<>> ELSE SubSeq(paths.stones, 1, h - 1)]
    /\ found' = <<>>
    /\ UNCHANGED <<b, t>>

SplIds == {id \in 1..FullStart + Cardinality(FullIds) - 1 : Matches(id) # {}}

Use ==
    \/ \E h \in 0..Len(m.stones), id \in SplIds : Extend(h, id)
    \/ Reset(0, 1)
    \/ \E h \in 1..Len(m.stones) : Reset(1, h)

Next == Build \/ Use

Spec == Init /\ [][Next]_vars

-----------------------------------------------------------------------------
(* Properties. *)

Ready == b.phase = "ready"

(* The first state after the build; the dictionary does not change later. *)
Built == Ready /\ m = NoStones /\ paths.last = <<>>

Strings(n) == UNION {[1..k -> SplIds] : k \in 1..n}

(* The lemmas of a string of ids, by the raw dictionary. *)
OfSpelling(ids) ==
    {l \in Range(b.arr) : /\ Len(l.spl) = Len(ids)
                          /\ \A k \in DOMAIN ids : l.spl[k] \in Matches(ids[k])
                          /\ Len(ids) = 1 => l.spl[1] \in Matches(FullOfYunmu(ids[1]))}

(* get_lpis finds each lemma of a string of full and half ids once, as many
   as there is room for, and of one spelling the most frequent ones first. *)
LookupExact ==
    Built => \A ids \in Strings(3) :
        LET all  == OfSpelling(ids)
            lpis == GetLpis(t, ids)
            freq(k) == CHOOSE l \in all : l.id = lpis[k]
        IN  /\ Range(lpis) \subseteq {l.id : l \in all}
            /\ Len(lpis) = (IF Cardinality(all) < LpiMax THEN Cardinality(all) ELSE LpiMax)
            /\ Cardinality(Range(lpis)) = Len(lpis)
            /\ \A j, k \in DOMAIN lpis :
                  j < k /\ freq(j).spl = freq(k).spl => freq(j).freq >= freq(k).freq

(* The two searches agree: a mile stone stands for the nodes that the walk
   for its ids reaches, and extending finds what get_lpis finds; giving back
   later mile stones does not disturb the earlier ones. *)
ExtendAgrees ==
    Ready => /\ \A h \in DOMAIN m.stones :
                   StoneNodes(t, m, h, Len(paths.stones[h])) = Walk(t, paths.stones[h])
             /\ paths.last # <<>> => found = GetLpis(t, paths.last)

(* From an id through the Hanzi back to the spellings: the right ones of a
   Hanzi with several, whether nothing, half ids or full ids are given.  The
   last lemma has no string (get_lemma_str takes the last id for the end). *)
SplidsOfLemma ==
    Built => \A l \in Range(b.arr) : l.id < Len(b.arr) =>
        /\ GetLemmaStr(t.list, l.id) = l.hz
        /\ GetLemmaSplids(t, l.id, <<>>) = l.spl
        /\ \A given \in [DOMAIN l.spl -> SplIds] :
              (\A k \in DOMAIN given : l.spl[k] \in Matches(given[k]))
              => GetLemmaSplids(t, l.id, given) = l.spl

(* What is offered without letters.  Prediction goes on from some Hanzi with
   exactly the words that begin with them; a string leads to the id of a lemma
   with that string, unless it is the first Hanzi of the list, for which an
   assertion of get_lemma_id fails; and predict_top_lmas offers the most
   frequent lemmas in order, without the last lemma, which has no string. *)
PredictionsRight ==
    Built =>
        LET all  == Range(b.arr)
            top  == PredictTopLmas(t, TopNum)
            lemma(id) == CHOOSE l \in all : l.id = id
        IN  /\ \A j, k \in DOMAIN top : j < k => /\ top[j] # top[k]
                                              /\ lemma(top[j]).freq >= lemma(top[k]).freq
            /\ \A l \in all :
                  /\ l.id \in Range(top) =>
                        Cardinality({k \in all : k.freq > l.freq}) < TopNum /\ l.id < Len(b.arr)
                  /\ Cardinality({k \in all : k.freq >= l.freq}) <= TopNum /\ l.id < Len(b.arr) =>
                        l.id \in Range(top)
            /\ \A l \in all : l.hz # lemma(1).hz =>
                  \E k \in all : k.hz = l.hz /\ k.id = GetLemmaId(t.list, l.hz)
            /\ \A l \in all : \A i \in 1..Len(l.hz) :
                  LET hzs == SubSeq(l.hz, 1, i)
                  IN  Range(Predict(t.list, hzs, Len(b.arr))) =
                          {SubSeq(w.hz, i + 1, Len(w.hz)) : w \in
                              {w \in all : Len(w.hz) > i /\ SubSeq(w.hz, 1, i) = hzs}}
=============================================================================
