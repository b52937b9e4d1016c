---------------------------- MODULE MatrixSearch ----------------------------
(***************************************************************************)
(* The decoder's calls (share/matrixsearch.cpp): search, delsearch, choose *)
(* and reset_search, as DecodingInfo makes them through the decoder        *)
(* service, over the data of SearchMatrix.                                 *)
(***************************************************************************)
EXTENDS SearchMatrix

CONSTANT MaxTyped  \* PY_STRING_MAX - 1: the letters the input method hands over

ASSUME TypedAssumption == MaxTyped < MaxRow

VARIABLE m         \* the MatrixSearch object, and what the last call did

-----------------------------------------------------------------------------
(* reset_search: back to the first ch letters. *)

RewindKeepsNodes(s, ch, clear_mtrx) ==   \* variant: mtrx_nd_pool_used_ is not set back
    LET next == s.rows[ch + 1]
        h    == IF s.dec > ch /\ next.dmi_num > 0 THEN s.dmis[next.dmi_pos + 1].h[1] ELSE 0
    IN  [s EXCEPT !.ms = IF h \in DOMAIN s.ms THEN SubSeq(@, 1, h - 1) ELSE @, !.dec = ch,
                  !.dmis = SubSeq(@, 1, s.rows[ch].dmi_pos + s.rows[ch].dmi_num),
                  !.rows[ch].nd_num = IF clear_mtrx THEN 0 ELSE @]

RewindThisRow(s, ch, clear_mtrx) ==      \* variant: the mile stones of this row go, too
    LET this == s.rows[ch]
        h    == IF this.dmi_num > 0 THEN s.dmis[this.dmi_pos + 1].h[1] ELSE 0
        last == IF clear_mtrx THEN ch - 1 ELSE ch
    IN  [s EXCEPT !.ms = IF h \in DOMAIN s.ms THEN SubSeq(@, 1, h - 1) ELSE @, !.dec = ch,
                  !.dmis = SubSeq(@, 1, s.rows[ch].dmi_pos + s.rows[ch].dmi_num),
                  !.nodes = SubSeq(@, 1, s.rows[last].nd_pos + s.rows[last].nd_num),
                  !.rows[ch].nd_num = IF clear_mtrx THEN 0 ELSE @]

Rewind(s, ch, clear_mtrx) ==
    LET next == s.rows[ch + 1]
        h    == IF s.dec > ch /\ next.dmi_num > 0 THEN s.dmis[next.dmi_pos + 1].h[1] ELSE 0
        last == IF clear_mtrx THEN ch - 1 ELSE ch
    IN  [s EXCEPT !.ms = IF ch = 0 /\ s.dec > 0 /\ next.dmi_num > 0 THEN <<>>
                         ELSE IF h \in DOMAIN s.ms THEN SubSeq(@, 1, h - 1) ELSE @,
                  !.dec = ch,
                  !.dmis = SubSeq(@, 1, s.rows[ch].dmi_pos + s.rows[ch].dmi_num),
                  !.nodes = SubSeq(@, 1, s.rows[last].nd_pos + s.rows[last].nd_num),
                  !.rows[ch].nd_num = IF clear_mtrx THEN 0 ELSE @]

(* Where an array of starts reaches x; at its end when it never does. *)
FirstAtLeast(starts, x) ==
    LET at == {k \in DOMAIN starts : starts[k] >= x}
    IN  IF at = {} THEN Len(starts) - 1 ELSE (CHOOSE k \in at : \A j \in at : k <= j) - 1

LastFixedRow(s, top) == CHOOSE r \in 0..top : /\ r = 0 \/ s.rows[r].fixed # 0
                                             /\ \A q \in r + 1..top : s.rows[q].fixed = 0

FixedRowNone(s, ch, clear_fix) ==        \* variant: clearing unlocks every lemma
    IF clear_fix THEN 0 ELSE LastFixedRow(s, ch)
FixedRow(s, ch, clear_fix) == LastFixedRow(s, IF clear_fix THEN ch - 1 ELSE ch)

RefixKeepsLemmas(s, ch, clear_fix, clear_mtrx, junk) ==   \* variant: fixed_lmas_ is left alone
    LET row == FixedRow(s, ch, clear_fix)
        t   == [s EXCEPT !.hzs = FirstAtLeast(s.start, row)]
    IN  AddBetween(Rewind(t, row, clear_mtrx /\ ch = row), row, ch, FALSE, junk)

(* The lemmas that stay fixed, and the letters behind them once more. *)
Refixed(s, row, hzs) ==
    LET lmas == FirstAtLeast(s.lstart, hzs)
    IN  IF s.start[hzs + 1] # row THEN Fail(s, "spl_start_[fixed_hzs_] == fixed_ch_pos")
        ELSE IF s.lstart[lmas + 1] # hzs THEN Fail(s, "lma_start_[fixed_lmas_] == fixed_hzs_")
        ELSE [s EXCEPT !.hzs = hzs, !.lmas = lmas]

SearchAgain(s, row, ch, clear_mtrx, junk) ==
    IF s.abort # "" THEN s
    ELSE AddBetween(Rewind(s, row, clear_mtrx /\ ch = row), row, ch, FALSE, junk)

Refix(s, ch, clear_fix, clear_mtrx, junk) ==
    LET row == FixedRow(s, ch, clear_fix)
    IN  SearchAgain(Refixed(s, row, FirstAtLeast(s.start, row)), row, ch, clear_mtrx, junk)

(* The composing phrase is the first and only fixed lemma. *)
FixPhrase(s) ==
    LET row == s.start[s.phrase.length + 1]
    IN  IF s.abort # "" THEN s ELSE
        [s EXCEPT !.lma_num = 1, !.lmas = 1, !.no1 = <<FALSE>>, !.hzs = s.phrase.length,
                  !.lstart = <<0, s.phrase.length>>, !.lma = <<Composing>>,
                  !.rows[row].fixed = s.rows[row].nd_pos + 1]

(* Search the composing phrase alone, then fix it. *)
RedoPhrase(s, len, junk) == FixPhrase(AddBetween(ResetSearch0(s), 0, len, TRUE, junk))

CutPhrase(p, ch) ==
    LET at  == {k \in 1..p.length : p.start[k] <= ch /\ ch < p.start[k + 1]}
        k   == CHOOSE k \in at : TRUE
        sub == SelectSeq(p.sub, LAMBDA x : x < k - 1)
    IN  IF at = {} THEN p
        ELSE [p EXCEPT !.length = k - 1, !.chn = SubSeq(@, 1, k - 1),
                       !.sub = Append(sub, k - 1)]

IsPhrase(s) == s.lma # <<>> /\ s.lma[1] = Composing

RedoCut(s, junk) == RedoPhrase(s, s.start[s.phrase.length + 1], junk)

(* What is fixed, once the matrix is rewound: a phrase up to ch, or lemmas. *)
Unlock(s, ch, clear_fix, clear_mtrx, junk) ==
    IF s.hzs = 0 THEN s
    ELSE IF ~IsPhrase(s) \/ s.start[s.phrase.length + 1] <= ch
    THEN Refix(s, ch, clear_fix, clear_mtrx, junk)
    ELSE RedoCut([s EXCEPT !.phrase = CutPhrase(@, ch)], junk)

ResetSearch(s, ch, clear_fix, clear_mtrx, junk) ==
    IF ch > s.dec THEN s
    ELSE IF ch = 0 THEN ResetSearch0(s)
    ELSE Unlock(Rewind(s, ch, clear_mtrx), ch, clear_fix, clear_mtrx, junk)

-----------------------------------------------------------------------------
(* search. *)

SamePrefix(s, py) ==
    LET apart == {k \in 1..s.dec : k > Len(py) \/ py[k] # s.pys[k]}
    IN  IF apart = {} THEN s.dec ELSE (CHOOSE k \in apart : \A j \in apart : k <= j) - 1

(* Letters are dropped at the end while there are too many spellings. *)
DropLetter(s, len, junk) ==
    GetSplStartId([ResetSearch(s, len, FALSE, FALSE, junk) EXCEPT !.pys = SubSeq(@, 1, len)])

DropLetters(s, junk) ==
    FoldLeft(LAMBDA q, k : IF q.spl_num > MaxSpl THEN DropLetter(q, Len(q.pys) - 1, junk) ELSE q,
             s, s.pys)

Decoded(s, junk) ==
    IF s.abort # "" THEN s ELSE PrepareCandidates(DropLetters(GetSplStartId(s), junk))

Search(s, py, junk) ==
    LET ch == SamePrefix(s, py)
        t  == ResetSearch(s, ch, ch # s.dec, FALSE, junk)
    IN  Decoded(AddRest([t EXCEPT !.pys = py], ch, py, junk), junk)

-----------------------------------------------------------------------------
(* delsearch. *)

DelInPys(s, pos, len) == [s EXCEPT !.pys = SubSeq(@, 1, pos) \o SubSeq(@, pos + len + 1, Len(@))]

(* A phrase from the fixed lemmas, in sub-lemmas. *)
PhraseOf(s) ==
    [sub |-> SubSeq(s.lstart, 1, s.lmas + 1), length |-> s.lstart[s.lmas + 1],
     chn |-> FlattenSeq([k \in 1..s.lmas |-> LemmaStr(s, s.lma[k])])]

(* Deleting spelling pos: the sub-lemmas behind it move up, and one that has
   no spelling left disappears. *)
DropSubLemma(sub, pos) ==
    LET moved == [k \in DOMAIN sub |-> IF sub[k] > pos THEN sub[k] - 1 ELSE sub[k]]
    IN  [k \in 1..Cardinality(Range(moved)) |->
            CHOOSE x \in Range(moved) : Cardinality({y \in Range(moved) : y < x}) = k - 1]

MergeFixedLmasNoShift(s, pos) ==         \* variant: the phrase loses its last character
    LET num   == s.spl_num - 1
        width == s.start[pos + 2] - s.start[pos + 1]
        spl   == [k \in 1..num |-> IF k <= pos THEN s.spl[k] ELSE s.spl[k + 1]]
        start == [k \in 1..num + 1 |-> IF k <= pos THEN s.start[k] ELSE s.start[k + 1] - width]
        from  == IF IsPhrase(s) THEN s.phrase ELSE PhraseOf(s)
    IN  [s EXCEPT !.spl = spl, !.start = start, !.spl_num = num,
                  !.phrase = [spl |-> spl, start |-> start, length |-> from.length - 1,
                              sub |-> DropSubLemma(from.sub, pos),
                              chn |-> SubSeq(from.chn, 1, Len(from.chn) - 1)]]

(* merge_fixed_lmas: what is fixed becomes one phrase without spelling pos. *)
MergeFixedLmas(s, pos) ==
    LET num   == s.spl_num - 1
        width == s.start[pos + 2] - s.start[pos + 1]
        spl   == [k \in 1..num |-> IF k <= pos THEN s.spl[k] ELSE s.spl[k + 1]]
        start == [k \in 1..num + 1 |-> IF k <= pos THEN s.start[k] ELSE s.start[k + 1] - width]
        from  == IF IsPhrase(s) THEN s.phrase ELSE PhraseOf(s)
    IN  IF IsPhrase(s) /\ s.lmas > 1
        THEN Fail(s, "phrase_len == lma_start_[fixed_lmas_]")
        ELSE [s EXCEPT
                !.spl = spl, !.start = start, !.spl_num = num,
                !.phrase = [spl |-> spl, start |-> start, length |-> from.length - 1,
                            sub |-> DropSubLemma(from.sub, pos),
                            chn |-> SubSeq(from.chn, 1, pos) \o
                                    SubSeq(from.chn, pos + 2, Len(from.chn))]]

PhraseEnd(p) == p.start[Last(p.sub) + 1]

(* Search the phrase when it has letters left, else rewind; then the rest. *)
Resumed(s, pos, junk) ==
    IF s.abort # "" THEN s ELSE PrepareCandidates(GetSplStartId(AddRest(s, pos, s.pys, junk)))

ResumeAt(s, phrase_len, pos, clear, junk) ==
    IF s.abort # "" THEN s
    ELSE Resumed(IF phrase_len = 0 THEN ResetSearch(s, pos, clear, FALSE, junk)
                 ELSE IF s.phrase.length = 0 \/ phrase_len # PhraseEnd(s.phrase)
                 THEN Fail(s, "c_py_len == c_phrase_.spl_start[...]")
                 ELSE RedoPhrase(s, phrase_len, junk), pos, junk)

UnlockSubLemma(p) ==
    [p EXCEPT !.sub = SubSeq(@, 1, Len(@) - 1), !.length = p.sub[Len(p.sub) - 1]]

(* The letter behind the fixed part also unlocks the phrase's last sub-lemma
   when the caller asks for it. *)
DelLetter(s, pos, clear, junk) ==
    LET plain == pos # LemmasEnd(s) \/ ~IsPhrase(s) \/ ~clear
        q     == UnlockSubLemma(s.phrase)
        len   == IF plain THEN 0 ELSE s.start[q.length + 1]
    IN  IF s.lmas > 0 /\ pos < LemmasEnd(s) THEN s
        ELSE IF ~plain /\ Len(s.phrase.sub) = 1 THEN Fail(s, "sublma_start[-1]")
        ELSE ResumeAt([DelInPys(s, pos, 1) EXCEPT !.phrase = IF plain THEN @ ELSE q],
                      len, IF plain THEN pos ELSE len, clear, junk)

DelSpelling(s, pos, clear, junk) ==
    LET width == s.start[pos + 2] - s.start[pos + 1]
        fixed == pos < s.lstart[s.lmas + 1]
        len   == IF fixed THEN LemmasEnd(s) - width ELSE 0
        t     == DelInPys(s, s.start[pos + 1], width)
    IN  ResumeAt(IF len > 0 THEN MergeFixedLmas(t, pos) ELSE t,
                 len, IF fixed THEN len ELSE s.start[pos + 1], clear, junk)

DelSearch(s, pos, inspl, clear, junk) ==
    IF s.dec <= pos
    THEN Resumed(DelInPys(s, pos, 1), s.dec, junk)
    ELSE IF inspl THEN (IF s.spl_num <= pos THEN s ELSE DelSpelling(s, pos, clear, junk))
    ELSE DelLetter(s, pos, clear, junk)

-----------------------------------------------------------------------------
(* choose, and what the user dictionary learns from it. *)

(* get_lemma_splids: full ids only; a phrase has no others to offer. *)
LemmaSplids(l, ids) ==
    IF \A k \in DOMAIN ids : ~IsHalfId(ids[k]) THEN ids
    ELSE IF l = Composing THEN <<>> ELSE Lex[l].spl

LemmaIdsTyped(s, k) == SubSeq(s.spl, s.lstart[k] + 1, s.lstart[k + 1])   \* variant: as typed
LemmaIds(s, k) == LemmaSplids(s.lma[k], SubSeq(s.spl, s.lstart[k] + 1, s.lstart[k + 1]))

(* add_lma_to_userdict for lemmas from..to-1: hits up to the first that has
   no full ids, the phrase when all have. *)
AddLmaToUserdict(s, from, to) ==
    LET bad  == {k \in from..to - 1 : LemmaIds(s, k) = <<>>}
        upto == IF bad = {} THEN to - 1 ELSE CHOOSE k \in bad : \A j \in bad : k <= j
        ks   == [k \in 1..to - from |-> from + k - 1]
    IN  IF to - from <= 1 THEN s
        ELSE [s EXCEPT
                !.hit = @ \union {s.lma[k] : k \in {j \in from..upto :
                                       s.lma[j] # Composing /\ Lex[s.lma[j]].user}},
                !.put = IF bad # {} THEN @
                        ELSE Append(@, [str |-> FlattenSeq([k \in DOMAIN ks |-> LemmaStr(s, s.lma[ks[k]])]),
                                        spl |-> FlattenSeq([k \in DOMAIN ks |-> LemmaIds(s, ks[k])])])]

AddIfModified(a, to) == IF a.modified THEN AddLmaToUserdict(a.s, a.from, to) ELSE a.s

(* One fixed lemma: the piece before it is closed when it does not fit any more. *)
AddFixed(a, k) ==
    LET b == IF a.s.lstart[k + 1] - a.s.lstart[a.from] > MaxLemma
             THEN [s |-> AddIfModified(a, k), from |-> k, modified |-> FALSE] ELSE a
    IN  [b EXCEPT !.modified = @ \/ ~b.s.no1[k]]

TryAddCand0(s) ==
    LET a == FoldLeft(AddFixed, [s |-> s, from |-> 1, modified |-> FALSE], [k \in 1..s.lmas |-> k])
    IN  IF s.hzs = 0 \/ CandidateNum(s) # 1 THEN s
        ELSE IF s.lstart[s.lmas + 1] - s.lstart[a.from] > 1 THEN AddIfModified(a, s.lmas + 1)
        ELSE a.s

(* Candidate 0 is the sentence: all of it is fixed. *)
ChooseSentence(s) ==
    LET row == s.start[s.spl_num + 1]
        t   == [s EXCEPT !.hzs = s.spl_num, !.lmas = s.lma_num, !.cands = {},
                         !.rows[row].fixed = s.rows[row].nd_pos + 1,
                         !.no1 = SubSeq(@, 1, s.lmas) \o [k \in 1..s.lma_num - s.lmas |-> TRUE]]
    IN  IF s.lma_num # 1 THEN TryAddCand0(t)
        ELSE IF s.lma[1] # Composing /\ Lex[s.lma[1]].user THEN [t EXCEPT !.hit = @ \union {s.lma[1]}]
        ELSE t

(* match_dmi: compares from the last spelling, up to the level of the entry it
   has walked back to: only half of a long chain. *)
MatchDmi(s, row, ids) ==
    LET Fits(d) == LET n == Len(s.dmis[d].spl) IN
            /\ n = Len(ids) \/ s.rows[row].dmi_num = 1
            /\ \A k \in 0..(n + 1) \div 2 - 1 : ids[Len(ids) - k] = s.dmis[d].spl[n - k]
        all == {d \in Range(RowDmis(s, row)) : Fits(d)}
    IN  IF all = {} THEN 0 ELSE CHOOSE d \in all : \A e \in all : d <= e

Fixed(s, l, to) ==
    [s EXCEPT !.rows[to].fixed = s.rows[to].nd_pos + 1,
              !.no1 = Append(SubSeq(@, 1, s.lmas), l = s.lma[s.lmas + 1]),
              !.lma = Append(SubSeq(@, 1, s.lmas), l),
              !.lstart = Append(SubSeq(@, 1, s.lmas + 1), s.lstart[s.lmas + 1] + Len(Lex[l].spl)),
              !.lmas = @ + 1, !.hzs = @ + Len(Lex[l].spl)]

FixedDmi(s, l, to) == MatchDmi(s, to, SubSeq(s.spl, s.hzs + 1, s.hzs + Len(Lex[l].spl)))

FixAt(s, l, fr, to, dmi) ==
    IF s.abort # "" THEN s
    ELSE IF dmi = 0 THEN Fail(s, "step_to_dmi_fr")
    ELSE IF s.rows[fr].fixed = 0 THEN Fail(s, "NULL != mtrx_nd")
    ELSE Fixed(ExtendMtrxNd(s, s.rows[fr].fixed, <<l>>, dmi, to), l, to)

FixBehind(s, l, fr, to) == FixAt(s, l, fr, to, FixedDmi(s, l, to))

FixLemmaKeepsRow(s, l, to, junk) ==      \* variant: the row keeps its other nodes
    FixBehind(ResetSearch(s, to, FALSE, FALSE, junk), l, FixedEnd(s), to)

(* Fix lemma l behind what is fixed: its row is rewound to one node. *)
FixLemma(s, l, to, junk) ==
    FixBehind([ResetSearch(s, to, FALSE, TRUE, junk) EXCEPT !.rows[to].nd_num = 0],
              l, FixedEnd(s), to)

(* After a lemma is fixed, the n letters decoded before are added again. *)
GoOn(s, n) ==
    IF s.abort # "" \/ s.dec # n THEN Fail(s, "b")
    ELSE IF s.hzs < s.spl_num THEN PrepareCandidates(s)
    ELSE TryAddCand0([s EXCEPT !.cands = {}])

AddBehind(s, to, n, junk) ==
    IF s.abort # "" THEN s ELSE GoOn(AddRest(s, to, SubSeq(s.pys, 1, n), junk), n)

ChooseLemma(s, l, junk) ==
    LET to == s.start[s.hzs + Len(Lex[l].spl) + 1]
    IN  IF s.hzs + Len(Lex[l].spl) > s.spl_num THEN Fail(s, "spl_start_[left over]")
        ELSE AddBehind(FixLemma([s EXCEPT !.hit = IF Lex[l].user THEN @ \union {l} ELSE @],
                                l, to, junk), to, s.dec, junk)

-----------------------------------------------------------------------------
(* The calls of the input method, which asks for the spellings after each. *)

Init ==
    m = ResetSearch0([pys |-> <<>>, dec |-> 0, rows |-> [r \in 0..MaxRow - 1 |-> NoRow],
                      nodes |-> <<>>, dmis |-> <<>>, ms |-> <<>>, cands |-> {},
                      spl |-> <<>>, start |-> <<0>>, spl_num |-> 0, hzs |-> 0,
                      lma |-> <<>>, lstart |-> <<0>>, lma_num |-> 0, lmas |-> 0,
                      no1 |-> <<>>, phrase |-> NoPhrase, abort |-> "",
                      put |-> <<>>, hit |-> {}])

Fresh(s) == [s EXCEPT !.put = <<>>, !.hit = {}]

Respelled(s) == IF s.abort = "" THEN GetSplStartId(s) ELSE s

(* What no call reads again: rows that are not decoded but for their fixed
   node, no1 behind the fixed lemmas, a phrase that is not fixed any more. *)
Settled(s) ==
    IF s.abort # "" THEN s
    ELSE [s EXCEPT !.rows = [r \in DOMAIN @ |-> IF r <= s.dec THEN @[r]
                                               ELSE [NoRow EXCEPT !.fixed = s.rows[r].fixed]],
                   !.no1 = SubSeq(@, 1, IF s.lmas < Len(@) THEN s.lmas ELSE Len(@)),
                   !.phrase = IF IsPhrase(s) THEN @ ELSE NoPhrase]

(* The input method commits once no letter is left behind the fixed part. *)
Chosen(s) == s.hzs > 0 /\ FixedEnd(s) = Len(s.pys)
Editing == m.abort = "" /\ m.pys # <<>> /\ ~Chosen(m)

(* Where the cursor can be: before a fixed spelling or behind the fixed part. *)
CursorAt(pos) == pos >= FixedEnd(m) \/ \E k \in 1..m.hzs : m.start[k] = pos

(* add_spl_char with reset, then search. *)
FirstLetter(c) ==
    /\ m.abort = ""
    /\ m' = Settled(Search(ResetSearch0(Fresh(m)), <<c>>, 0))

InsertLetter(pos, c, junk) ==
    /\ Editing /\ Len(m.pys) < MaxTyped
    /\ CursorAt(pos)
    /\ m' = Settled(Search(Fresh(m), InsertAt(m.pys, pos + 1, c), junk))

(* Deleting with the cursor behind position pos: a spelling of the fixed part
   as a whole, any other letter alone.  Unlocking is asked for in the input
   state, where the cursor is at the end. *)
DeleteBefore(pos, clear, junk) ==
    /\ Editing /\ CursorAt(pos) /\ (clear => pos = Len(m.pys))
    /\ LET spl == {k \in 1..m.hzs : m.start[k] < pos /\ pos <= m.start[k + 1]}
           at  == IF spl # {} THEN (CHOOSE k \in spl : TRUE) - 1 ELSE pos - 1
       IN  m' = Settled(DelSearch(Fresh(m), at, spl # {}, clear, junk))

ChooseFirst ==
    /\ Editing /\ CandidateNum(m) > 0
    /\ m' = Settled(GetSplStartId(ChooseSentence(Fresh(m))))

ChooseOther(l, junk) ==
    /\ Editing /\ l \in m.cands
    /\ m' = Settled(Respelled(ChooseLemma(Fresh(m), l, junk)))

Typing == \E c \in Letters : FirstLetter(c)
Inserting == \E c \in Letters \union {Splitter}, pos \in 0..Len(m.pys), junk \in Junk :
                 InsertLetter(pos, c, junk)
Deleting == \E pos \in 1..Len(m.pys), clear \in BOOLEAN, junk \in Junk : DeleteBefore(pos, clear, junk)
Choosing == ChooseFirst \/ \E l \in m.cands, junk \in Junk : ChooseOther(l, junk)

Next == Typing \/ Inserting \/ Deleting \/ Choosing

Spec == Init /\ [][Next]_m

-----------------------------------------------------------------------------
(* Properties. *)

Alive == m.abort = ""
FixedText == SubSeq(Sentence(m), 1, m.hzs)

(* The spelling a Chinese character has in the lexicon. *)
Reading(h) ==
    CHOOSE id \in FullIds : \E l \in DOMAIN Lex : \E k \in DOMAIN Lex[l].str :
                                Lex[l].str[k] = h /\ Lex[l].spl[k] = id

(* The rows share the two pools out without gap or overlap, at most MaxNode
   nodes each, whatever was rewound, unfixed and searched again before
   (reset_search, add_char). *)
PoolsTight ==
    Alive =>
      /\ \A r \in 0..m.dec : m.rows[r].nd_num <= MaxNode
      /\ \A r \in 1..m.dec :
            /\ m.rows[r].nd_pos = m.rows[r - 1].nd_pos + m.rows[r - 1].nd_num
            /\ m.rows[r].dmi_pos = m.rows[r - 1].dmi_pos + m.rows[r - 1].dmi_num
      /\ Len(m.nodes) = m.rows[m.dec].nd_pos + m.rows[m.dec].nd_num
      /\ Len(m.dmis) = m.rows[m.dec].dmi_pos + m.rows[m.dec].dmi_num

(* What is fixed ends where a lemma ends, at a row whose fixed node the next
   choice can extend: the asserts of reset_search and extend_mtrx_nd. *)
FixedCoversLemmas ==
    Alive => /\ m.lstart[m.lmas + 1] = m.hzs
             /\ m.hzs > 0 => m.rows[FixedEnd(m)].fixed # 0

(* A match entry's handle still leads to the mile stone of its own spellings,
   after mile stones were given back to the dictionary (reset_milestones). *)
HandleNamesPath ==
    Alive => \A d \in DOMAIN m.dmis :
        m.dmis[d].h[1] # 0 /\ ~m.dmis[d].c_phrase =>
            m.dmis[d].h[1] \in DOMAIN m.ms /\ m.ms[m.dmis[d].h[1]] = m.dmis[d].spl

(* Spelling id stands for the letters of pys_ behind `from`; up to `to` there
   are separators alone. *)
Spells(id, from, to) ==
    LET w == SpellingStr(id)
    IN  /\ from + Len(w) <= to
        /\ SubSeq(m.pys, from + 1, from + Len(w)) = w
        /\ \A i \in from + Len(w) + 1..to : m.pys[i] = Splitter

(* The spellings are those of the letters in pys_, each at its start, they cover
   all that is decoded, and every character of the sentence can be read as its
   spelling, also in a composing phrase some characters were deleted from
   (merge_fixed_lmas).  The letters are pys_'s, which the input method takes
   over after every search: that pys_ holds what was typed is not said here. *)
SentenceSpelled ==
    Alive /\ m.spl_num > 0 =>
        LET text == Sentence(m) IN
        /\ \A k \in 1..m.spl_num : Spells(m.spl[k], m.start[k], m.start[k + 1])
        /\ m.start[m.spl_num + 1] = m.dec
        /\ Len(text) = m.spl_num
        /\ \A k \in DOMAIN text : Reading(text[k]) \in Matches(m.spl[k])

(* The user dictionary learns a part of the sentence that was put together,
   with the spelling each character has: no half id, none of another lemma. *)
LearnsSentence ==
    Alive => \A p \in Range(m.put) :
        \E i \in 0..m.spl_num - Len(p.str) :
            /\ SubSeq(Sentence(m), i + 1, i + Len(p.str)) = p.str
            /\ \A k \in DOMAIN p.str : Reading(p.str[k]) = p.spl[k]

LemmasText(s, from) == FlattenSeq([k \in 1..s.lmas - from |-> LemmaStr(s, s.lma[from + k])])

(* A choice leaves what was fixed before it, and the path of nodes that spells
   the sentence goes through the lemmas that lma_id_ names. *)
ChoiceAppends ==
    [][Alive /\ Alive' /\ m'.pys = m.pys /\ m'.hzs > 0 =>
         FixedText' = FixedText \o LemmasText(m', m.lmas)]_m

LastFixedStart == IF IsPhrase(m) THEN m.phrase.sub[Len(m.phrase.sub) - 1] ELSE m.lstart[m.lmas]

EditAtEnd ==
    \E junk \in Junk :
        \/ /\ Len(m'.pys) = Len(m.pys) + 1
           /\ InsertLetter(Len(m.pys), Last(m'.pys), junk)
        \/ /\ Len(m'.pys) < Len(m.pys)
           /\ \E clear \in BOOLEAN : DeleteBefore(Len(m.pys), clear, junk)

(* A letter typed or deleted at the end gives back at most the last lemma
   fixed, or the last sub-lemma of a phrase.  Not when lemmas are fixed behind
   a phrase, which are lost with it, nor when a phrase was emptied before. *)
EditUnlocksOne ==
    [][Alive /\ Alive' /\ m.hzs > 0 /\ (IsPhrase(m) => m.lmas = 1) /\ EditAtEnd =>
         /\ IsPrefix(FixedText', FixedText)
         /\ m'.hzs >= LastFixedStart]_m

-----------------------------------------------------------------------------
(* What the repository says, and the code does not keep. *)

(* matrixsearch.cpp:852, "assert(step_to_dmi_fr != ...)": a candidate chosen
   from the list is found among the match entries.  The list is made with the
   spellings from before the choice. *)
ChosenIsFound == m.abort # "step_to_dmi_fr"

(* matrixsearch.cpp:1249, "assert(phrase_len == lma_start_[fixed_lmas_])": a
   deletion merges the lemmas fixed behind a phrase into it. *)
MergeCounts == m.abort # "phrase_len == lma_start_[fixed_lmas_]"

=============================================================================
