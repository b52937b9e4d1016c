---------------------------- MODULE SearchMatrix ----------------------------
(***************************************************************************)
(* The decoder's data (share/matrixsearch.cpp): the search matrix over the *)
(* typed letters, its two pools, the mile stones of the system dictionary, *)
(* the fixed lemmas and the composing phrase, and how one more letter, the *)
(* segmentation and the candidates are computed.  Pure operators from a    *)
(* MatrixSearch object to the object after; MatrixSearch has the calls.    *)
(*                                                                         *)
(* Row r of the matrix belongs to the first r letters.  A pool is the      *)
(* sequence of its used entries: rewinding cuts it.  A match entry (dmi)   *)
(* carries the spellings it chains back to instead of a pointer; a mile    *)
(* stone is the path it stands for, its handle the position; 0 is NULL.    *)
(* The dictionaries are the fixed lexicon Lex: UserDict and DictTrie have  *)
(* modules of their own.  An assertion that fails ends the process.        *)
(***************************************************************************)
EXTENDS SpellingTrie

CONSTANTS
    Lex,           \* lemma id -> [str, spl, psb, user]
    MaxRow,        \* kMaxRowNum
    MaxNode,       \* kMaxNodeARow
    NodePool,      \* kMtrxNdPoolSize
    MaxLemma,      \* kMaxLemmaSize
    MaxPinyin,     \* kMaxPinyinSize
    MaxSpl,        \* the 9 spellings that search accepts
    MaxMileStone,  \* kMaxMileStone
    Pruming,       \* PRUMING_SCORE
    Junk           \* values an uninitialised mile stone handle may have

Composing == -1    \* kLemmaIdComposing

(* extend_mtrx_nd asks for room for one more row: it always has it. *)
ASSUME MatrixAssumption ==
    /\ 1 + MaxNode * (MaxRow - 2) < NodePool - MaxNode
    /\ \A l \in DOMAIN Lex : Len(Lex[l].str) = Len(Lex[l].spl)
    /\ \A f \in FullIds : \E l \in DOMAIN Lex : ~Lex[l].user /\ Lex[l].spl = <<f>>

-----------------------------------------------------------------------------
(* What the dictionaries answer. *)

HasPath(l, path) ==
    /\ Len(path) <= Len(Lex[l].spl)
    /\ \A k \in DOMAIN path : Lex[l].spl[k] \in Matches(path[k])

Before(x, y) == Lex[x].psb < Lex[y].psb \/ (Lex[x].psb = Lex[y].psb /\ x < y)

ByPsb(S) == [k \in 1..Cardinality(S) |->
               CHOOSE l \in S : Cardinality({x \in S : Before(x, l)}) = k - 1]

(* The lemmas of a path; a lone Yunmu letter only stands for itself. *)
Lpis(path, user) ==
    {l \in DOMAIN Lex :
        /\ Lex[l].user = user /\ Len(Lex[l].spl) = Len(path) /\ HasPath(l, path)
        /\ ~user /\ Len(path) = 1 => Lex[l].spl[1] \in Matches(FullOfYunmu(path[1]))}

HasExtension(path, user) == \E l \in DOMAIN Lex : Lex[l].user = user /\ HasPath(l, path)

-----------------------------------------------------------------------------
(* The state. *)

NoRow == [nd_pos |-> 0, nd_num |-> 0, dmi_pos |-> 0, dmi_num |-> 0, full |-> FALSE, fixed |-> 0]
FirstNode == [id |-> 0, score |-> 0, from |-> 0, step |-> 0, dmi |-> 0]
NoPhrase == [sub |-> <<0>>, chn |-> <<>>, spl |-> <<>>, start |-> <<0>>, length |-> 0]

Fail(s, assertion) == IF s.abort = "" THEN [s EXCEPT !.abort = assertion] ELSE s

Level(s, d) == Len(s.dmis[d].spl)
FixedEnd(s) == s.start[s.hzs + 1]            \* spl_start_[fixed_hzs_]
LemmasEnd(s) == s.start[s.lstart[s.lmas + 1] + 1]

RowNodes(s, r) == [k \in 1..s.rows[r].nd_num |-> s.rows[r].nd_pos + k]
RowDmis(s, r) == [k \in 1..s.rows[r].dmi_num |-> s.rows[r].dmi_pos + k]

ResetSearch0(s) ==
    [s EXCEPT !.dec = 0, !.nodes = <<FirstNode>>, !.dmis = <<>>, !.ms = <<>>,
              !.rows[0] = [NoRow EXCEPT !.nd_num = 1, !.full = TRUE, !.fixed = 1],
              !.hzs = 0, !.lmas = 0]

-----------------------------------------------------------------------------
(* Extending the matrix by one letter. *)

PrepareAddChar(s, c) ==
    [s EXCEPT !.pys[s.dec + 1] = c, !.dec = @ + 1,
              !.rows[s.dec + 1] = [NoRow EXCEPT !.nd_pos = Len(s.nodes),
                                                !.dmi_pos = Len(s.dmis),
                                                !.fixed = s.rows[s.dec + 1].fixed]]

(* DictTrie::extend_dict: a new mile stone, and the lemmas that end there.
   From the root there is a limit; further down nobody looks at it. *)
ExtendSystem(s, d, id) ==
    LET from == IF d = 0 THEN 0 ELSE s.dmis[d].h[1]
        path == IF d = 0 THEN <<id>> ELSE Append(s.ms[from], id)
    IN  IF d # 0 /\ (from = 0 \/ from > Len(s.ms))
        THEN [s |-> IF from = 0 THEN s ELSE Fail(s, "from_handle < mile_stones_pos_"),
              h |-> 0, lpis |-> {}]
        ELSE IF d = 0 /\ Len(s.ms) + 1 >= MaxMileStone
        THEN [s |-> Fail(s, "0 != handles[0]"), h |-> 0, lpis |-> {}]
        ELSE IF ~HasExtension(path, FALSE) THEN [s |-> s, h |-> 0, lpis |-> {}]
        ELSE [s |-> IF Len(s.ms) + 1 >= MaxMileStone THEN Fail(s, "past mile_stones_")
                    ELSE [s EXCEPT !.ms = Append(@, path)],
              h |-> Len(s.ms) + 1, lpis |-> Lpis(path, FALSE)]

ExtendUser(s, d, path) ==
    IF (d = 0 \/ s.dmis[d].h[2] # 0) /\ HasExtension(path, TRUE)
    THEN [h |-> 1, lpis |-> Lpis(path, TRUE)] ELSE [h |-> 0, lpis |-> {}]

(* fill_dmi behind entry d, or behind the root. *)
Entry(s, d, id, ext, handles, phrase) ==
    [h   |-> handles, c_phrase |-> phrase,
     spl |-> IF d = 0 THEN <<id>> ELSE Append(s.dmis[d].spl, id),
     len |-> IF d = 0 THEN <<ext>> ELSE Append(s.dmis[d].len, Last(s.dmis[d].len) + ext)]

(* What the two dictionaries answered becomes one match entry. *)
EntryOf(sys, user, d, id, ext) ==
    IF sys.h = 0 /\ user.h = 0 THEN [s |-> sys.s, num |-> 0, lpi |-> <<>>]
    ELSE [s   |-> [sys.s EXCEPT !.dmis = Append(@, Entry(sys.s, d, id, ext, <<sys.h, user.h>>, FALSE))],
          num |-> 1, lpi |-> ByPsb(sys.lpis \union user.lpis)]

ExtendDmi(s, d, id, ext) ==
    EntryOf(ExtendSystem(s, d, id),
            ExtendUser(s, d, IF d = 0 THEN <<id>> ELSE Append(s.dmis[d].spl, id)), d, id, ext)

(* extend_dmi_c: only along the composing phrase, whose handles are never set. *)
ExtendDmiC(s, d, id, ext, junk) ==
    LET pos == IF d = 0 THEN 0 ELSE Level(s, d)
    IN  IF pos >= s.phrase.length \/ s.phrase.spl[pos + 1] # id
        THEN [s |-> s, num |-> 0, lpi |-> <<>>]
        ELSE [s   |-> [s EXCEPT !.dmis = Append(@, Entry(s, d, id, ext, <<junk, junk>>, TRUE))],
              num |-> 1, lpi |-> IF pos = s.phrase.length - 1 THEN <<Composing>> ELSE <<>>]

Psb(l) == IF l = Composing THEN 0 ELSE Lex[l].psb

(* A row keeps its MaxNode best nodes, an equal one behind those before it. *)
InsertNode(row, node) ==
    LET at == 1 + Cardinality({k \in DOMAIN row : row[k].score <= node.score})
        longer == SubSeq(row, 1, at - 1) \o <<node>> \o SubSeq(row, at, Len(row))
    IN  SubSeq(longer, 1, IF Len(longer) < MaxNode THEN Len(longer) ELSE MaxNode)

(* The loop ends at the first lemma that is too far behind the row's best. *)
InsertLemma(row, from, score, step, k, l, dmi) ==
    IF k > 1 /\ score + Psb(l) - Pruming > row[1].score THEN row
    ELSE InsertNode(row, [id |-> l, score |-> score + Psb(l), from |-> from,
                          step |-> step, dmi |-> dmi])

ExtendMtrxNd(s, from, lpi, dmi, r) ==
    LET num == IF s.nodes[from].step = 0 /\ Len(lpi) > MaxNode THEN MaxNode ELSE Len(lpi)
        row == SubSeq(s.nodes, s.rows[r].nd_pos + 1, s.rows[r].nd_pos + s.rows[r].nd_num)
        new == FoldLeft(LAMBDA a, k : InsertLemma(a, from, s.nodes[from].score, r, k, lpi[k], dmi),
                        row, [k \in 1..num |-> k])
    IN  [s EXCEPT !.nodes = SubSeq(s.nodes, 1, s.rows[r].nd_pos) \o new,
                  !.rows[r].nd_num = Len(new), !.rows[r].fixed = 0]

(* One source of an extension by the syllable in the last ext letters: match
   entry d of the row before them, or the root (0). *)
SkipSource(s, a, d, ext, phrase) ==
    LET old == s.dec - ext IN
    \/ d # 0 /\ \/ s.hzs > 0 /\ old - Last(s.dmis[d].len) < FixedEnd(s)
                \/ s.dmis[d].c_phrase /\ ~phrase
                \/ Level(s, d) >= IF phrase THEN MaxRow ELSE MaxLemma
    \/ a.longest > ext /\ IF d = 0 THEN ~s.rows[old].full ELSE IsHalfId(Last(s.dmis[d].spl))

(* The nodes before the syllable, each extended by the lemmas of the entry. *)
ExtendNodes(a, t, lpi, from, ext) ==
    IF lpi = <<>> THEN [a EXCEPT !.s = t]
    ELSE [a EXCEPT !.s = FoldLeft(LAMBDA q, n : ExtendMtrxNd(q, n, lpi, Len(t.dmis), t.dec), t, from),
                   !.longest = IF @ = 0 /\ from # <<>> THEN ext ELSE @]

Entered(a, x, d, ext, id) ==
    ExtendNodes(a, [x.s EXCEPT !.rows[a.s.dec].dmi_num = @ + x.num,
                               !.rows[a.s.dec].full = @ \/ (x.num > 0 /\ ~IsHalfId(id))],
                x.lpi, RowNodes(a.s, a.s.dec - ext - IF d = 0 THEN 0 ELSE Last(a.s.dmis[d].len)), ext)

ExtendFrom(a, d, ext, id, phrase, junk) ==
    IF SkipSource(a.s, a, d, ext, phrase) \/ a.s.abort # "" THEN a
    ELSE Entered(a, IF phrase THEN ExtendDmiC(a.s, d, id, ext, junk) ELSE ExtendDmi(a.s, d, id, ext),
                 d, ext, id)

ExtendSyllable(a, spl, ext, phrase, junk) ==
    IF spl.id = 0 THEN [a EXCEPT !.pre = @ \/ spl.pre]
    ELSE FoldLeft(LAMBDA q, d : ExtendFrom(q, d, ext, spl.id, phrase, junk),
                  [a EXCEPT !.pre = @ \/ spl.pre], Append(RowDmis(a.s, a.s.dec - ext), 0))

(* The last ext letters, when they are one syllable behind a boundary. *)
ExtendLength(a, ext, phrase, junk) ==
    LET s   == a.s
        old == s.dec - ext
    IN  IF a.stop \/ old < FixedEnd(s) THEN a
        ELSE IF ext > 1 /\ a.longest # 0 /\ ~s.rows[old].full THEN [a EXCEPT !.stop = TRUE]
        ELSE IF s.rows[old].nd_num = 0 /\ ~phrase THEN a
        ELSE ExtendSyllable(a, SplidByStr(SubSeq(s.pys, old + 1, s.dec)), ext, phrase, junk)

Accepted(a, phrase) == [s |-> a.s, ok |-> phrase \/ a.pre \/ a.s.rows[a.s.dec].nd_num # 0]

AddCharQwerty(s, phrase, junk) ==
    Accepted(FoldLeft(LAMBDA q, k : ExtendLength(q, MaxPinyin + 2 - k, phrase, junk),
                      [s |-> s, longest |-> 0, pre |-> FALSE, stop |-> FALSE],
                      [k \in 1..MaxPinyin + 1 |-> k]), phrase)

(* add_char; the letter is written where the decoded string ends. *)
AddChar(s, c, phrase, junk) ==
    IF s.abort # "" \/ s.dec >= MaxRow - 1 THEN [s |-> s, ok |-> FALSE]
    ELSE AddCharQwerty(PrepareAddChar(s, c), phrase, junk)

(* add_char for the letters from position pos on, until one is refused. *)
Until(x, k) == IF x.ok THEN [s |-> x.s, stop |-> FALSE]
               ELSE [s |-> [x.s EXCEPT !.dec = k - 1], stop |-> TRUE]

AddRest(s, pos, letters, junk) ==
    FoldLeft(LAMBDA a, k : IF a.stop THEN a ELSE Until(AddChar(a.s, letters[k], FALSE, junk), k),
             [s |-> s, stop |-> FALSE],
             [k \in 1..Len(letters) - pos |-> pos + k]).s

(* add_char for the letters between two positions, whatever it returns. *)
AddBetween(s, from, to, phrase, junk) ==
    FoldLeft(LAMBDA q, k : AddChar(q, q.pys[k], phrase, junk).s, s,
             [k \in 1..(IF from < to THEN to - from ELSE 0) |-> from + k])

-----------------------------------------------------------------------------
(* get_spl_start_id: the best path, behind the fixed part. *)

PathNodes(s, n) ==
    LET back[k \in 0..Len(s.nodes)] ==
            IF k <= 1 \/ (s.hzs > 0 /\ s.nodes[k].step <= FixedEnd(s)) THEN <<>>
            ELSE Append(back[s.nodes[k].from], s.nodes[k])
    IN  back[n]

SplEnds(s, node) ==
    LET len == s.dmis[node.dmi].len
    IN  [k \in DOMAIN len |-> node.step - (Last(len) - len[k])]

(* The last position of the path that a lemma was fixed at. *)
LastFixed(s) ==
    LET at == {k \in 1..s.spl_num : s.rows[s.start[k + 1]].fixed # 0}
    IN  IF at = {} THEN 0 ELSE CHOOSE k \in at : \A j \in at : j <= k

FixAtLast(s) == [s EXCEPT !.hzs = LastFixed(s)]

(* The spellings, starts and lemmas of a path, behind the fixed ones. *)
Traced(s, path) ==
    LET spls == FlattenSeq([k \in DOMAIN path |-> s.dmis[path[k].dmi].spl])
        lens == [k \in DOMAIN path |-> Len(s.dmis[path[k].dmi].spl)]
    IN  [s EXCEPT
            !.spl = SubSeq(@, 1, s.hzs) \o spls, !.spl_num = Len(SubSeq(s.spl, 1, s.hzs) \o spls),
            !.start = SubSeq(@, 1, s.hzs + 1) \o FlattenSeq([k \in DOMAIN path |-> SplEnds(s, path[k])]),
            !.lma = SubSeq(@, 1, s.lmas) \o [k \in DOMAIN path |-> path[k].id],
            !.lma_num = s.lmas + Len(path),
            !.lstart = FoldLeft(LAMBDA q, n : Append(q, Last(q) + n), SubSeq(@, 1, s.lmas + 1), lens)]

GetSplStartId(s) ==
    IF s.dec = 0 \/ s.rows[s.dec].nd_num = 0 THEN [s EXCEPT !.spl_num = 0, !.lma_num = 0]
    ELSE FixAtLast(Traced(s, PathNodes(s, s.rows[s.dec].nd_pos + 1)))

-----------------------------------------------------------------------------
(* Candidates. *)

LemmaStr(s, l) == IF l = Composing THEN SubSeq(s.phrase.chn, 1, Last(s.phrase.sub)) ELSE Lex[l].str

(* get_candidate0: the text of the best path. *)
Sentence(s) ==
    LET text[k \in 0..Len(s.nodes)] ==
            IF k <= 1 THEN <<>> ELSE text[s.nodes[k].from] \o LemmaStr(s, s.nodes[k].id)
    IN  IF s.dec = 0 \/ s.rows[s.dec].nd_num = 0 THEN <<>> ELSE text[s.rows[s.dec].nd_pos + 1]

Behind(text, n) == SubSeq(text, n + 1, Len(text))

(* get_lpis sorts by text and drops what is the sentence.  Of one text it keeps
   the last entry that is better than the one before it: an entry is compared
   with its predecessor, not with the one kept.  Entries of one text stay in the
   order they were found in, as a merge sort leaves them. *)
BestOf(found, sentence) ==
    LET Same(l) == {x \in found : Lex[x].str = Lex[l].str}
        Beaten(x) == \E p \in Same(x) : /\ p < x /\ Lex[x].psb >= Lex[p].psb
                                        /\ ~\E y \in Same(x) : p < y /\ y < x
    IN  {l \in found : /\ Lex[l].str # sentence
                       /\ ~Beaten(l)
                       /\ \A x \in Same(l) : x > l => Beaten(x)}

GetLpis(ids, sentence) == BestOf(Lpis(ids, FALSE) \union Lpis(ids, TRUE), sentence)

PrepareCandidates(s) ==
    LET size == IF s.spl_num < s.hzs \/ s.spl_num - s.hzs > MaxLemma THEN MaxLemma
                ELSE s.spl_num - s.hzs
    IN  [s EXCEPT !.cands = UNION {GetLpis(SubSeq(s.spl, s.hzs + 1, s.hzs + n),
                                           IF n = size THEN Behind(Sentence(s), s.hzs) ELSE <<>>) :
                                   n \in 1..size}]

CandidateNum(s) ==
    IF s.dec = 0 \/ s.rows[s.dec].nd_num = 0 THEN 0 ELSE 1 + Cardinality(s.cands)
=============================================================================
