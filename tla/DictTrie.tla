------------------------------ MODULE DictTrie ------------------------------
(***************************************************************************)
(* The system dictionary as it is read (share/dicttrie.cpp, dictlist.cpp): *)
(* the two node arrays of the lemma trie, the buffer of lemma ids, the     *)
(* quick index of the first level, the lists of words and of Hanzi, and    *)
(* the mile stones of searches that go on syllable by syllable.            *)
(*                                                                         *)
(* Pure operators; DictBuilder makes the dictionary and calls them.        *)
(* Offsets count from 0 as in the code, sequences from 1.  A node of the   *)
(* first level (LmaNodeLE0) and one below (LmaNodeGE1) are one record,     *)
(* both have their sons in ge1.  The tables of mile stones have room here: *)
(* their limits are in SearchMatrix.  Scores (ngram.cpp) are left out.     *)
(***************************************************************************)
EXTENDS SpellingTrie

CONSTANTS
    MaxLemma,   \* kMaxLemmaSize
    LpiMax,     \* the room of the caller for lemmas
    MaxExtend   \* MAX_EXTENDBUF_LEN

ASSUME DictAssumption == MaxLemma \in Nat \ {0} /\ LpiMax \in Nat \ {0} /\ MaxExtend \in Nat \ {0}

Upto(seq, n) == SubSeq(seq, 1, IF n < Len(seq) THEN n ELSE Len(seq))

-----------------------------------------------------------------------------
(* DictList: words by length, then by their Hanzi; a word's number is its id. *)

(* bsearch of the C library over 0..n - 1; cmp[k] is the comparison of the key
   with the k-th member. *)
BSearch(n, cmp) ==
    LET from[r \in (0..n) \X (0..n)] ==
            LET mid == (r[1] + r[2]) \div 2
            IN  IF r[1] >= r[2] THEN -1
                ELSE IF cmp[mid] = 0 THEN mid
                ELSE IF cmp[mid] < 0 THEN from[<<r[1], mid>>] ELSE from[<<mid + 1, r[2]>>]
    IN  from[<<0, n>>]

(* cmp_hanzis_n *)
CmpHanzis(s, t) ==
    LET apart == {i \in DOMAIN s : s[i] # t[i]}
    IN  IF apart = {} THEN 0
        ELSE LET i == CHOOSE i \in apart : \A j \in apart : i <= j IN s[i] - t[i]

(* The words of one length, as start_pos_ delimits them. *)
WordNum(list, len) == (list.pos[len] - list.pos[len - 1]) \div len
Word(list, len, k) ==
    SubSeq(list.buf, list.pos[len - 1] + k * len + 1, list.pos[len - 1] + (k + 1) * len)

FindPosNoRewind(list, hzs, len) ==       \* variant: any match will do
    BSearch(WordNum(list, len), [k \in 0..WordNum(list, len) - 1 |-> CmpHanzis(hzs, Word(list, len, k))])

(* find_pos_startedbyhzs: the first word that begins with hzs. *)
FindPos(list, hzs, len) ==
    LET cmp   == [k \in 0..WordNum(list, len) - 1 |-> CmpHanzis(hzs, Word(list, len, k))]
        found == BSearch(WordNum(list, len), cmp)
    IN  IF found = -1 THEN -1
        ELSE CHOOSE k \in 0..found :
                /\ \A j \in k..found : cmp[j] = 0
                /\ k = 0 \/ cmp[k - 1] # 0

(* What get_lemma_id is worth where its assertion `found > buf_` fails. *)
Asserts == -1

(* get_lemma_id.  The first Hanzi of the list is found at buf_ itself. *)
GetLemmaId(list, str) ==
    LET k == FindPos(list, str, Len(str))
    IN  IF k = -1 THEN 0
        ELSE IF list.pos[Len(str) - 1] + k * Len(str) = 0 THEN Asserts
        ELSE list.id[Len(str) - 1] + k

(* predict, with no items found before: for each length the words that go on
   from hzs. *)
PredictLen(list, hzs, len) ==
    LET from == FindPos(list, hzs, len)
        n    == WordNum(list, len)
        goes(k) == CmpHanzis(hzs, Word(list, len, k)) = 0
        to   == CHOOSE k \in from..n : (k = n \/ ~goes(k)) /\ \A j \in from..k - 1 : goes(j)
    IN  IF from = -1 THEN <<>>
        ELSE [k \in 1..to - from |-> SubSeq(Word(list, len, from + k - 1), Len(hzs) + 1, len)]

Predict(list, hzs, max) ==
    Upto(FlattenSeq([k \in 1..MaxLemma - Len(hzs) |-> PredictLen(list, hzs, Len(hzs) + k)]), max)

(* get_lemma_str: <<>> when it fails. *)
GetLemmaStr(list, id) ==
    LET lens == {i \in 1..MaxLemma : list.id[i - 1] <= id /\ list.id[i] > id}
    IN  IF id >= list.id[MaxLemma] \/ lens = {} THEN <<>>
        ELSE LET i == CHOOSE i \in lens : \A j \in lens : i <= j
             IN  Word(list, i, id - list.id[i - 1])

(* get_splids_for_hanzi: those of the half id, else those it is compatible with. *)
GetSplidsForHanzi(list, hz, half) ==
    LET of     == SelectSeq(list.scis, LAMBDA s : s.hz = hz)
        strict == \E k \in DOMAIN of : half = 0 \/ of[k].half = half
        fits(s) == \/ half = 0
                   \/ strict /\ s.half = half
                   \/ ~strict /\ HalfFullCompatible(half, s.full)
        found  == SelectSeq(of, fits)
    IN  [k \in DOMAIN found |-> found[k].full]

-----------------------------------------------------------------------------
(* The trie. *)

Homos(t, node) == [k \in 1..node.nhomo |-> t.buf[node.homo + k]]

First(id) == Min(Matches(id))
LastOf(id) == Max(Matches(id))

(* The first level, by the quick index: offsets in le0. *)
RootSons(t, id) == [k \in 1..t.index[LastOf(id) + 1] - t.index[First(id)] |-> t.index[First(id)] + k - 1]

(* The sons of a node: offsets in ge1. *)
SonOffs(node) == [k \in 1..node.nson |-> node.son + k - 1]

SonsNoBreak(t, node, id) ==              \* variant: one spelling too many
    SelectSeq(SonOffs(node), LAMBDA off : t.ge1[off + 1].spl \in First(id)..LastOf(id) + 1)

(* The sons that an id stands for.  The scan breaks at the
   first son that is not below the last full id. *)
Sons(t, node, id) ==
    LET spl(off) == t.ge1[off + 1].spl
    IN  SelectSeq(SonOffs(node), LAMBDA off : /\ spl(off) \in First(id)..LastOf(id)
                                              /\ \A j \in node.son..off - 1 : spl(j) < LastOf(id))

Le0Nodes(t, offs) == [k \in DOMAIN offs |-> t.le0[offs[k] + 1]]
Ge1Nodes(t, offs) == [k \in DOMAIN offs |-> t.ge1[offs[k] + 1]]
Flat(seq) == FlattenSeq(seq)

(* get_lpis: all the nodes of a string of ids, level by level. *)
Walk(t, ids) ==
    FoldLeft(LAMBDA nodes, id :
                Upto(Flat([k \in DOMAIN nodes |-> Ge1Nodes(t, Sons(t, nodes[k], id))]), MaxExtend),
             Upto(Le0Nodes(t, RootSons(t, Head(ids))), MaxExtend), Tail(ids))

GetLpis(t, ids) ==
    LET nodes == Walk(t, ids)
        used  == IF Len(ids) = 1 /\ IsHalfIdYunmu(ids[1]) THEN Upto(nodes, 1) ELSE nodes
    IN  Upto(Flat([k \in DOMAIN used |-> Homos(t, used[k])]), LpiMax)

PathEnds(t, splids) ==
    FoldLeft(LAMBDA nodes, f :
                Flat([k \in DOMAIN nodes |->
                    Ge1Nodes(t, SelectSeq(SonOffs(nodes[k]), LAMBDA off : t.ge1[off + 1].spl = f))]),
             <<t.le0[t.index[splids[1]] + 1]>>, Tail(splids))

TryExtendAnyLemma(t, splids, id) ==      \* variant: any lemma at the end of the path
    \E k \in DOMAIN PathEnds(t, splids) : PathEnds(t, splids)[k].nhomo > 0

(* try_extend: does the path of full ids lead to this lemma? *)
TryExtend(t, splids, id) ==
    LET ends == PathEnds(t, splids) IN \E k \in DOMAIN ends : id \in Range(Homos(t, ends[k]))

(* get_lemma_splids: the spellings of a lemma.  given = <<>> is arg_valid
   false; else it has full ids that are known and half ids to complete. *)
SplidCands(t, str, given) ==
    [k \in DOMAIN str |->
        IF given # <<>> /\ given[k] \in FullIds THEN <<given[k]>>
        ELSE GetSplidsForHanzi(t.list, str[k], IF given = <<>> THEN 0 ELSE given[k])]

GetLemmaSplids(t, id, given) ==
    LET str   == GetLemmaStr(t.list, id)
        cands == SplidCands(t, str, given)
        radix == [k \in DOMAIN str |-> Len(cands[k])]
        prod(n) == FoldLeft(LAMBDA x, k : x * radix[k], 1, [k \in 1..n |-> k])
        try(n) == [k \in DOMAIN str |-> cands[k][1 + ((n \div prod(k - 1)) % radix[k])]]
        good  == {n \in 0..prod(Len(str)) - 1 : TryExtend(t, try(n), id)}
    IN  IF str = <<>> \/ good = {} THEN <<>>
        ELSE try(CHOOSE n \in good : \A j \in good : n <= j)

(* predict_top_lmas: the ids at the end of the buffer, those without a string
   left out. *)
PredictTopLmas(t, max) ==
    LET ids == SubSeq(t.buf, Len(t.buf) - Len(t.top) + 1, Len(t.buf))
    IN  Upto(SelectSeq(ids, LAMBDA id : GetLemmaStr(t.list, id) # <<>>), max)

-----------------------------------------------------------------------------
(* Mile stones: handle h is m.stones[h], its marks are ranges of nodes. *)

NoStones == [marks |-> <<>>, stones |-> <<>>]

ResetMilestones(m, step, h) ==
    IF step = 0 THEN NoStones
    ELSE IF h > 0 /\ h <= Len(m.stones)
    THEN [stones |-> SubSeq(m.stones, 1, h - 1), marks |-> SubSeq(m.marks, 1, m.stones[h].start)]
    ELSE m

(* The nodes of a mile stone; those of length 1 are in le0. *)
StoneNodes(t, m, h, len) ==
    LET s == m.stones[h]
        offs == Flat([k \in 1..s.num |->
                   LET mark == m.marks[s.start + k] IN [j \in 1..mark.num |-> mark.off + j - 1]])
    IN  IF len = 1 THEN Le0Nodes(t, offs) ELSE Ge1Nodes(t, offs)

PushStone(m, marks) ==
    [marks  |-> m.marks \o marks,
     stones |-> Append(m.stones, [start |-> Len(m.marks), num |-> Len(marks)])]

(* extend_dict0: of a lone Yunmu letter only the spelling that it is. *)
ExtendDict0(t, m, id) ==
    LET sons  == RootSons(t, id)
        used  == IF IsHalfIdYunmu(id) THEN Upto(sons, 1) ELSE sons
        start == {k \in DOMAIN sons : t.le0[sons[k] + 1].spl = First(id)}
    IN  [lpis |-> Upto(Flat([k \in DOMAIN used |-> Homos(t, t.le0[used[k] + 1])]), LpiMax),
         m    |-> IF start = {} THEN m
                  ELSE PushStone(m, <<[off |-> sons[CHOOSE k \in start : TRUE],
                                       num |-> Cardinality(Matches(id))]>>)]

ExtendDictFirstMark(t, m, from, len, id) ==   \* variant: the mark begins at the first son
    LET nodes == StoneNodes(t, m, from, len)
        sons  == SelectSeq([k \in DOMAIN nodes |-> Sons(t, nodes[k], id)], LAMBDA s : s # <<>>)
        first == SelectSeq(nodes, LAMBDA n : Sons(t, n, id) # <<>>)
    IN  [lpis |-> Upto(Flat([k \in DOMAIN sons |->
                        Flat([j \in DOMAIN sons[k] |-> Homos(t, t.ge1[sons[k][j] + 1])])]), LpiMax),
         m    |-> IF sons = <<>> THEN m
                  ELSE PushStone(m, [k \in DOMAIN sons |->
                                       [off |-> first[k].son, num |-> Len(sons[k])]])]

(* extend_dict1 and extend_dict2: one more id behind the nodes of a stone. *)
ExtendDict12(t, m, from, len, id) ==
    LET nodes == StoneNodes(t, m, from, len)
        sons  == SelectSeq([k \in DOMAIN nodes |-> Sons(t, nodes[k], id)], LAMBDA s : s # <<>>)
    IN  [lpis |-> Upto(Flat([k \in DOMAIN sons |->
                        Flat([j \in DOMAIN sons[k] |-> Homos(t, t.ge1[sons[k][j] + 1])])]), LpiMax),
         m    |-> IF sons = <<>> THEN m
                  ELSE PushStone(m, [k \in DOMAIN sons |->
                                       [off |-> Head(sons[k]), num |-> Len(sons[k])]])]

ExtendDict(t, m, from, len, id) ==
    IF from = 0 THEN ExtendDict0(t, m, id) ELSE ExtendDict12(t, m, from, len, id)
=============================================================================
