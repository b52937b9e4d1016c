---------------------------- MODULE SpellingTrie ----------------------------
(***************************************************************************)
(* The spelling ids and the spelling parser (share/spellingtrie.cpp and    *)
(* share/splparser.cpp).                                                   *)
(*                                                                         *)
(* A spelling is a sequence of letters.  The trie is the set of prefixes   *)
(* of the spellings; a node carries an id.  Ids below FullStart are half   *)
(* ids (an initial: one letter, or Zh, Ch, Sh), the others number the      *)
(* sorted spellings.  0 is no id.  The parser's loop body is one operator, *)
(* so that it can be run to its end (SplstrToIdxs) or stepped (SplParser). *)
(***************************************************************************)
EXTENDS Integers, Sequences, FiniteSets, SequencesExt

CONSTANTS
    Alphabet,    \* the letters, in the order of strcmp
    Shengmu,     \* char_flags_ bit 0: the initials that are consonants
    Yunmu,       \* char_flags_ bit 1: the letters that are a spelling alone
    SzmEnabled,  \* char_flags_ bit 2: the letters that stand for a half id
    HalfNames,   \* kHalfId2Sc_: half id -> its letters
    SpellingBuf, \* spelling_buf_: the spellings of the dictionary as they are sorted
    Splitter     \* any character outside of the alphabet

Letters == Range(Alphabet)
Spellings == Range(SpellingBuf)

-----------------------------------------------------------------------------
(* The sorted buffer.  The h of Zh, Ch and Sh is a lower case letter among
   capitals: those spellings come last under their initial. *)

LetterRank(s, i) ==
    IF i = 2 /\ s[2] = "h" /\ s[1] \in {"c", "s", "z"} THEN Len(Alphabet) + 1
    ELSE CHOOSE k \in DOMAIN Alphabet : Alphabet[k] = s[i]

SplLess(s, t) ==
    LET apart == {i \in DOMAIN s \intersect DOMAIN t : s[i] # t[i]}
    IN  IF apart = {} THEN Len(s) < Len(t)
        ELSE LET i == CHOOSE i \in apart : \A j \in apart : i <= j
             IN  LetterRank(s, i) < LetterRank(t, i)

Sorted(buf) == \A i, j \in DOMAIN buf : i < j <=> SplLess(buf[i], buf[j])

ASSUME TrieAssumption ==
    /\ SpellingBuf \in Seq(Seq(Letters)) /\ HalfNames \in Seq(Seq(Letters))
    /\ SpellingBuf # <<>> /\ Sorted(SpellingBuf)
    /\ \A s \in Spellings : s # <<>>
    /\ Splitter \notin Letters /\ SzmEnabled \subseteq Shengmu \union Yunmu
    /\ \A y \in Yunmu : <<y>> \in Spellings

FullStart == Len(HalfNames) + 1
FullIds == FullStart..FullStart + Len(SpellingBuf) - 1
SpellingStr(id) == IF id < FullStart THEN HalfNames[id] ELSE SpellingBuf[id - FullStart + 1]

-----------------------------------------------------------------------------
(* The trie and its ids. *)

Nodes == UNION {{SubSeq(s, 1, n) : n \in 0..Len(s)} : s \in Spellings}

FullsUnder(p) == {id \in FullIds : IsPrefix(p, SpellingStr(id))}

(* Nodes that stand for an initial: a ShouZiMu letter, or Zh, Ch, Sh. *)
HalfNode(p) ==
    \/ Len(p) = 1 /\ p[1] \in Shengmu \union Yunmu
    \/ Len(p) = 2 /\ p[2] = "h" /\ p[1] \in {"c", "s", "z"}

(* kHalfId2Sc_ names every initial once, C before Ch.  char_flags_, as the
   constructor leaves them, let a letter that is a spelling stand alone. *)
ASSUME HalfIdsAssumption ==
    /\ \A p \in Nodes : HalfNode(p) => p \in Range(HalfNames)
    /\ \A g, h \in DOMAIN HalfNames : IsPrefix(HalfNames[g], HalfNames[h]) => g <= h
    /\ \A s \in Spellings : Len(s) = 1 /\ s[1] \in Shengmu => s[1] \in Yunmu \union SzmEnabled

(* spelling_idx: a half id takes the place of the full id of the node. *)
NodeId ==
    [p \in Nodes |->
        IF HalfNode(p) THEN CHOOSE h \in DOMAIN HalfNames : HalfNames[h] = p
        ELSE IF p \in Spellings THEN CHOOSE id \in FullIds : SpellingStr(id) = p
        ELSE 0]

IsHalfId(id) == id \in 1..FullStart - 1

(* half_to_full: the range of full ids of a half id. *)
HalfToFull ==
    [h \in 1..FullStart - 1 |->
        IF HalfNames[h] \in Nodes /\ HalfNode(HalfNames[h]) THEN FullsUnder(HalfNames[h]) ELSE {}]

(* The full ids that an id stands for. *)
Matches(id) == IF IsHalfId(id) THEN HalfToFull[id] ELSE {id}

F2hFirst == [id \in FullIds |->           \* variant: the first half id stays
               LET hs == {h \in DOMAIN HalfToFull : id \in HalfToFull[h]}
               IN  IF hs = {} THEN 0 ELSE Min(hs)]

(* build_f2h: half ids ascend, the later one keeps the full id. *)
F2h == [id \in FullIds |-> Max({0} \union {h \in DOMAIN HalfToFull : id \in HalfToFull[h]})]

HalfFullCompatible(half, full) ==
    \/ F2h[full] = half
    \/ F2h[full] # 0 /\ <<HalfNames[F2h[full]][1]>> = HalfNames[half]

IsHalfIdYunmu(id) ==
    IsHalfId(id) /\ Len(HalfNames[id]) = 1 /\ HalfNames[id][1] \in Yunmu

(* if_valid_id_update: the id to use, 0 when the node ends no syllable. *)
ValidId(id) ==
    IF ~IsHalfId(id) THEN id
    ELSE IF Len(HalfNames[id]) = 2 \/ HalfNames[id][1] \in SzmEnabled THEN id
    ELSE IF IsHalfIdYunmu(id) THEN Min(HalfToFull[id])
    ELSE 0

-----------------------------------------------------------------------------
(* splstr_to_idxs: the loop over the characters of a string. *)

ParseOf(str) ==
    [str |-> str, pos |-> 0, node |-> <<>>, ids |-> <<>>, starts |-> <<0>>,
     split |-> FALSE, out |-> str = <<>> \/ str[1] \notin Letters]

Running(p) == ~p.out /\ p.pos < Len(p.str)

PushIdKeepsNode(p, id, pos, max) ==      \* variant: the walk goes on from the node
    [p EXCEPT !.ids = Append(@, id), !.starts = Append(@, pos), !.pos = pos,
              !.out = Len(p.ids) + 1 >= max]
(* Remember the syllable that ends here; the next one starts at pos. *)
PushId(p, id, pos, max) ==
    [p EXCEPT !.ids = Append(@, id), !.starts = Append(@, pos), !.pos = pos,
              !.node = <<>>, !.out = Len(p.ids) + 1 >= max]

ParseSplitter(p, max) ==
    LET id == ValidId(NodeId[p.node])
    IN  IF id # 0 THEN [PushId(p, id, p.pos + 1, max) EXCEPT !.split = TRUE]
        ELSE IF p.split
        THEN [p EXCEPT !.pos = @ + 1, !.starts[Len(p.starts)] = p.pos + 1]
        ELSE [p EXCEPT !.out = TRUE]

ParseLetterAgain(p, c, max) ==           \* variant: no return where nothing fits
    LET id == ValidId(NodeId[p.node])
        q  == [p EXCEPT !.split = FALSE]
    IN  IF Append(p.node, c) \in Nodes THEN [q EXCEPT !.node = Append(@, c), !.pos = @ + 1]
        ELSE IF id # 0 THEN PushId(q, id, p.pos, max)
        ELSE q

(* A letter with no son is looked at again from the root. *)
ParseLetter(p, c, max) ==
    LET id == ValidId(NodeId[p.node])
        q  == [p EXCEPT !.split = FALSE]
    IN  IF Append(p.node, c) \in Nodes THEN [q EXCEPT !.node = Append(@, c), !.pos = @ + 1]
        ELSE IF id # 0 THEN PushId(q, id, p.pos, max)
        ELSE [q EXCEPT !.out = TRUE]

ParseStep(p, max) ==
    IF ~Running(p) THEN p
    ELSE LET c == p.str[p.pos + 1]
         IN  IF c \in Letters THEN ParseLetter(p, c, max) ELSE ParseSplitter(p, max)

(* After the loop, unless it returned: the last syllable, and whether the
   string may be the beginning of a longer one. *)
ParseEnd(p, max) ==
    IF p.out THEN [ids |-> p.ids, starts |-> p.starts, pre |-> FALSE]
    ELSE LET id == ValidId(NodeId[p.node])
             q  == IF id # 0 THEN PushId(p, id, p.pos, max) ELSE p
         IN  [ids |-> q.ids, starts |-> q.starts, pre |-> ~p.split]

(* No character is looked at more than twice. *)
SplstrToIdxs(str, max) ==
    ParseEnd(FoldLeft(LAMBDA p, k : ParseStep(p, max), ParseOf(str),
                      [k \in 1..2 * Len(str) |-> k]), max)

(* get_splid_by_str: the id when the string is one syllable. *)
OneSyllable(r, len) ==
    [id |-> IF Len(r.ids) = 1 /\ r.starts[2] = len THEN r.ids[1] ELSE 0, pre |-> r.pre]

SplidByStr(str) == OneSyllable(SplstrToIdxs(str, 2), Len(str))

(* splstr_to_idxs_f: a one-letter Yunmu is the full spelling of that letter. *)
FullOfYunmu(id) ==
    IF IsHalfIdYunmu(id) THEN Min(HalfToFull[id]) ELSE id

SplstrToIdxsF(str, max) ==
    LET r == SplstrToIdxs(str, max)
    IN  [r EXCEPT !.ids = [k \in DOMAIN @ |-> FullOfYunmu(@[k])],
                  !.pre = @ /\ ~(r.ids # <<>> /\ IsHalfIdYunmu(Last(r.ids)))]
=============================================================================
