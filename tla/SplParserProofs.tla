--------------------------- MODULE SplParserProofs ---------------------------
(***************************************************************************)
(* Proofs about SplParser, for every dictionary of spellings and strings   *)
(* of any length: what was parsed spells what was typed, and the ids stand *)
(* for it.                                                                 *)
(***************************************************************************)
EXTENDS SplParser, SequenceTheorems, WellFoundedInduction, TLAPS

-----------------------------------------------------------------------------
(* The trie. *)

(* The nodes are the prefixes of the spellings. *)
LEMMA NodesArePrefixes ==
    /\ Nodes \subseteq Seq(Letters) /\ Spellings \subseteq Nodes /\ <<>> \in Nodes
    /\ \A p \in Nodes : \E k \in DOMAIN SpellingBuf : IsPrefix(p, SpellingBuf[k])
    /\ \A p \in Seq(Letters), s \in Spellings : IsPrefix(p, s) => p \in Nodes
    /\ \A s \in Spellings : \A n \in 0..Len(s) : SubSeq(s, 1, n) \in Nodes
<1>1. /\ Spellings \subseteq Seq(Letters)
      /\ \A s \in Spellings : \E k \in DOMAIN SpellingBuf : s = SpellingBuf[k]
      /\ \E s : s \in Spellings
  <2>1. SpellingBuf \in Seq(Seq(Letters)) /\ SpellingBuf # <<>>
    BY TrieAssumption DEF TrieAssumption
  <2>2. Spellings = {SpellingBuf[k] : k \in DOMAIN SpellingBuf}
    BY DEF Spellings, Range
  <2>3. 1 \in DOMAIN SpellingBuf /\ \A k \in DOMAIN SpellingBuf : SpellingBuf[k] \in Seq(Letters)
    BY <2>1
  <2> QED
    BY <2>2, <2>3
<1>2. \A s \in Spellings : \A n \in 0..Len(s) : SubSeq(s, 1, n) \in Nodes
  BY DEF Nodes
<1>3. \A p \in Nodes : \E s \in Spellings : \E n \in 0..Len(s) : p = SubSeq(s, 1, n)
  BY DEF Nodes
<1>4. \A s \in Seq(Letters) : \A n \in 0..Len(s) :
         /\ SubSeq(s, 1, n) \in Seq(Letters) /\ Len(SubSeq(s, 1, n)) = n
         /\ IsPrefix(SubSeq(s, 1, n), s) /\ SubSeq(s, 1, Len(s)) = s
         /\ SubSeq(s, 1, 0) = <<>>
  BY DEF IsPrefix
<1>5. \A s \in Seq(Letters) : Len(s) \in 0..Len(s) /\ 0 \in 0..Len(s)
  OBVIOUS
<1>6. \A p, s \in Seq(Letters) : IsPrefix(p, s) => Len(p) \in 0..Len(s) /\ p = SubSeq(s, 1, Len(p))
  BY DEF IsPrefix
<1>7. Nodes \subseteq Seq(Letters)
  BY <1>1, <1>3, <1>4
<1>8. Spellings \subseteq Nodes
  <2> SUFFICES ASSUME NEW s \in Spellings PROVE s \in Nodes
    OBVIOUS
  <2>1. s \in Seq(Letters) /\ SubSeq(s, 1, Len(s)) \in Nodes
    BY <1>1, <1>2, <1>5
  <2> QED
    BY <1>4, <1>5, <2>1
<1>9. <<>> \in Nodes
  <2> PICK s : s \in Spellings
    BY <1>1
  <2>1. s \in Seq(Letters) /\ SubSeq(s, 1, 0) \in Nodes
    BY <1>1, <1>2, <1>5
  <2> QED
    BY <1>4, <1>5, <2>1
<1>10. \A p \in Nodes : \E k \in DOMAIN SpellingBuf : IsPrefix(p, SpellingBuf[k])
  <2> TAKE p \in Nodes
  <2> PICK s \in Spellings : \E n \in 0..Len(s) : p = SubSeq(s, 1, n)
    BY <1>3
  <2> PICK n \in 0..Len(s) : p = SubSeq(s, 1, n)
    OBVIOUS
  <2>1. IsPrefix(p, s)
    BY <1>1, <1>4
  <2> QED
    BY <1>1, <2>1
<1>11. \A p \in Seq(Letters), s \in Spellings : IsPrefix(p, s) => p \in Nodes
  BY <1>1, <1>2, <1>6
<1> QED
  BY <1>2, <1>7, <1>8, <1>9, <1>10, <1>11

(* Half ids and full ids are apart, and full ids name the spellings. *)
LEMMA IdsApart ==
    /\ FullStart \in Nat \ {0}
    /\ \A id \in FullIds : id \in Nat \ {0} /\ ~IsHalfId(id) /\ SpellingStr(id) \in Spellings
    /\ \A k \in DOMAIN SpellingBuf :
          /\ FullStart + k - 1 \in FullIds /\ SpellingStr(FullStart + k - 1) = SpellingBuf[k]
    /\ \A id \in FullIds : \E k \in DOMAIN SpellingBuf : id = FullStart + k - 1
    /\ \A h \in DOMAIN HalfNames : h \in Nat \ {0} /\ IsHalfId(h) /\ SpellingStr(h) = HalfNames[h]
    /\ \A h : IsHalfId(h) <=> h \in DOMAIN HalfNames
<1>1. /\ SpellingBuf \in Seq(Seq(Letters)) /\ HalfNames \in Seq(Seq(Letters))
      /\ Len(SpellingBuf) \in Nat /\ Len(HalfNames) \in Nat
      /\ DOMAIN SpellingBuf = 1..Len(SpellingBuf) /\ DOMAIN HalfNames = 1..Len(HalfNames)
  BY TrieAssumption DEF TrieAssumption
<1>2. FullStart = Len(HalfNames) + 1 /\ FullStart \in Nat \ {0}
  BY <1>1 DEF FullStart
<1>3. \A k \in DOMAIN SpellingBuf :
          /\ FullStart + k - 1 \in FullIds /\ SpellingStr(FullStart + k - 1) = SpellingBuf[k]
  BY <1>1, <1>2 DEF FullIds, SpellingStr
<1>4. \A id \in FullIds : \E k \in DOMAIN SpellingBuf : id = FullStart + k - 1
  <2> TAKE id \in FullIds
  <2>1. id - FullStart + 1 \in DOMAIN SpellingBuf /\ id = FullStart + (id - FullStart + 1) - 1
    BY <1>1, <1>2 DEF FullIds
  <2> QED
    BY <2>1
<1>5. \A id \in FullIds : id \in Nat \ {0} /\ ~IsHalfId(id) /\ SpellingStr(id) \in Spellings
  <2> TAKE id \in FullIds
  <2>1. id \in Nat \ {0} /\ ~IsHalfId(id)
    BY <1>1, <1>2 DEF FullIds, IsHalfId
  <2>2. SpellingStr(id) \in Spellings
    BY <1>3, <1>4 DEF Spellings, Range
  <2> QED
    BY <2>1, <2>2
<1>6. \A h : IsHalfId(h) <=> h \in DOMAIN HalfNames
  BY <1>1, <1>2 DEF IsHalfId
<1>7. \A h \in DOMAIN HalfNames : h \in Nat \ {0} /\ SpellingStr(h) = HalfNames[h]
  BY <1>1, <1>2 DEF SpellingStr
<1> QED
  BY <1>2, <1>3, <1>4, <1>5, <1>6, <1>7

(* The ids that the parser can hand out: full ids, and half ids of a node
   that stands for an initial. *)
Found(id) ==
    \/ id \in FullIds
    \/ id \in DOMAIN HalfNames /\ HalfNames[id] \in Nodes /\ HalfNode(HalfNames[id])

(* Of the spellings that begin with a spelling, the least is that one. *)
LEMMA LeastUnder ==
    ASSUME NEW k \in DOMAIN SpellingBuf
    PROVE  Min(FullsUnder(SpellingBuf[k])) = FullStart + k - 1
<1> DEFINE s == SpellingBuf[k]
           me == FullStart + k - 1
<1>1. /\ SpellingBuf \in Seq(Seq(Letters)) /\ Sorted(SpellingBuf)
  BY TrieAssumption DEF TrieAssumption
<1>2. s \in Seq(Letters) /\ me \in FullIds /\ SpellingStr(me) = s
  BY <1>1, IdsApart
<1>3. IsPrefix(s, s)
  BY <1>2 DEF IsPrefix
<1>4. me \in FullsUnder(s)
  BY <1>2, <1>3 DEF FullsUnder
<1>5. \A id \in FullsUnder(s) : me <= id
  <2> SUFFICES ASSUME NEW id \in FullsUnder(s) PROVE me <= id
    OBVIOUS
  <2>1. id \in FullIds /\ IsPrefix(s, SpellingStr(id))
    BY DEF FullsUnder
  <2>2. PICK j \in DOMAIN SpellingBuf : id = FullStart + j - 1
    BY <2>1, IdsApart
  <2> DEFINE t == SpellingBuf[j]
  <2>3. IsPrefix(s, t) /\ t \in Seq(Letters)
    BY <1>1, <2>1, <2>2, IdsApart
  <2>4. \A i \in DOMAIN t \intersect DOMAIN s : t[i] = s[i]
    BY <1>2, <2>3 DEF IsPrefix
  <2>5. ~SplLess(t, s)
    <3> HIDE DEF s, t
    <3>1. {i \in DOMAIN t \intersect DOMAIN s : t[i] # s[i]} = {}
      BY <2>4
    <3>2. ~(Len(t) < Len(s))
      BY <1>2, <2>3 DEF IsPrefix
    <3> QED
      BY <3>1, <3>2 DEF SplLess
  <2>6. ~(j < k)
    BY <1>1, <2>5 DEF Sorted
  <2> QED
    BY <1>1, <2>2, <2>6, IdsApart
<1>6. me \in Nat /\ FullsUnder(s) \subseteq Nat
  BY <1>2, IdsApart DEF FullsUnder
<1> HIDE DEF s, me
<1>7. \A x \in FullsUnder(s) : (\A y \in FullsUnder(s) : x <= y) => x = me
  BY <1>4, <1>5, <1>6
<1> QED
  BY <1>4, <1>5, <1>7 DEF Min, s, me

(* The id of a node, where it ends a syllable, spells the node. *)
LEMMA ValidSpells ==
    ASSUME NEW p \in Nodes, ValidId(NodeId[p]) # 0
    PROVE  Found(ValidId(NodeId[p])) /\ SpellingStr(ValidId(NodeId[p])) = p
<1>1. p \in Seq(Letters)
  BY NodesArePrefixes
<1>2. CASE HalfNode(p)
  <2> DEFINE h == CHOOSE h \in DOMAIN HalfNames : HalfNames[h] = p
  <2>1. NodeId[p] = h
    BY <1>2, Zenon DEF NodeId
  <2>2. \E g \in DOMAIN HalfNames : HalfNames[g] = p
    BY <1>2, HalfIdsAssumption DEF HalfIdsAssumption, Range
  <2>3. h \in DOMAIN HalfNames /\ HalfNames[h] = p
    BY <2>2
  <2> HIDE DEF h
  <2>4. IsHalfId(h) /\ Found(h) /\ SpellingStr(h) = p
    BY <1>2, <2>3, IdsApart DEF Found
  <2>5. CASE ValidId(h) = h
    BY <2>1, <2>4, <2>5
  <2>6. CASE ValidId(h) # h
    <3>1. IsHalfIdYunmu(h) /\ ValidId(h) = Min(HalfToFull[h])
      BY <2>1, <2>4, <2>6 DEF ValidId
    <3>2. Len(p) = 1 /\ p[1] \in Yunmu
      BY <2>3, <3>1 DEF IsHalfIdYunmu
    <3>3. p = <<p[1]>>
      BY <1>1, <3>2
    <3>4. p \in Spellings
      BY <3>2, <3>3, TrieAssumption DEF TrieAssumption
    <3>5. PICK k \in DOMAIN SpellingBuf : p = SpellingBuf[k]
      BY <3>4 DEF Spellings, Range
    <3>6. HalfToFull[h] = FullsUnder(p)
      <4>1. h \in 1..FullStart - 1
        BY <2>4 DEF IsHalfId
      <4> QED
        BY <1>2, <2>3, <4>1, Zenon DEF HalfToFull
    <3>7. ValidId(h) = FullStart + k - 1
      BY <3>1, <3>5, <3>6, LeastUnder
    <3> QED
      BY <2>1, <3>5, <3>7, IdsApart DEF Found
  <2> QED
    BY <2>5, <2>6
<1>3. CASE ~HalfNode(p) /\ p \in Spellings
  <2> DEFINE f == CHOOSE id \in FullIds : SpellingStr(id) = p
  <2>1. NodeId[p] = f
    BY <1>3, Zenon DEF NodeId
  <2>2. PICK k \in DOMAIN SpellingBuf : p = SpellingBuf[k]
    BY <1>3 DEF Spellings, Range
  <2>3. \E id \in FullIds : SpellingStr(id) = p
    BY <2>2, IdsApart
  <2>4. f \in FullIds /\ SpellingStr(f) = p
    BY <2>3
  <2> HIDE DEF f
  <2>5. ValidId(f) = f
    BY <2>4, IdsApart DEF ValidId
  <2> QED
    BY <2>1, <2>4, <2>5 DEF Found
<1>4. CASE ~HalfNode(p) /\ p \notin Spellings
  <2>1. NodeId[p] = 0
    BY <1>4, Zenon DEF NodeId
  <2>2. ~IsHalfId(0)
    BY IdsApart
  <2> QED
    BY <2>1, <2>2 DEF ValidId
<1> QED
  BY <1>2, <1>3, <1>4

(* A node that is a spelling ends a syllable. *)
LEMMA SpellingValid ==
    ASSUME NEW p \in Spellings
    PROVE  ValidId(NodeId[p]) # 0 /\ \E id \in Matches(ValidId(NodeId[p])) : SpellingStr(id) = p
<1>1. p \in Nodes /\ p \in Seq(Letters)
  BY NodesArePrefixes
<1>2. PICK k \in DOMAIN SpellingBuf : p = SpellingBuf[k]
  BY DEF Spellings, Range
<1> DEFINE full == FullStart + k - 1
<1>3. full \in FullIds /\ SpellingStr(full) = p
  BY <1>2, IdsApart
<1>4. full \in FullsUnder(p)
  BY <1>1, <1>3 DEF FullsUnder, IsPrefix
<1>5. full # 0 /\ ~IsHalfId(full)
  BY <1>3, IdsApart
<1> HIDE DEF full
<1>6. CASE HalfNode(p)
  <2> DEFINE h == CHOOSE h \in DOMAIN HalfNames : HalfNames[h] = p
  <2>1. NodeId[p] = h
    BY <1>1, <1>6, Zenon DEF NodeId
  <2>2. \E g \in DOMAIN HalfNames : HalfNames[g] = p
    BY <1>1, <1>6, HalfIdsAssumption DEF HalfIdsAssumption, Range
  <2>3. h \in DOMAIN HalfNames /\ HalfNames[h] = p
    BY <2>2
  <2> HIDE DEF h
  <2>4. IsHalfId(h) /\ h # 0
    BY <2>3, IdsApart
  <2>5. HalfToFull[h] = FullsUnder(p)
    <3>1. h \in 1..FullStart - 1
      BY <2>4 DEF IsHalfId
    <3> QED
      BY <1>1, <1>6, <2>3, <3>1, Zenon DEF HalfToFull
  <2>6. CASE Len(p) = 2 \/ p[1] \in SzmEnabled
    <3>1. ValidId(h) = h
      BY <2>3, <2>4, <2>6 DEF ValidId
    <3>2. full \in Matches(h)
      BY <1>4, <2>4, <2>5 DEF Matches
    <3> QED
      BY <1>3, <2>1, <2>4, <3>1, <3>2
  <2>7. CASE ~(Len(p) = 2 \/ p[1] \in SzmEnabled)
    <3>1. Len(p) = 1 /\ p[1] \in Shengmu \union Yunmu
      BY <1>6, <2>7 DEF HalfNode
    <3>2. p[1] \in Yunmu
      BY <2>7, <3>1, HalfIdsAssumption DEF HalfIdsAssumption
    <3>3. IsHalfIdYunmu(h)
      BY <2>3, <2>4, <3>1, <3>2 DEF IsHalfIdYunmu
    <3>4. ValidId(h) = Min(HalfToFull[h])
      BY <2>3, <2>4, <2>7, <3>3 DEF ValidId
    <3>5. ValidId(h) = full
      BY <1>2, <2>5, <3>4, LeastUnder DEF full
    <3>6. Matches(full) = {full}
      BY <1>5 DEF Matches
    <3> QED
      BY <1>3, <1>5, <2>1, <3>5, <3>6
  <2> QED
    BY <2>6, <2>7
<1>7. CASE ~HalfNode(p)
  <2> DEFINE f == CHOOSE id \in FullIds : SpellingStr(id) = p
  <2>1. NodeId[p] = f
    BY <1>1, <1>7, Zenon DEF NodeId
  <2>2. f \in FullIds /\ SpellingStr(f) = p
    BY <1>3
  <2> HIDE DEF f
  <2>3. ValidId(f) = f /\ f # 0 /\ Matches(f) = {f}
    BY <2>2, IdsApart DEF ValidId, Matches
  <2> QED
    BY <2>1, <2>2, <2>3
<1> QED
  BY <1>6, <1>7

(* A half id that the parser hands out stands for the spellings that begin
   with its letters, of which there are some. *)
LEMMA HalfMatches ==
    ASSUME NEW h, IsHalfId(h), Found(h)
    PROVE  /\ h \in DOMAIN HalfNames /\ HalfNames[h] \in Nodes /\ HalfNode(HalfNames[h])
           /\ Matches(h) = FullsUnder(HalfNames[h]) /\ HalfToFull[h] = FullsUnder(HalfNames[h])
           /\ Matches(h) # {}
<1>1. h \in DOMAIN HalfNames /\ HalfNames[h] \in Nodes /\ HalfNode(HalfNames[h])
  BY IdsApart DEF Found
<1>2. HalfToFull[h] = FullsUnder(HalfNames[h])
  <2>1. h \in 1..FullStart - 1
    BY DEF IsHalfId
  <2> QED
    BY <1>1, <2>1, Zenon DEF HalfToFull
<1>3. PICK k \in DOMAIN SpellingBuf : IsPrefix(HalfNames[h], SpellingBuf[k])
  BY <1>1, NodesArePrefixes
<1>4. FullStart + k - 1 \in FullsUnder(HalfNames[h])
  BY <1>3, IdsApart DEF FullsUnder
<1> QED
  BY <1>1, <1>2, <1>4 DEF Matches

(* The half ids of a full id: those that stand for it. *)
HalvesOf(id) == {h \in DOMAIN HalfToFull : id \in HalfToFull[h]}

(* They are found ids, and name the beginning of the spelling. *)
LEMMA HalvesFound ==
    ASSUME NEW id \in FullIds, NEW h \in HalvesOf(id)
    PROVE  IsHalfId(h) /\ Found(h) /\ IsPrefix(HalfNames[h], SpellingStr(id)) /\ h \in Nat \ {0}
<1>1. h \in 1..FullStart - 1 /\ id \in HalfToFull[h]
  BY DEF HalvesOf, HalfToFull
<1>2. IsHalfId(h)
  BY <1>1 DEF IsHalfId
<1>3. HalfToFull[h] = IF HalfNames[h] \in Nodes /\ HalfNode(HalfNames[h])
                      THEN FullsUnder(HalfNames[h]) ELSE {}
  BY <1>1, Zenon DEF HalfToFull
<1>4. HalfNames[h] \in Nodes /\ HalfNode(HalfNames[h]) /\ id \in FullsUnder(HalfNames[h])
  BY <1>1, <1>3
<1> QED
  BY <1>2, <1>4, IdsApart DEF Found, FullsUnder

(* The greatest of some numbers up to n. *)
LEMMA GreatestThere ==
    ASSUME NEW n \in Nat, NEW S \in SUBSET (0..n), S # {}
    PROVE  Max(S) \in S /\ \A x \in S : Max(S) >= x
<1> DEFINE T == {k \in Nat : k <= n /\ n - k \in S}
           R == {xy \in Nat \X Nat : xy[1] < xy[2]}
<1>1. T \subseteq Nat /\ T # {}
  <2>1. PICK x : x \in S
    OBVIOUS
  <2>2. n - x \in Nat /\ n - x <= n /\ n - (n - x) = x
    BY <2>1
  <2>3. n - x \in T
    BY <2>1, <2>2
  <2> QED
    BY <2>3
<1>2. IsWellFoundedOn(R, Nat)
  BY NatLessThanWellFounded, Zenon DEF OpToRel
<1>3. PICK k \in T : \A j \in T : <<j, k>> \notin R
  <2> HIDE DEF R, T
  <2> QED
    BY <1>1, <1>2, WFMin
<1>4. k \in Nat /\ k <= n /\ n - k \in S
  OBVIOUS
<1>5. \A x \in S : n - k >= x
  <2> SUFFICES ASSUME NEW x \in S, ~(n - k >= x) PROVE FALSE
    OBVIOUS
  <2>1. x \in Nat /\ n - x \in Nat /\ n - x <= n /\ n - (n - x) = x /\ n - x < k
    BY <1>4
  <2>2. n - x \in T
    BY <2>1
  <2>3. <<n - x, k>> \in Nat \X Nat /\ <<n - x, k>>[1] = n - x /\ <<n - x, k>>[2] = k
    BY <1>4, <2>1
  <2>4. <<n - x, k>> \in R
    BY <2>1, <2>3, Zenon
  <2> QED
    BY <1>3, <2>2, <2>4, Zenon
<1>6. \E x \in S : \A y \in S : x >= y
  BY <1>4, <1>5
<1> QED
  BY <1>6 DEF Max

(* build_f2h keeps the greatest of them. *)
LEMMA F2hGreatest ==
    ASSUME NEW id \in FullIds
    PROVE  \/ F2h[id] = 0 /\ HalvesOf(id) = {}
           \/ F2h[id] \in HalvesOf(id) /\ \A h \in HalvesOf(id) : h <= F2h[id]
<1> DEFINE S == {0} \union HalvesOf(id)
<1>1. F2h[id] = Max(S)
  BY Zenon DEF F2h, HalvesOf
<1>2. HalvesOf(id) \subseteq 1..Len(HalfNames) /\ Len(HalfNames) \in Nat
  <2>1. Len(HalfNames) \in Nat
    BY TrieAssumption DEF TrieAssumption
  <2> QED
    BY <2>1 DEF HalvesOf, HalfToFull, FullStart
<1>3. S \in SUBSET (0..Len(HalfNames)) /\ S # {}
  BY <1>2
<1> HIDE DEF S
<1>4. Max(S) \in S /\ \A x \in S : Max(S) >= x
  BY <1>2, <1>3, GreatestThere
<1>5. F2h[id] \in S /\ \A x \in S : F2h[id] >= x
  BY <1>1, <1>4
<1> QED
  BY <1>2, <1>5 DEF S

(* half_full_compatible says of a half id that is found and a full id whether
   the one stands for the other. *)
LEMMA CompatibleExact ==
    ASSUME NEW half, IsHalfId(half), Found(half), NEW full \in FullIds
    PROVE  HalfFullCompatible(half, full) <=> full \in Matches(half)
<1> DEFINE g == F2h[full]
           w == SpellingStr(full)
           name == HalfNames[half]
<1>1. /\ half \in DOMAIN HalfNames /\ name \in Nodes /\ HalfNode(name)
      /\ Matches(half) = FullsUnder(name) /\ HalfToFull[half] = FullsUnder(name)
      /\ half \in Nat \ {0}
  BY HalfMatches, IdsApart
<1>2. w \in Seq(Letters) /\ name \in Seq(Letters) /\ w # <<>>
  BY <1>1, NodesArePrefixes, IdsApart, TrieAssumption DEF TrieAssumption
<1>3. \/ g = 0 /\ HalvesOf(full) = {}
      \/ g \in HalvesOf(full) /\ \A h \in HalvesOf(full) : h <= g
  BY F2hGreatest
<1>4. full \in Matches(half) <=> IsPrefix(name, w)
  BY <1>1 DEF FullsUnder
<1>5. full \in Matches(half) <=> half \in HalvesOf(full)
  <2>1. half \in DOMAIN HalfToFull
    BY DEF IsHalfId, HalfToFull
  <2> QED
    BY <1>1, <2>1 DEF HalvesOf
<1>6. g \in HalvesOf(full) =>
        /\ g \in DOMAIN HalfNames /\ HalfNames[g] \in Seq(Letters) /\ HalfNode(HalfNames[g])
        /\ IsPrefix(HalfNames[g], w) /\ g \in Nat \ {0}
  BY HalvesFound, HalfMatches, NodesArePrefixes
<1>7. \A h, k \in DOMAIN HalfNames : IsPrefix(HalfNames[h], HalfNames[k]) => h <= k
  BY HalfIdsAssumption DEF HalfIdsAssumption
<1>8. \A p \in Seq(Letters) : HalfNode(p) /\ IsPrefix(p, w) =>
        \/ Len(p) = 1 /\ p[1] = w[1] /\ p = <<w[1]>>
        \/ Len(p) = 2 /\ p[1] = w[1] /\ p[2] = "h"
  BY <1>2 DEF HalfNode, IsPrefix
<1> HIDE DEF g, w, name
<1>9. ASSUME full \in Matches(half) PROVE HalfFullCompatible(half, full)
  <2>1. half \in HalvesOf(full) /\ IsPrefix(name, w) /\ g \in HalvesOf(full) /\ half <= g
    BY <1>3, <1>4, <1>5, <1>9
  <2>2. CASE Len(name) = 1
    <3>1. name = <<w[1]>> /\ HalfNames[g][1] = w[1]
      BY <1>1, <1>2, <1>6, <1>8, <2>1, <2>2
    <3>2. g # 0
      BY <1>6, <2>1
    <3> QED
      BY <3>1, <3>2 DEF HalfFullCompatible, g, name
  <2>3. CASE Len(name) # 1
    <3>1. Len(name) = 2 /\ name[1] = w[1] /\ name[2] = "h"
      BY <1>1, <1>2, <1>8, <2>1, <2>3
    <3>2. IsPrefix(HalfNames[g], name)
      <4>1. HalfNames[g] \in Seq(Letters) /\ HalfNode(HalfNames[g]) /\ IsPrefix(HalfNames[g], w)
        BY <1>6, <2>1
      <4>2. \/ Len(HalfNames[g]) = 1 /\ HalfNames[g][1] = w[1]
            \/ Len(HalfNames[g]) = 2 /\ HalfNames[g][1] = w[1] /\ HalfNames[g][2] = "h"
        BY <1>8, <4>1
      <4> QED
        BY <1>2, <3>1, <4>1, <4>2 DEF IsPrefix
    <3>3. g <= half
      BY <1>1, <1>6, <1>7, <2>1, <3>2 DEF name
    <3>4. g = half
      BY <1>1, <1>6, <2>1, <3>3
    <3> QED
      BY <3>4 DEF HalfFullCompatible, g
  <2> QED
    BY <2>2, <2>3
<1>10. ASSUME HalfFullCompatible(half, full) PROVE full \in Matches(half)
  <2>1. CASE g = half
    BY <1>1, <1>3, <1>5, <2>1
  <2>2. CASE g # 0 /\ <<HalfNames[g][1]>> = name
    <3>1. g \in HalvesOf(full)
      BY <1>3, <2>2
    <3>2. HalfNames[g][1] = w[1]
      BY <1>6, <1>8, <3>1
    <3>3. name = <<w[1]>>
      BY <2>2, <3>2
    <3>4. IsPrefix(name, w)
      BY <1>2, <3>3 DEF IsPrefix
    <3> QED
      BY <1>4, <3>4
  <2> QED
    BY <1>10, <2>1, <2>2 DEF HalfFullCompatible, g, name
<1> QED
  BY <1>9, <1>10

-----------------------------------------------------------------------------
(* The walk. *)

Chars == Letters \union {Splitter}

Walks == [str : Seq(Chars), pos : Nat, node : Seq(Letters), ids : Seq(Nat),
          starts : Seq(Nat), split : BOOLEAN, out : BOOLEAN]

(* The walk is in a node of the trie, within the string; separators leave it
   at the root, and only follow a syllable. *)
WalkOK ==
    /\ parse \in Walks
    /\ parse.str # <<>> /\ parse.pos <= Len(parse.str) /\ parse.node \in Nodes
    /\ Last(parse.starts) <= parse.pos
    /\ parse.split => parse.node = <<>> /\ parse.ids # <<>>
    /\ ~parse.out => Len(parse.ids) < MaxIdxs

IdsFound == \A k \in DOMAIN parse.ids : Found(parse.ids[k])

(* A spelling is walked down to its end without a syllable before. *)
WholeWalk ==
    parse.str \in Spellings =>
        /\ ~parse.out /\ ~parse.split /\ parse.ids = <<>> /\ parse.starts = <<0>>
        /\ parse.node = SubSeq(parse.str, 1, parse.pos)

WInv == WalkOK /\ SpelledAsTyped /\ IdsFound /\ WholeWalk

(* In the beginning nothing is parsed; strings begin with anything. *)
LEMMA InitWalk == Init => WInv
<1> SUFFICES ASSUME NEW s \in Strings, parse = ParseOf(s) PROVE WInv
  BY DEF Init
<1>1. PICK n \in 1..MaxTyped : s \in [1..n -> Chars]
  BY DEF Strings, Chars
<1>2. n \in Nat \ {0} /\ s \in Seq(Chars) /\ Len(s) = n /\ s # <<>>
  BY <1>1, ParserAssumption DEF ParserAssumption
<1>3. /\ parse.str = s /\ parse.pos = 0 /\ parse.node = <<>> /\ parse.ids = <<>>
      /\ parse.starts = <<0>> /\ parse.split = FALSE
      /\ parse.out = (s = <<>> \/ s[1] \notin Letters)
  BY DEF ParseOf
<1>4. parse \in Walks
  BY <1>2 DEF ParseOf, Walks
<1>5. WalkOK
  <2>1. Last(parse.starts) = 0
    BY <1>3 DEF Last
  <2>2. Len(parse.ids) = 0 /\ MaxIdxs \in Nat \ {0}
    BY <1>3, ParserAssumption DEF ParserAssumption
  <2> QED
    BY <1>2, <1>3, <1>4, <2>1, <2>2, NodesArePrefixes DEF WalkOK
<1>6. SpelledAsTyped
  <2>1. SubSeq(s, 0 + 1, 0) = <<>>
    BY <1>2
  <2> QED
    BY <1>2, <1>3, <2>1, ParserAssumption DEF SpelledAsTyped, Last, ParserAssumption
<1>7. IdsFound
  BY <1>3 DEF IdsFound
<1>8. WholeWalk
  <2> SUFFICES ASSUME s \in Spellings PROVE ~parse.out /\ SubSeq(s, 1, 0) = <<>>
    BY <1>3 DEF WholeWalk
  <2>1. s \in Seq(Letters) /\ s[1] \in Letters
    BY <1>2, NodesArePrefixes
  <2>2. SubSeq(s, 1, 0) = <<>>
    BY <1>2
  <2> QED
    BY <1>2, <1>3, <2>1, <2>2
<1> QED
  BY <1>5, <1>6, <1>7, <1>8 DEF WInv

(* The boundaries of the syllables are kept, whatever comes behind them. *)
Syllable(k, ids, starts) ==
    LET next == starts[k + 1]
    IN  /\ Spells(SpellingStr(ids[k]), starts[k], next)
        /\ next < Len(parse.str) /\ parse.str[next] # Splitter /\ parse.str[next + 1] # Splitter
           => Append(SpellingStr(ids[k]), parse.str[next + 1]) \notin Nodes

(* The parts of SpelledAsTyped by their own names. *)
LEMMA SpelledParts ==
    SpelledAsTyped <=>
      /\ Len(parse.starts) = Len(parse.ids) + 1 /\ Len(parse.ids) <= MaxIdxs
      /\ parse.starts[1] = 0
      /\ parse.node = SubSeq(parse.str, Last(parse.starts) + 1, parse.pos)
      /\ \A k \in DOMAIN parse.ids : Syllable(k, parse.ids, parse.starts)
BY Zenon DEF SpelledAsTyped, Syllable

(* A syllable ends before position `to`, behind which it cannot go on. *)
Pushed(to, split) ==
    /\ parse' \in Walks /\ parse'.str = parse.str /\ parse'.pos = to /\ parse'.node = <<>>
    /\ parse'.ids = Append(parse.ids, ValidId(NodeId[parse.node]))
    /\ parse'.starts = Append(parse.starts, to)
    /\ parse'.split = split /\ parse'.out = (Len(parse.ids) + 1 >= MaxIdxs)

(* What makes `to` the end of the syllable: only separators lie before it, and
   the letter behind it does not go on. *)
EndsAt(to) ==
    /\ parse.pos <= to /\ to <= Len(parse.str)
    /\ \A i \in parse.pos + 1..to : parse.str[i] \notin Letters
    /\ to < Len(parse.str) /\ parse.str[to] # Splitter /\ parse.str[to + 1] # Splitter
       => Append(parse.node, parse.str[to + 1]) \notin Nodes

(* One more syllable, and one more boundary. *)
OneMore(ids, starts, nids, nstarts, id, to) ==
    /\ Len(nids) = Len(ids) + 1 /\ Len(nstarts) = Len(nids) + 1 /\ nids # <<>>
    /\ nids[Len(nids)] = id /\ nstarts[Len(nids)] = Last(starts)
    /\ nstarts[Len(nids) + 1] = to /\ nstarts[1] = starts[1] /\ Last(nstarts) = to
    /\ DOMAIN nids = DOMAIN ids \union {Len(nids)}
    /\ \A k \in DOMAIN ids :
          nids[k] = ids[k] /\ nstarts[k] = starts[k] /\ nstarts[k + 1] = starts[k + 1]

(* That is what Append makes of the two sequences. *)
LEMMA OneBoundaryMore ==
    ASSUME NEW ids \in Seq(Nat), NEW starts \in Seq(Nat), Len(starts) = Len(ids) + 1,
           NEW id \in Nat, NEW to \in Nat
    PROVE  OneMore(ids, starts, Append(ids, id), Append(starts, to), id, to)
<1>0. PICK nids, nstarts : nids = Append(ids, id) /\ nstarts = Append(starts, to)
  OBVIOUS
<1>1. /\ nids \in Seq(Nat) /\ Len(nids) = Len(ids) + 1 /\ nids[Len(nids)] = id
      /\ \A k \in 1..Len(ids) : nids[k] = ids[k]
  BY <1>0
<1>2. /\ nstarts \in Seq(Nat) /\ Len(nstarts) = Len(starts) + 1 /\ nstarts[Len(starts) + 1] = to
      /\ \A k \in 1..Len(starts) : nstarts[k] = starts[k]
  BY <1>0
<1>3. Last(starts) = starts[Len(ids) + 1] /\ Last(nstarts) = nstarts[Len(nstarts)]
  BY DEF Last
<1>4. Len(ids) \in Nat /\ DOMAIN ids = 1..Len(ids) /\ DOMAIN nids = 1..Len(nids)
  BY <1>1
<1>5. \A k \in DOMAIN ids : k \in 1..Len(ids) /\ k \in 1..Len(starts) /\ k + 1 \in 1..Len(starts)
  BY <1>4
<1>6. \A k \in DOMAIN ids :
         nids[k] = ids[k] /\ nstarts[k] = starts[k] /\ nstarts[k + 1] = starts[k + 1]
  BY <1>1, <1>2, <1>5
<1>7. DOMAIN nids = DOMAIN ids \union {Len(nids)} /\ nids # <<>>
  BY <1>1, <1>4
<1>8. /\ nstarts[Len(nids)] = Last(starts) /\ nstarts[Len(nids) + 1] = to
      /\ nstarts[1] = starts[1] /\ Last(nstarts) = to /\ Len(nstarts) = Len(nids) + 1
  <2>1. 1 \in 1..Len(starts) /\ Len(starts) \in 1..Len(starts)
    BY <1>4
  <2>2. nstarts[1] = starts[1] /\ nstarts[Len(starts)] = starts[Len(starts)]
    BY <1>2, <2>1
  <2>3. Len(nids) = Len(starts) /\ Len(nstarts) = Len(nids) + 1
    BY <1>1, <1>2
  <2> QED
    BY <1>2, <1>3, <2>2, <2>3, Zenon
<1> QED
  <2>1. OneMore(ids, starts, nids, nstarts, id, to)
    BY <1>1, <1>6, <1>7, <1>8, Zenon DEF OneMore
  <2> QED
    BY <1>0, <2>1

(* Then everything typed up to there is spelled. *)
LEMMA PushKeeps ==
    ASSUME WInv, Running(parse), parse.str \notin Spellings,
           ValidId(NodeId[parse.node]) # 0, NEW to \in Nat, NEW split \in BOOLEAN, Pushed(to, split), EndsAt(to)
    PROVE  WInv'
<1>0. PICK id, ids, starts, str, node, pos :
         /\ id = ValidId(NodeId[parse.node]) /\ ids = parse.ids /\ starts = parse.starts
         /\ str = parse.str /\ node = parse.node /\ pos = parse.pos
  OBVIOUS
<1>1. node \in Nodes /\ parse \in Walks /\ str # <<>>
  BY <1>0 DEF WInv, WalkOK
<1>2. Found(id) /\ SpellingStr(id) = node
  BY <1>0, <1>1, ValidSpells
<1>3. /\ str \in Seq(Chars) /\ pos \in Nat /\ node \in Seq(Letters)
      /\ ids \in Seq(Nat) /\ starts \in Seq(Nat)
  BY <1>0, <1>1 DEF Walks
<1>4. /\ Len(starts) = Len(ids) + 1 /\ starts[1] = 0
      /\ node = SubSeq(str, Last(starts) + 1, pos)
      /\ \A k \in DOMAIN ids : Syllable(k, ids, starts)
  BY <1>0, SpelledParts, Zenon DEF WInv
<1>5. Len(ids) < MaxIdxs /\ MaxIdxs \in Nat
  BY <1>0, ParserAssumption DEF WInv, WalkOK, Running, ParserAssumption
<1>6. Last(starts) = starts[Len(starts)] /\ Last(starts) \in Nat
  BY <1>3, <1>4 DEF Last
<1>a. Last(starts) <= pos /\ pos <= Len(str)
  BY <1>0 DEF WInv, WalkOK
<1>c. /\ pos <= to /\ to <= Len(str) /\ \A i \in pos + 1..to : str[i] \notin Letters
      /\ to < Len(str) /\ str[to] # Splitter /\ str[to + 1] # Splitter
         => Append(node, str[to + 1]) \notin Nodes
  BY <1>0, Zenon DEF EndsAt
<1>7. id \in Nat
  BY <1>2, IdsApart DEF Found
<1>b. PICK nids, nstarts : nids = Append(ids, id) /\ nstarts = Append(starts, to)
  OBVIOUS
<1>8. /\ Len(nids) = Len(ids) + 1 /\ Len(nstarts) = Len(nids) + 1 /\ nids # <<>>
      /\ nids[Len(nids)] = id /\ nstarts[Len(nids)] = Last(starts)
      /\ nstarts[Len(nids) + 1] = to /\ nstarts[1] = 0 /\ Last(nstarts) = to
      /\ DOMAIN nids = DOMAIN ids \union {Len(nids)}
      /\ \A k \in DOMAIN ids :
            nids[k] = ids[k] /\ nstarts[k] = starts[k] /\ nstarts[k + 1] = starts[k + 1]
  <2>1. OneMore(ids, starts, nids, nstarts, id, to)
    <3>1. ids \in Seq(Nat) /\ starts \in Seq(Nat) /\ Len(starts) = Len(ids) + 1
      BY <1>3, <1>4
    <3>2. OneMore(ids, starts, Append(ids, id), Append(starts, to), id, to)
      BY <3>1, <1>7, OneBoundaryMore, Zenon
    <3> QED
      BY <1>b, <3>2, Zenon
  <2> QED
    BY <1>4, <2>1 DEF OneMore
<1>9. Syllable(Len(nids), nids, nstarts)
  <2>1. Len(node) = pos - Last(starts) /\ Last(starts) + Len(node) = pos
    <3>1. \A a \in Nat : a <= pos =>
             Len(SubSeq(str, a + 1, pos)) = pos - a /\ a + (pos - a) = pos
      BY <1>3, <1>a
    <3> QED
      BY <1>4, <1>6, <1>a, <3>1, Zenon
  <2>2. Spells(node, Last(starts), to)
    <3>1. SubSeq(str, Last(starts) + 1, Last(starts) + Len(node)) = node
      BY <1>4, <2>1, Zenon
    <3>2. \A i \in Last(starts) + Len(node) + 1..to : str[i] \notin Letters
      BY <1>c, <2>1, Zenon
    <3>3. Last(starts) + Len(node) <= to
      BY <1>c, <2>1, Zenon
    <3> QED
      BY <1>0, <3>1, <3>2, <3>3, Zenon DEF Spells
  <2> QED
    BY <1>0, <1>2, <1>8, <1>c, <2>2, Zenon DEF Syllable
<1>10. \A k \in DOMAIN nids : Syllable(k, nids, nstarts)
  <2> SUFFICES ASSUME NEW k \in DOMAIN ids PROVE Syllable(k, nids, nstarts)
    BY <1>8, <1>9
  <2>1. nids[k] = ids[k] /\ nstarts[k] = starts[k] /\ nstarts[k + 1] = starts[k + 1]
    BY <1>8
  <2> QED
    BY <1>4, <2>1 DEF Syllable
<1>11. SubSeq(str, to + 1, to) = <<>>
  BY <1>3
<1>12. /\ parse'.ids = nids /\ parse'.starts = nstarts /\ parse'.str = str /\ parse'.pos = to
       /\ parse'.node = <<>> /\ parse'.split = split /\ parse'.out = (Len(ids) + 1 >= MaxIdxs)
       /\ parse' \in Walks
  BY <1>0, <1>b, Zenon DEF Pushed
<1>13. SpelledAsTyped'
  <2>1. \A k \in DOMAIN nids : Syllable(k, nids, nstarts)'
    BY <1>0, <1>10, <1>12, Zenon DEF Syllable, Spells
  <2>2. \A k \in DOMAIN parse'.ids :
           LET next == parse'.starts[k + 1]
           IN  /\ Spells(SpellingStr(parse.ids[k]), parse.starts[k], parse.starts[k + 1])'
               /\ next < Len(parse'.str) /\ parse'.str[next] # Splitter
                     /\ parse'.str[next + 1] # Splitter
                  => Append(SpellingStr(parse'.ids[k]), parse'.str[next + 1]) \notin Nodes
    BY <1>12, <2>1 DEF Syllable, Spells
  <2>3. Len(nids) <= MaxIdxs
    BY <1>3, <1>5, <1>8
  <2> QED
    BY <1>8, <1>11, <1>12, <2>2, <2>3, Zenon DEF SpelledAsTyped
<1>14. IdsFound'
  <2>1. \A k \in DOMAIN nids : Found(nids[k])
    BY <1>0, <1>2, <1>8, Zenon DEF WInv, IdsFound
  <2> QED
    BY <1>12, <2>1 DEF IdsFound
<1>15. WalkOK'
  <2>1. Len(ids) \in Nat /\ (~parse'.out => Len(nids) < MaxIdxs)
    <3>1. \A a \in Nat : ~(a + 1 >= MaxIdxs) => a + 1 < MaxIdxs
      BY <1>5
    <3>2. Len(ids) \in Nat
      BY <1>3
    <3> QED
      BY <1>8, <1>12, <3>1, <3>2, Zenon
  <2>2. Last(nstarts) <= to
    BY <1>8
  <2>3. to <= Len(str) /\ nids # <<>>
    BY <1>8, <1>c
  <2> QED
    BY <1>1, <1>12, <2>1, <2>2, <2>3, NodesArePrefixes, Zenon DEF WalkOK
<1>16. WholeWalk'
  BY <1>0, <1>12 DEF WholeWalk
<1> QED
  BY <1>13, <1>14, <1>15, <1>16 DEF WInv

(* A stretch of a string and the letter behind it. *)
LEMMA OneLetterMore ==
    ASSUME NEW S, NEW str \in Seq(S), NEW a \in Nat, NEW b \in Nat, a <= b, b < Len(str)
    PROVE  Append(SubSeq(str, a + 1, b), str[b + 1]) = SubSeq(str, a + 1, b + 1)
<1>1. /\ a + 1 \in 1..Len(str) /\ b + 1 \in a + 1..Len(str) /\ b + 1 - 1 = b
      /\ b + 1 \in 1..Len(str)
  OBVIOUS
<1>2. SubSeq(str, a + 1, b + 1) = SubSeq(str, a + 1, b) \o <<str[b + 1]>>
  <2>1. SubSeq(str, a + 1, b + 1) = SubSeq(str, a + 1, b + 1 - 1) \o <<str[b + 1]>>
    BY <1>1, SubSeqRecursiveSecond
  <2> QED
    BY <1>1, <2>1, Zenon
<1>3. SubSeq(str, a + 1, b) \in Seq(S) /\ str[b + 1] \in S
  BY <1>1
<1> QED
  BY <1>2, <1>3, AppendIsConcat, Zenon

(* Where a spelling is walked, the trie always goes on. *)
LEMMA SpellingGoesOn ==
    ASSUME WInv, Running(parse), parse.str \in Spellings
    PROVE  /\ parse.str[parse.pos + 1] \in Letters
           /\ Append(parse.node, parse.str[parse.pos + 1]) = SubSeq(parse.str, 1, parse.pos + 1)
           /\ Append(parse.node, parse.str[parse.pos + 1]) \in Nodes
<1> PICK str, pos, node : str = parse.str /\ pos = parse.pos /\ node = parse.node
  OBVIOUS
<1>1. /\ str \in Seq(Letters) /\ pos \in Nat /\ pos < Len(str) /\ node = SubSeq(str, 1, pos)
  BY NodesArePrefixes DEF WInv, WalkOK, WholeWalk, Walks, Running
<1>2. str[pos + 1] \in Letters /\ Append(node, str[pos + 1]) = SubSeq(str, 1, pos + 1)
  <2>1. str[pos + 1] \in Letters /\ 0 \in Nat /\ 0 <= pos /\ 0 + 1 = 1
    BY <1>1
  <2>2. Append(SubSeq(str, 0 + 1, pos), str[pos + 1]) = SubSeq(str, 0 + 1, pos + 1)
    BY <1>1, <2>1, OneLetterMore, Zenon
  <2> QED
    BY <1>1, <2>1, <2>2, Zenon
<1>3. pos + 1 \in 0..Len(str)
  BY <1>1
<1>4. SubSeq(str, 1, pos + 1) \in Nodes
  BY <1>3, NodesArePrefixes
<1> QED
  BY <1>2, <1>4

(* The fields that a step of the walk leaves alone. *)
LEMMA WalkFields ==
    ASSUME WInv, Running(parse)
    PROVE  /\ parse \in Walks /\ parse.str \in Seq(Chars) /\ parse.pos \in Nat
           /\ parse.node \in Seq(Letters) /\ parse.ids \in Seq(Nat) /\ parse.starts \in Seq(Nat)
           /\ parse.pos < Len(parse.str) /\ ~parse.out /\ parse.node \in Nodes
           /\ parse.str[parse.pos + 1] \in Chars /\ parse.pos + 1 \in Nat
           /\ parse.pos + 1 <= Len(parse.str) /\ Len(parse.str) \in Nat
           /\ Len(parse.starts) = Len(parse.ids) + 1 /\ MaxIdxs \in Nat
<1>1. /\ parse \in Walks /\ parse.node \in Nodes /\ ~parse.out /\ parse.pos < Len(parse.str)
      /\ Len(parse.starts) = Len(parse.ids) + 1 /\ MaxIdxs \in Nat
  BY ParserAssumption DEF WInv, WalkOK, Running, SpelledAsTyped, ParserAssumption
<1> QED
  BY <1>1 DEF Walks

(* A letter that goes on in the trie. *)
LEMMA LetterGoesOn ==
    ASSUME WInv, Running(parse), NEW c, c = parse.str[parse.pos + 1], c \in Letters,
           Append(parse.node, c) \in Nodes,
           parse' = [parse EXCEPT !.split = FALSE, !.node = Append(parse.node, c),
                                  !.pos = parse.pos + 1]
    PROVE  WInv'
<1>1. parse \in Walks
  BY WalkFields
<1>2. /\ parse'.str = parse.str /\ parse'.pos = parse.pos + 1 /\ parse'.node = Append(parse.node, c)
      /\ parse'.ids = parse.ids /\ parse'.starts = parse.starts /\ parse'.split = FALSE
      /\ parse'.out = parse.out
  BY <1>1 DEF Walks
<1>3. parse' \in Walks
  <2>1. Append(parse.node, c) \in Seq(Letters) /\ parse.pos + 1 \in Nat
    BY WalkFields
  <2> QED
    BY <1>1, <2>1, Zenon DEF Walks
<1>4. Last(parse.starts) \in Nat /\ Last(parse.starts) <= parse.pos
  <2>1. /\ parse.starts \in Seq(Nat) /\ Len(parse.starts) = Len(parse.ids) + 1
        /\ parse.ids \in Seq(Nat)
    BY WalkFields
  <2> QED
    BY <2>1 DEF Last, WInv, WalkOK
<1>5. Append(parse.node, c) = SubSeq(parse.str, Last(parse.starts) + 1, parse.pos + 1)
  <2>1. parse.node = SubSeq(parse.str, Last(parse.starts) + 1, parse.pos)
    BY Zenon DEF WInv, SpelledAsTyped
  <2>2. parse.str \in Seq(Chars) /\ parse.pos \in Nat /\ parse.pos < Len(parse.str)
    BY WalkFields
  <2>3. Append(SubSeq(parse.str, Last(parse.starts) + 1, parse.pos), parse.str[parse.pos + 1])
           = SubSeq(parse.str, Last(parse.starts) + 1, parse.pos + 1)
    BY <1>4, <2>2, OneLetterMore
  <2> QED
    BY <2>1, <2>3, Zenon
<1>6. WalkOK'
  <2>1. Last(parse.starts) <= parse.pos + 1
    BY <1>4, WalkFields
  <2> QED
    BY <1>2, <1>3, <2>1, WalkFields DEF WInv, WalkOK
<1>7. SpelledAsTyped'
  BY <1>2, <1>5 DEF WInv, SpelledAsTyped, Spells
<1>8. IdsFound'
  BY <1>2 DEF WInv, IdsFound
<1>9. WholeWalk'
  BY <1>2, SpellingGoesOn DEF WInv, WholeWalk
<1> QED
  BY <1>6, <1>7, <1>8, <1>9 DEF WInv

(* Nothing fits: the walk ends where it is. *)
LEMMA NothingFits ==
    ASSUME WInv, Running(parse), parse.str \notin Spellings, NEW split \in BOOLEAN,
           split => parse.split,
           parse' = [parse EXCEPT !.split = split, !.out = TRUE]
    PROVE  WInv'
<1>1. parse \in Walks
  BY WalkFields
<1>2. /\ parse'.str = parse.str /\ parse'.pos = parse.pos /\ parse'.node = parse.node
      /\ parse'.ids = parse.ids /\ parse'.starts = parse.starts /\ parse'.split = split
      /\ parse'.out = TRUE /\ parse' \in Walks
  BY <1>1 DEF Walks
<1>3. WalkOK'
  BY <1>2 DEF WInv, WalkOK
<1>4. SpelledAsTyped'
  BY <1>2 DEF WInv, SpelledAsTyped, Spells
<1>5. IdsFound' /\ WholeWalk'
  BY <1>2 DEF WInv, IdsFound, WholeWalk
<1> QED
  BY <1>3, <1>4, <1>5 DEF WInv

(* One more separator behind a syllable moves the start of the next. *)
LEMMA SeparatorMoves ==
    ASSUME WInv, Running(parse), parse.str \notin Spellings, parse.split,
           parse.str[parse.pos + 1] \notin Letters,
           parse' = [parse EXCEPT !.pos = parse.pos + 1,
                                  !.starts[Len(parse.starts)] = parse.pos + 1]
    PROVE  WInv'
<1>0. PICK ids, starts, str, pos, nstarts :
         /\ ids = parse.ids /\ starts = parse.starts /\ str = parse.str /\ pos = parse.pos
         /\ nstarts = [parse.starts EXCEPT ![Len(parse.starts)] = parse.pos + 1]
  OBVIOUS
<1>1. /\ parse \in Walks /\ str \in Seq(Chars) /\ pos \in Nat /\ ids \in Seq(Nat)
      /\ starts \in Seq(Nat) /\ Len(starts) = Len(ids) + 1 /\ pos < Len(str)
  BY <1>0, WalkFields
<1>2. ids # <<>> /\ parse.node = <<>>
  BY <1>0 DEF WInv, WalkOK
<1>3. /\ nstarts \in Seq(Nat) /\ Len(nstarts) = Len(starts) /\ nstarts[Len(starts)] = pos + 1
      /\ \A k \in 1..Len(starts) : k # Len(starts) => nstarts[k] = starts[k]
      /\ Last(nstarts) = pos + 1 /\ Last(starts) = starts[Len(starts)]
  BY <1>0, <1>1 DEF Last
<1>4. /\ parse'.str = str /\ parse'.pos = pos + 1 /\ parse'.node = <<>> /\ parse'.ids = ids
      /\ parse'.starts = nstarts /\ parse'.split = TRUE /\ parse'.out = parse.out
      /\ parse' \in Walks
  <2>1. parse' = [parse EXCEPT !.pos = pos + 1, !.starts = nstarts]
    BY <1>0, <1>1 DEF Walks
  <2>2. pos + 1 \in Nat
    BY <1>1
  <2>3. parse' \in Walks
    BY <1>1, <1>3, <2>1, <2>2, Zenon DEF Walks
  <2>4. /\ parse'.str = parse.str /\ parse'.pos = pos + 1 /\ parse'.node = parse.node
        /\ parse'.ids = parse.ids /\ parse'.starts = nstarts /\ parse'.split = parse.split
        /\ parse'.out = parse.out
    BY <1>1, <2>1 DEF Walks
  <2>5. parse.split = TRUE
    BY <1>1 DEF Walks
  <2> QED
    BY <1>0, <1>2, <2>3, <2>4, <2>5, Zenon
<1>5. /\ starts[1] = 0 /\ <<>> = SubSeq(str, Last(starts) + 1, pos) /\ Len(ids) <= MaxIdxs
      /\ \A k \in DOMAIN ids : Syllable(k, ids, starts)
  BY <1>0, <1>2, SpelledParts, Zenon DEF WInv
<1>6. Last(starts) = pos
  <2>1. Last(starts) \in Nat /\ Last(starts) <= pos
    BY <1>0, <1>1, <1>3, SMTT(30) DEF WInv, WalkOK
  <2>2. \A a \in Nat : a <= pos /\ SubSeq(str, a + 1, pos) = <<>> => a = pos
    <3> SUFFICES ASSUME NEW a \in Nat, a <= pos, SubSeq(str, a + 1, pos) = <<>> PROVE a = pos
      OBVIOUS
    <3>1. Len(SubSeq(str, a + 1, pos)) = pos - a
      BY <1>1
    <3>2. pos - a = 0
      BY <3>1, EmptySeq, Zenon
    <3> QED
      BY <1>1, <3>2
  <2> QED
    BY <1>5, <2>1, <2>2
<1>7. str[pos + 1] = Splitter /\ str[pos + 1] \notin Letters
  BY <1>0, WalkFields DEF Chars
<1>8. \A k \in DOMAIN ids : Syllable(k, ids, nstarts)
  <2> TAKE k \in DOMAIN ids
  <2>1. k \in 1..Len(ids) /\ k \in Nat /\ k # Len(starts) /\ k \in 1..Len(starts)
        /\ k + 1 \in 1..Len(starts)
    BY <1>1
  <2>2. nstarts[k] = starts[k]
    BY <1>3, <2>1
  <2>3. CASE k + 1 # Len(starts)
    <3>1. nstarts[k + 1] = starts[k + 1]
      BY <1>3, <2>1, <2>3
    <3> QED
      BY <1>5, <2>2, <3>1 DEF Syllable
  <2>4. CASE k + 1 = Len(starts)
    <3>1. nstarts[k + 1] = pos + 1 /\ starts[k + 1] = pos
      BY <1>3, <1>6, <2>4
    <3>2. Spells(SpellingStr(ids[k]), starts[k], pos)
      BY <1>5, <3>1 DEF Syllable
    <3> DEFINE w == SpellingStr(ids[k])
    <3>3. Len(w) \in Nat /\ starts[k] \in Nat
      <4>1. Found(ids[k])
        BY <1>0 DEF WInv, IdsFound
      <4>2. w \in Seq(Letters)
        BY <4>1, IdsApart, NodesArePrefixes DEF Found
      <4> QED
        BY <1>1, <2>1, <4>2, SMTT(30)
    <3> HIDE DEF w
    <3>4. Spells(w, starts[k], pos + 1)
      <4>1. /\ starts[k] + Len(w) <= pos /\ SubSeq(str, starts[k] + 1, starts[k] + Len(w)) = w
            /\ \A i \in starts[k] + Len(w) + 1..pos : str[i] \notin Letters
        BY <1>0, <3>2 DEF Spells, w
      <4>2. starts[k] + Len(w) <= pos + 1
        <5>1. \A x \in Nat : x <= pos => x <= pos + 1
          BY <1>1
        <5>2. starts[k] + Len(w) \in Nat
          BY <3>3
        <5> QED
          BY <4>1, <5>1, <5>2, Zenon
      <4>3. \A i \in starts[k] + Len(w) + 1..pos + 1 :
               i \in starts[k] + Len(w) + 1..pos \/ i = pos + 1
        BY <1>1, <3>3
      <4>4. \A i \in starts[k] + Len(w) + 1..pos + 1 : str[i] \notin Letters
        BY <1>7, <4>1, <4>3, Zenon
      <4> QED
        BY <1>0, <4>1, <4>2, <4>4, Zenon DEF Spells
    <3> QED
      BY <1>0, <1>7, <2>2, <3>1, <3>4 DEF Syllable, w
  <2> QED
    BY <2>3, <2>4
<1>9. nstarts[1] = 0
  <2>1. Len(ids) \in Nat \ {0} /\ 1 \in 1..Len(starts) /\ 1 # Len(starts)
    BY <1>1, <1>2
  <2> QED
    BY <1>3, <1>5, <2>1
<1>10. SubSeq(str, pos + 1 + 1, pos + 1) = <<>>
  BY <1>1
<1>11. SpelledAsTyped'
  <2>1. \A k \in DOMAIN ids : Syllable(k, ids, nstarts)'
    BY <1>0, <1>4, <1>8, Zenon DEF Syllable, Spells
  <2>2. \A k \in DOMAIN parse'.ids :
           LET next == parse'.starts[k + 1]
           IN  /\ Spells(SpellingStr(parse.ids[k]), parse.starts[k], parse.starts[k + 1])'
               /\ next < Len(parse'.str) /\ parse'.str[next] # Splitter
                     /\ parse'.str[next + 1] # Splitter
                  => Append(SpellingStr(parse'.ids[k]), parse'.str[next + 1]) \notin Nodes
    BY <1>4, <2>1 DEF Syllable, Spells
  <2>3. Len(nstarts) = Len(ids) + 1
    BY <1>1, <1>3
  <2> QED
    BY <1>3, <1>4, <1>5, <1>9, <1>10, <2>2, <2>3, Zenon DEF SpelledAsTyped
<1>12. WalkOK'
  <2>1. pos + 1 <= Len(str) /\ Last(nstarts) <= pos + 1
    BY <1>1, <1>3
  <2> QED
    BY <1>0, <1>2, <1>4, <2>1, NodesArePrefixes DEF WInv, WalkOK
<1>13. IdsFound' /\ WholeWalk'
  BY <1>0, <1>4 DEF WInv, IdsFound, WholeWalk
<1> QED
  BY <1>11, <1>12, <1>13 DEF WInv

(* What PushId makes of the walk, whatever the step does to split. *)
LEMMA PushIs ==
    ASSUME WInv, Running(parse), ValidId(NodeId[parse.node]) # 0,
           NEW to \in Nat, NEW split \in BOOLEAN, NEW mid \in BOOLEAN,
           parse' = [PushId([parse EXCEPT !.split = mid], ValidId(NodeId[parse.node]), to, MaxIdxs)
                        EXCEPT !.split = split]
    PROVE  Pushed(to, split)
<1>0. PICK id : id = ValidId(NodeId[parse.node])
  OBVIOUS
<1>1. parse \in Walks /\ parse.node \in Nodes /\ parse.ids \in Seq(Nat) /\ parse.starts \in Seq(Nat)
  BY WalkFields
<1>2. id \in Nat
  BY <1>0, <1>1, ValidSpells, IdsApart DEF Found
<1>3. Append(parse.ids, id) \in Seq(Nat) /\ Append(parse.starts, to) \in Seq(Nat)
      /\ <<>> \in Seq(Letters)
  BY <1>1, <1>2
<1>4. parse' = [parse EXCEPT !.split = split, !.ids = Append(parse.ids, id),
                             !.starts = Append(parse.starts, to), !.pos = to, !.node = <<>>,
                             !.out = Len(parse.ids) + 1 >= MaxIdxs]
  BY <1>0, <1>1 DEF PushId, Walks
<1>5. parse' \in Walks
  <2>1. (Len(parse.ids) + 1 >= MaxIdxs) \in BOOLEAN
    OBVIOUS
  <2> QED
    BY <1>1, <1>3, <1>4, <2>1, Zenon DEF Walks
<1>6. /\ parse'.str = parse.str /\ parse'.pos = to /\ parse'.node = <<>>
      /\ parse'.ids = Append(parse.ids, id) /\ parse'.starts = Append(parse.starts, to)
      /\ parse'.split = split
  BY <1>1, <1>4, Zenon DEF Walks
<1>7. parse'.out = (Len(parse.ids) + 1 >= MaxIdxs)
  BY <1>1, <1>4, Zenon DEF Walks
<1> QED
  BY <1>0, <1>5, <1>6, <1>7, Zenon DEF Pushed

(* A letter: it goes on in the trie, or ends the syllable before it, or does
   not fit. *)
LEMMA LetterWalk ==
    ASSUME WInv, Running(parse), NEW c \in Letters, c = parse.str[parse.pos + 1],
           parse' = ParseLetter(parse, c, MaxIdxs)
    PROVE  WInv'
<1>0. PICK id : id = ValidId(NodeId[parse.node])
  OBVIOUS
<1>1. parse \in Walks /\ parse.pos \in Nat /\ parse.pos < Len(parse.str) /\ parse.node \in Nodes
  BY WalkFields
<1>2. CASE Append(parse.node, c) \in Nodes
  <2>1. parse' = [[parse EXCEPT !.split = FALSE] EXCEPT
                     !.node = Append([parse EXCEPT !.split = FALSE].node, c),
                     !.pos = [parse EXCEPT !.split = FALSE].pos + 1]
    BY <1>2, Zenon DEF ParseLetter
  <2>2. parse' = [parse EXCEPT !.split = FALSE, !.node = Append(parse.node, c),
                               !.pos = parse.pos + 1]
    BY <1>1, <2>1 DEF Walks
  <2> QED
    BY <1>2, <2>2, LetterGoesOn
<1>3. CASE Append(parse.node, c) \notin Nodes
  <2>1. parse.str \notin Spellings
    BY <1>3, SpellingGoesOn
  <2>2. CASE id # 0
    <3>1. parse' = PushId([parse EXCEPT !.split = FALSE], id, parse.pos, MaxIdxs)
      BY <1>0, <1>3, <2>2, Zenon DEF ParseLetter
    <3>2. parse' = [PushId([parse EXCEPT !.split = FALSE], id, parse.pos, MaxIdxs)
                       EXCEPT !.split = FALSE]
      BY <1>1, <3>1 DEF PushId, Walks
    <3>3. Pushed(parse.pos, FALSE)
      BY <1>0, <1>1, <2>2, <3>2, PushIs, Zenon
    <3>4. EndsAt(parse.pos)
      BY <1>1, <1>3 DEF EndsAt
    <3> QED
      BY <1>0, <1>1, <2>1, <2>2, <3>3, <3>4, PushKeeps, Zenon
  <2>3. CASE id = 0
    <3>1. parse' = [[parse EXCEPT !.split = FALSE] EXCEPT !.out = TRUE]
      BY <1>0, <1>3, <2>3, Zenon DEF ParseLetter
    <3>2. parse' = [parse EXCEPT !.split = FALSE, !.out = TRUE]
      BY <1>1, <3>1 DEF Walks
    <3> QED
      BY <2>1, <3>2, NothingFits
  <2> QED
    BY <2>2, <2>3
<1> QED
  BY <1>2, <1>3

(* A separator: it ends the syllable before it, or follows one that ended. *)
LEMMA SplitterWalk ==
    ASSUME WInv, Running(parse), parse.str[parse.pos + 1] \notin Letters,
           parse' = ParseSplitter(parse, MaxIdxs)
    PROVE  WInv'
<1>0. PICK id : id = ValidId(NodeId[parse.node])
  OBVIOUS
<1>1. /\ parse \in Walks /\ parse.pos \in Nat /\ parse.pos + 1 \in Nat
      /\ parse.pos + 1 <= Len(parse.str) /\ Len(parse.str) \in Nat
      /\ parse.str[parse.pos + 1] \in Chars /\ parse.split \in BOOLEAN
  BY WalkFields DEF Walks
<1>2. parse.str[parse.pos + 1] = Splitter
  BY <1>1 DEF Chars
<1>3. parse.str \notin Spellings
  BY SpellingGoesOn
<1>4. CASE id # 0
  <2>1. parse' = [PushId(parse, id, parse.pos + 1, MaxIdxs) EXCEPT !.split = TRUE]
    BY <1>0, <1>4, Zenon DEF ParseSplitter
  <2>2. parse' = [PushId([parse EXCEPT !.split = FALSE], id, parse.pos + 1, MaxIdxs)
                     EXCEPT !.split = TRUE]
    BY <1>1, <2>1 DEF PushId, Walks
  <2>3. Pushed(parse.pos + 1, TRUE)
    BY <1>0, <1>1, <1>4, <2>2, PushIs, Zenon
  <2>4. EndsAt(parse.pos + 1)
    BY <1>1, <1>2 DEF EndsAt
  <2> QED
    BY <1>0, <1>1, <1>3, <1>4, <2>3, <2>4, PushKeeps, Zenon
<1>5. CASE id = 0 /\ parse.split
  <2>1. parse' = [parse EXCEPT !.pos = parse.pos + 1,
                               !.starts[Len(parse.starts)] = parse.pos + 1]
    BY <1>0, <1>5, Zenon DEF ParseSplitter
  <2> QED
    BY <1>3, <1>5, <2>1, SeparatorMoves
<1>6. CASE id = 0 /\ ~parse.split
  <2>1. parse' = [parse EXCEPT !.out = TRUE]
    BY <1>0, <1>6, Zenon DEF ParseSplitter
  <2>2. parse' = [parse EXCEPT !.split = parse.split, !.out = TRUE]
    BY <1>1, <2>1 DEF Walks
  <2> QED
    BY <1>1, <1>3, <2>2, NothingFits
<1> QED
  BY <1>4, <1>5, <1>6

(* Every turn of the loop. *)
LEMMA NextWalk == WInv /\ [Next]_parse => WInv'
<1> SUFFICES ASSUME WInv, [Next]_parse PROVE WInv'
  OBVIOUS
<1>1. CASE Next
  <2>1. Running(parse) /\ parse' = ParseStep(parse, MaxIdxs)
    BY <1>1 DEF Next
  <2>2. CASE parse.str[parse.pos + 1] \in Letters
    <3>1. parse' = ParseLetter(parse, parse.str[parse.pos + 1], MaxIdxs)
      BY <2>1, <2>2, Zenon DEF ParseStep
    <3> QED
      BY <2>1, <2>2, <3>1, LetterWalk, Zenon
  <2>3. CASE parse.str[parse.pos + 1] \notin Letters
    <3>1. parse' = ParseSplitter(parse, MaxIdxs)
      BY <2>1, <2>3, Zenon DEF ParseStep
    <3> QED
      BY <2>1, <2>3, <3>1, SplitterWalk, Zenon
  <2> QED
    BY <2>2, <2>3
<1>2. CASE UNCHANGED parse
  BY <1>2, Zenon DEF WInv, WalkOK, SpelledAsTyped, Spells, IdsFound, WholeWalk
<1> QED
  BY <1>1, <1>2

(* At every turn of the loop. *)
THEOREM WalkInductive == Spec => []WInv
BY InitWalk, NextWalk, PTL DEF Spec

(* No letter is lost or read twice, and the parser is greedy: what was found
   so far spells what was typed so far. *)
THEOREM SpelledCorrect == Spec => []SpelledAsTyped
<1>1. WInv => SpelledAsTyped
  BY DEF WInv
<1> QED
  BY <1>1, WalkInductive, PTL

(* Half ids and full ids agree both ways. *)
LEMMA HalvesAgree ==
    ASSUME NEW id, Found(id)
    PROVE  /\ Matches(id) # {}
           /\ IsHalfId(id) => \A full \in FullIds :
                 /\ full \in Matches(id) <=> IsPrefix(SpellingStr(id), SpellingStr(full))
                 /\ HalfFullCompatible(id, full) <=> full \in Matches(id)
<1>1. CASE IsHalfId(id)
  <2>1. Matches(id) = FullsUnder(HalfNames[id]) /\ Matches(id) # {} /\ id \in DOMAIN HalfNames
    BY <1>1, HalfMatches
  <2>2. SpellingStr(id) = HalfNames[id]
    BY <2>1, IdsApart
  <2>3. \A full \in FullIds : full \in Matches(id) <=> IsPrefix(SpellingStr(id), SpellingStr(full))
    BY <2>1, <2>2, Zenon DEF FullsUnder
  <2>4. \A full \in FullIds : HalfFullCompatible(id, full) <=> full \in Matches(id)
    BY <1>1, CompatibleExact, Zenon
  <2> QED
    BY <2>1, <2>3, <2>4, Zenon
<1>2. CASE ~IsHalfId(id)
  BY <1>2, Zenon DEF Matches
<1> QED
  BY <1>1, <1>2

(* A spelling that was walked to its end is one syllable. *)
LEMMA SpellingEnds ==
    ASSUME WInv, ~Running(parse), parse.str \in Spellings
    PROVE  LET r == ParseEnd(parse, MaxIdxs)
           IN  /\ Len(r.ids) = 1 /\ r.starts = <<0, Len(parse.str)>>
               /\ \E id \in Matches(r.ids[1]) : SpellingStr(id) = parse.str
<1>0. PICK str, id : str = parse.str /\ id = ValidId(NodeId[str])
  OBVIOUS
<1>1. /\ parse \in Walks /\ parse.pos <= Len(str) /\ ~parse.out /\ parse.ids = <<>>
      /\ parse.starts = <<0>> /\ parse.node = SubSeq(str, 1, parse.pos)
  BY <1>0, Zenon DEF WInv, WalkOK, WholeWalk
<1>2. str \in Seq(Letters) /\ parse.pos \in Nat /\ Len(str) \in Nat
  BY <1>0, <1>1, NodesArePrefixes DEF Walks
<1>3. parse.pos = Len(str)
  BY <1>0, <1>1, <1>2 DEF Running
<1>4. parse.node = str
  BY <1>1, <1>2, <1>3, SubSeqFull, Zenon
<1>5. id # 0 /\ \E full \in Matches(id) : SpellingStr(full) = str
  BY <1>0, SpellingValid, Zenon
<1>6. ParseEnd(parse, MaxIdxs)
        = [ids |-> PushId(parse, id, parse.pos, MaxIdxs).ids,
           starts |-> PushId(parse, id, parse.pos, MaxIdxs).starts, pre |-> ~parse.split]
  BY <1>0, <1>1, <1>4, <1>5, Zenon DEF ParseEnd
<1>7. /\ PushId(parse, id, parse.pos, MaxIdxs).ids = Append(parse.ids, id)
      /\ PushId(parse, id, parse.pos, MaxIdxs).starts = Append(parse.starts, parse.pos)
  BY <1>1 DEF PushId, Walks
<1>8. Append(parse.ids, id) = <<id>> /\ Append(parse.starts, parse.pos) = <<0, Len(str)>>
  <2>1. id \in Nat
    BY <1>0, <1>5, NodesArePrefixes, ValidSpells, IdsApart DEF Found
  <2>2. \A i, n \in Nat : Append(<<>>, i) = <<i>> /\ Append(<<0>>, n) = <<0, n>>
    <3> SUFFICES ASSUME NEW i \in Nat, NEW n \in Nat
                 PROVE  Append(<<>>, i) = <<i>> /\ Append(<<0>>, n) = <<0, n>>
      OBVIOUS
    <3>1. <<>> \in Seq(Nat) /\ <<i>> \in Seq(Nat) /\ <<0>> \in Seq(Nat) /\ <<0, n>> \in Seq(Nat)
      OBVIOUS
    <3>2. Append(<<>>, i) = <<i>>
      <4> DEFINE one == Append(<<>>, i)
      <4>1. one \in Seq(Nat) /\ Len(one) = 1 /\ one[1] = i
        BY <3>1, AppendProperties
      <4> HIDE DEF one
      <4> QED
        BY <3>1, <4>1, SeqEqual DEF one
    <3>3. Append(<<0>>, n) = <<0, n>>
      <4> DEFINE two == Append(<<0>>, n)
      <4>1. two \in Seq(Nat) /\ Len(two) = 2 /\ two[1] = 0 /\ two[2] = n
        BY <3>1, AppendProperties
      <4> HIDE DEF two
      <4>2. Len(two) = Len(<<0, n>>) /\ \A k \in 1..Len(two) : two[k] = <<0, n>>[k]
        BY <4>1
      <4>3. two = <<0, n>>
        BY <3>1, <4>1, <4>2, SeqEqual, Zenon
      <4> QED
        BY <4>3 DEF two
    <3> QED
      BY <3>2, <3>3
  <2> QED
    BY <1>1, <1>2, <1>3, <2>1, <2>2, Zenon
<1>9. /\ ParseEnd(parse, MaxIdxs).ids = <<id>>
      /\ ParseEnd(parse, MaxIdxs).starts = <<0, Len(str)>>
  BY <1>6, <1>7, <1>8
<1>10. Len(<<id>>) = 1 /\ <<id>>[1] = id
  OBVIOUS
<1> QED
  BY <1>0, <1>5, <1>9, <1>10, Zenon

(* A spelling parses to one id that stands for it, and half and full ids
   agree both ways. *)
THEOREM IdsCorrect == Spec => []IdsStandForTyped
<1>1. WInv => IdsStandForTyped
  <2> SUFFICES ASSUME WInv PROVE IdsStandForTyped
    OBVIOUS
  <2>1. \A id \in Range(parse.ids) : Found(id)
    BY Zenon DEF WInv, IdsFound, Range
  <2>2. ~Running(parse) /\ parse.str \in Spellings =>
          LET r == ParseEnd(parse, MaxIdxs)
          IN  /\ Len(r.ids) = 1 /\ r.starts = <<0, Len(parse.str)>>
              /\ \E id \in Matches(r.ids[1]) : SpellingStr(id) = parse.str
    BY SpellingEnds, Zenon
  <2>3. \A id \in Range(parse.ids) :
          /\ Matches(id) # {}
          /\ IsHalfId(id) => \A full \in FullIds :
                /\ full \in Matches(id) <=> IsPrefix(SpellingStr(id), SpellingStr(full))
                /\ HalfFullCompatible(id, full) <=> full \in Matches(id)
    BY <2>1, HalvesAgree, Zenon
  <2> QED
    BY <2>2, <2>3, Zenon DEF IdsStandForTyped
<1> QED
  BY <1>1, WalkInductive, PTL
=============================================================================
