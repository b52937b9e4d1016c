------------------------ MODULE UserDictOrderProofs -------------------------
(***************************************************************************)
(* Proofs about the lists of UserDict: the index stays sorted, the         *)
(* prediction list mirrors it, and ids lead to the entries they stand for. *)
(*                                                                         *)
(* All three are about the lists in memory, but a restart takes them from  *)
(* the file, so the invariant Kept says the same of the segments there.    *)
(***************************************************************************)
EXTENDS UserDictProofs

Entry == [off : Nat, rm : BOOLEAN, score : Score, id : Nat]

-----------------------------------------------------------------------------
(* Putting an element into a list. *)

(* List r is s with e at place p. *)
Placed(r, s, p, e) ==
    /\ p \in 1..Len(s) + 1
    /\ Len(r) = Len(s) + 1
    /\ r[p] = e
    /\ \A j \in 1..p - 1 : r[j] = s[j]
    /\ \A j \in p + 1..Len(s) + 1 : r[j] = s[j - 1]

(* Where the element at place j of the longer list was before, and where the
   element at place i of the shorter one goes. *)
Old(p, j) == IF j < p THEN j ELSE j - 1
Shifted(p, i) == IF i < p THEN i ELSE i + 1

(* InsertAt puts the element somewhere, and at k if k is a place of the list. *)
LEMMA InsertAtPlaces ==
    ASSUME NEW S, NEW s \in Seq(S), NEW k, NEW e \in S
    PROVE  \E p : Placed(InsertAt(s, k, e), s, p, e) /\ (k \in 1..Len(s) + 1 => p = k)
  <1>0. Len(s) \in Nat /\ \A i \in 1..Len(s) : s[i] \in S
    BY LenProperties, ElementOfSeq
  <1>1. CASE k \in 1..Len(s)
    <2> DEFINE f == [j \in 1..Len(s) + 1 |-> IF j < k THEN s[j] ELSE IF j = k THEN e ELSE s[j - 1]]
    <2>1. f \in [1..Len(s) + 1 -> S]
      BY <1>0, <1>1
    <2>2. /\ k \in 1..Len(s) + 1 /\ f[k] = e
          /\ \A j \in 1..k - 1 : f[j] = s[j]
          /\ \A j \in k + 1..Len(s) + 1 : f[j] = s[j - 1]
      BY <1>0, <1>1
    <2>3. Len(f) = Len(s) + 1
      <3> HIDE DEF f
      <3> QED BY <2>1, <1>0, FcnIsSeq
    <2>4. InsertAt(s, k, e) = f
      BY <1>1 DEF InsertAt
    <2> HIDE DEF f
    <2>5. Placed(f, s, k, e)
      BY <2>2, <2>3 DEF Placed
    <2> QED BY <2>4, <2>5
  <1>2. CASE k \notin 1..Len(s)
    <2> DEFINE n == Len(s)
               r == Append(s, e)
    <2>1. InsertAt(s, k, e) = r
      BY <1>2 DEF InsertAt
    <2>2. Len(r) = n + 1 /\ r[n + 1] = e /\ \A j \in 1..n : r[j] = s[j]
      BY <1>0, AppendProperties
    <2>3. k \in 1..n + 1 => n + 1 = k
      BY <1>0, <1>2
    <2> HIDE DEF r
    <2>4. n + 1 \in 1..n + 1 /\ (\A j \in 1..(n + 1) - 1 : j \in 1..n) /\ (n + 1) + 1..n + 1 = {}
      BY <1>0
    <2>5. Placed(r, s, n + 1, e)
      BY <2>2, <2>4 DEF Placed
    <2> QED BY <2>1, <2>3, <2>5
  <1> QED BY <1>1, <1>2

(* Every other element was in the list before, in the same order. *)
LEMMA PlacedOld ==
    ASSUME NEW r, NEW s, NEW p, NEW e, Placed(r, s, p, e), Len(s) \in Nat
    PROVE  /\ \A j \in 1..Len(s) + 1 : j # p => Old(p, j) \in 1..Len(s) /\ r[j] = s[Old(p, j)]
           /\ \A i, j \in 1..Len(s) + 1 : i # p /\ j # p =>
                 /\ i < j <=> Old(p, i) < Old(p, j)
                 /\ i = j <=> Old(p, i) = Old(p, j)
           /\ \A i \in 1..Len(s) : /\ Shifted(p, i) \in 1..Len(s) + 1
                                   /\ Shifted(p, i) # p
                                   /\ r[Shifted(p, i)] = s[i]
  <1>1. /\ p \in 1..Len(s) + 1
        /\ \A j \in 1..p - 1 : r[j] = s[j]
        /\ \A j \in p + 1..Len(s) + 1 : r[j] = s[j - 1]
    BY DEF Placed
  <1>2. ASSUME NEW j \in 1..Len(s) + 1, j # p
        PROVE  Old(p, j) \in 1..Len(s) /\ r[j] = s[Old(p, j)]
    BY <1>1, <1>2 DEF Old
  <1>3. ASSUME NEW i \in 1..Len(s) + 1, NEW j \in 1..Len(s) + 1, i # p, j # p
        PROVE  (i < j <=> Old(p, i) < Old(p, j)) /\ (i = j <=> Old(p, i) = Old(p, j))
    BY <1>1, <1>3 DEF Old
  <1>4. ASSUME NEW i \in 1..Len(s)
        PROVE  Shifted(p, i) \in 1..Len(s) + 1 /\ Shifted(p, i) # p /\ r[Shifted(p, i)] = s[i]
    BY <1>1 DEF Shifted
  <1> QED BY <1>2, <1>3, <1>4

-----------------------------------------------------------------------------
(* The invariant.  ix is the index of an object or the offset segment of a
   file; what is said here takes nothing but the fields off and rm from it. *)

Distinct(ix) == \A i, j \in 1..Len(ix) : i # j => ix[i].off # ix[j].off

Mirrors(preds, ix) ==
    /\ \A k \in 1..Len(ix) : \E j \in 1..Len(preds) :
          preds[j].off = ix[k].off /\ preds[j].rm = ix[k].rm
    /\ \A j \in 1..Len(preds) : \E k \in 1..Len(ix) :
          preds[j].off = ix[k].off /\ preds[j].rm = ix[k].rm

Sorted(block, ix) ==
    \A i, j \in 1..Len(ix) :
        i < j => ~Below(Key(block[ix[j].off].spl), Key(block[ix[i].off].spl))

Orderly(block, ix, preds) ==
    Distinct(ix) /\ Distinct(preds) /\ Mirrors(preds, ix) /\ Sorted(block, ix)

IdsAgree(index, by_id) ==
    \A k \in 1..Len(index) :
        /\ by_id[index[k].id] = index[k].off
        /\ \A j \in 1..Len(index) : j # k => index[j].id # index[k].id

Kept(dict, f) ==
    /\ Good(dict, f)
    /\ Orderly(dict.block, dict.index, dict.preds)
    /\ IdsAgree(dict.index, dict.by_id)
    /\ Orderly(f.block, f.offs, f.preds)

(* What two lists with the same offsets and flags have in common. *)
LEMMA OrderlySame ==
    ASSUME NEW block, NEW ix, NEW ix2, NEW preds, Orderly(block, ix, preds), Len(ix2) = Len(ix),
           \A k \in 1..Len(ix) : ix2[k].off = ix[k].off /\ ix2[k].rm = ix[k].rm
    PROVE  Orderly(block, ix2, preds)
  <1>1. Distinct(ix2) /\ Distinct(preds)
    BY DEF Orderly, Distinct
  <1>2. Mirrors(preds, ix2)
    BY DEF Orderly, Mirrors
  <1>3. Sorted(block, ix2)
    BY DEF Orderly, Sorted
  <1> QED BY <1>1, <1>2, <1>3 DEF Orderly

(* The types that are needed of a good object, its record written out. *)
LEMMA GoodTypes ==
    ASSUME NEW dict, NEW f, Good(dict, f)
    PROVE  /\ dict.block \in Seq(Lemmas) /\ dict.index \in Seq(Entry) /\ dict.by_id \in Seq(Nat)
           /\ dict.preds \in Seq(Flagged) /\ dict.syncs \in Seq(Nat) /\ dict.left \in 0..PreAlloc
           /\ Len(dict.index) \in Nat /\ Len(dict.block) = Len(dict.index)
           /\ Len(dict.preds) = Len(dict.index) /\ Len(dict.by_id) = Len(dict.index)
           /\ \A k \in 1..Len(dict.index) :
                 /\ dict.index[k] \in Entry /\ dict.block[k] \in Lemmas /\ dict.preds[k] \in Flagged
                 /\ dict.index[k].off \in 1..Len(dict.index)
                 /\ dict.index[k].id \in 1..Len(dict.index)
                 /\ dict.by_id[k] \in 1..Len(dict.index)
                 /\ dict.preds[k].off \in 1..Len(dict.index)
           /\ dict = [state |-> dict.state, block |-> dict.block, index |-> dict.index,
                      by_id |-> dict.by_id, preds |-> dict.preds, syncs |-> dict.syncs,
                      left |-> dict.left, limit |-> dict.limit,
                      free_count |-> dict.free_count,
                      hits |-> dict.hits, misses |-> dict.misses]
  <1>1. /\ dict.block \in Seq(Lemmas) /\ dict.index \in Seq(Entry) /\ dict.by_id \in Seq(Nat)
        /\ dict.preds \in Seq(Flagged) /\ dict.syncs \in Seq(Nat) /\ dict.left \in 0..PreAlloc
        /\ dict = [state |-> dict.state, block |-> dict.block, index |-> dict.index,
                   by_id |-> dict.by_id, preds |-> dict.preds, syncs |-> dict.syncs,
                   left |-> dict.left, limit |-> dict.limit, free_count |-> dict.free_count,
                   hits |-> dict.hits, misses |-> dict.misses]
    BY DEF Good, DictOK, DictTypes, Entry
  <1>2. Len(dict.index) \in Nat /\ InRange(dict)
    BY <1>1, LenProperties DEF Good, DictOK
  <1>3. /\ Len(dict.block) = Len(dict.index)
        /\ Len(dict.preds) = Len(dict.index) /\ Len(dict.by_id) = Len(dict.index)
    BY <1>2 DEF InRange
  <1>4. \A k \in 1..Len(dict.index) :
          dict.index[k] \in Entry /\ dict.block[k] \in Lemmas /\ dict.preds[k] \in Flagged
    BY <1>1, <1>3, ElementOfSeq
  <1>5. \A k \in 1..Len(dict.index) :
          /\ dict.index[k].off \in 1..Len(dict.index) /\ dict.index[k].id \in 1..Len(dict.index)
          /\ dict.by_id[k] \in 1..Len(dict.index) /\ dict.preds[k].off \in 1..Len(dict.index)
    BY <1>2, <1>3 DEF InRange
  <1> QED BY <1>1, <1>2, <1>3, <1>4, <1>5

-----------------------------------------------------------------------------
(* What each function leaves in the lists. *)

(* A new score for the entry at position k. *)
LEMMA ScoreFields ==
    ASSUME NEW dict, NEW f, Good(dict, f), NEW k \in 1..Len(dict.index), NEW score
    PROVE  LET r == Scored(dict, k, score)
           IN  /\ r.block = dict.block /\ r.by_id = dict.by_id /\ r.preds = dict.preds
               /\ r.hits = dict.hits /\ r.misses = dict.misses
               /\ Len(r.index) = Len(dict.index)
               /\ \A j \in 1..Len(dict.index) :
                     /\ r.index[j].off = dict.index[j].off /\ r.index[j].rm = dict.index[j].rm
                     /\ r.index[j].id = dict.index[j].id
                     /\ j = k => r.index[j].score = score
                     /\ j # k => r.index[j].score = dict.index[j].score
  <1> DEFINE n == Len(dict.index)
             e == [dict.index[k] EXCEPT !.score = score]
             index == [dict.index EXCEPT ![k] = e]
             r == Scored(dict, k, score)
  <1>1. /\ dict.index \in Seq(Entry) /\ n \in Nat
        /\ \A j \in 1..n : dict.index[j] \in Entry
        /\ dict = [state |-> dict.state, block |-> dict.block, index |-> dict.index,
                   by_id |-> dict.by_id, preds |-> dict.preds, syncs |-> dict.syncs,
                   left |-> dict.left, limit |-> dict.limit, free_count |-> dict.free_count,
                   hits |-> dict.hits, misses |-> dict.misses]
    BY GoodTypes
  <1>2. /\ r.block = dict.block /\ r.by_id = dict.by_id /\ r.preds = dict.preds
        /\ r.hits = dict.hits /\ r.misses = dict.misses /\ r.index = index
    BY <1>1 DEF Scored
  <1>3. /\ e.off = dict.index[k].off /\ e.rm = dict.index[k].rm /\ e.id = dict.index[k].id
        /\ e.score = score
    BY <1>1 DEF Entry
  <1>4. /\ DOMAIN index = 1..n
        /\ \A j \in 1..n : index[j] = IF j = k THEN e ELSE dict.index[j]
    <2>1. DOMAIN dict.index = 1..n
      BY <1>1, LenProperties
    <2> HIDE DEF e, n
    <2> QED BY <2>1
  <1>5. Len(index) = n
    <2> DEFINE V == {index[j] : j \in 1..n}
    <2>1. index \in [1..n -> V]
      BY <1>4
    <2> HIDE DEF index, n, V
    <2> QED BY <1>1, <2>1, FcnIsSeq
  <1> HIDE DEF r, e, index
  <1>6. \A j \in 1..n : /\ index[j].off = dict.index[j].off /\ index[j].rm = dict.index[j].rm
                        /\ index[j].id = dict.index[j].id
                        /\ j = k => index[j].score = score
                        /\ j # k => index[j].score = dict.index[j].score
    BY <1>3, <1>4
  <1>7. /\ r.block = dict.block /\ r.by_id = dict.by_id /\ r.preds = dict.preds
        /\ r.hits = dict.hits /\ r.misses = dict.misses
        /\ Len(r.index) = n
        /\ \A j \in 1..n :
              /\ r.index[j].off = dict.index[j].off /\ r.index[j].rm = dict.index[j].rm
              /\ r.index[j].id = dict.index[j].id
              /\ j = k => r.index[j].score = score
              /\ j # k => r.index[j].score = dict.index[j].score
    BY <1>2, <1>5, <1>6, Zenon
  <1> QED BY <1>7, Zenon DEF r, n

(* queue_lemma_for_sync touches the queue only. *)
LEMMA QueueFields ==
    ASSUME NEW dict, NEW f, Good(dict, f), NEW id
    PROVE  LET r == QueueLemmaForSync(dict, id)
           IN  /\ r.block = dict.block /\ r.index = dict.index /\ r.by_id = dict.by_id
               /\ r.preds = dict.preds /\ r.hits = dict.hits /\ r.misses = dict.misses
  <1>1. dict = [state |-> dict.state, block |-> dict.block, index |-> dict.index,
                by_id |-> dict.by_id, preds |-> dict.preds, syncs |-> dict.syncs,
                left |-> dict.left, limit |-> dict.limit, free_count |-> dict.free_count,
                hits |-> dict.hits, misses |-> dict.misses]
    BY GoodTypes
  <1> QED BY <1>1 DEF QueueLemmaForSync

(* get_lpis touches the caches only. *)
LEMMA GetLpisFields ==
    ASSUME NEW dict, NEW f, Good(dict, f), NEW q, NEW max
    PROVE  LET r == GetLpis(dict, q, max)
           IN  /\ r.block = dict.block /\ r.index = dict.index /\ r.by_id = dict.by_id
               /\ r.preds = dict.preds
  <1>1. dict = [state |-> dict.state, block |-> dict.block, index |-> dict.index,
                by_id |-> dict.by_id, preds |-> dict.preds, syncs |-> dict.syncs,
                left |-> dict.left, limit |-> dict.limit, free_count |-> dict.free_count,
                hits |-> dict.hits, misses |-> dict.misses]
    BY GoodTypes
  <1> DEFINE r == GetLpis(dict, q, max)
  <1>2. \/ r = dict
        \/ \E hits : r = [dict EXCEPT !.hits = hits]
        \/ \E misses : r = [dict EXCEPT !.misses = misses]
    BY DEF GetLpis
  <1> HIDE DEF r
  <1>3. /\ r.block = dict.block /\ r.index = dict.index /\ r.by_id = dict.by_id
        /\ r.preds = dict.preds
    BY <1>1, <1>2
  <1> QED BY <1>3 DEF r

(* remove_lemma_by_offset_index sets the flag in both lists. *)
LEMMA RemoveFields ==
    ASSUME NEW dict, NEW f, Good(dict, f), NEW k \in 1..Len(dict.index)
    PROVE  LET r == RemoveLemmaByOffsetIndex(dict, k)
           IN  /\ r.block = dict.block /\ r.by_id = dict.by_id
               /\ r.hits = dict.hits /\ r.misses = dict.misses
               /\ Len(r.index) = Len(dict.index) /\ Len(r.preds) = Len(dict.preds)
               /\ \A j \in 1..Len(dict.index) :
                     /\ r.index[j].off = dict.index[j].off /\ r.index[j].id = dict.index[j].id
                     /\ r.index[j].score = dict.index[j].score
                     /\ j = k => r.index[j].rm = TRUE
                     /\ j # k => r.index[j].rm = dict.index[j].rm
               /\ \A j \in 1..Len(dict.preds) :
                     /\ r.preds[j].off = dict.preds[j].off
                     /\ dict.preds[j].off = dict.index[k].off => r.preds[j].rm = TRUE
                     /\ dict.preds[j].off # dict.index[k].off => r.preds[j].rm = dict.preds[j].rm
  <1> DEFINE n == Len(dict.index)
             e == [dict.index[k] EXCEPT !.rm = TRUE]
             index == [dict.index EXCEPT ![k] = e]
             preds == RemoveFromPredictList(dict.preds, dict.index[k].off)
             r == RemoveLemmaByOffsetIndex(dict, k)
  <1>1. /\ dict.index \in Seq(Entry) /\ n \in Nat /\ Len(dict.preds) = n
        /\ dict.preds \in Seq(Flagged)
        /\ \A j \in 1..n : dict.index[j] \in Entry /\ dict.preds[j] \in Flagged
        /\ dict = [state |-> dict.state, block |-> dict.block, index |-> dict.index,
                   by_id |-> dict.by_id, preds |-> dict.preds, syncs |-> dict.syncs,
                   left |-> dict.left, limit |-> dict.limit, free_count |-> dict.free_count,
                   hits |-> dict.hits, misses |-> dict.misses]
    BY GoodTypes
  <1>2. /\ r.block = dict.block /\ r.by_id = dict.by_id /\ r.preds = preds
        /\ r.hits = dict.hits /\ r.misses = dict.misses /\ r.index = index
    BY <1>1 DEF RemoveLemmaByOffsetIndex
  <1>3. /\ e \in Entry /\ e.off = dict.index[k].off /\ e.rm = TRUE /\ e.id = dict.index[k].id
        /\ e.score = dict.index[k].score
    BY <1>1 DEF Entry
  <1> HIDE DEF e, r
  <1>4. /\ Len(index) = n
        /\ \A j \in 1..n : index[j] = IF j = k THEN e ELSE dict.index[j]
    BY <1>1, <1>3, ExceptSeq
  <1> HIDE DEF index
  <1>5. \A j \in 1..n : /\ index[j].off = dict.index[j].off
                        /\ j = k => index[j].rm = TRUE
                        /\ j # k => index[j].rm = dict.index[j].rm
                        /\ index[j].id = dict.index[j].id
                        /\ index[j].score = dict.index[j].score
    BY <1>3, <1>4
  <1>6. /\ Len(preds) = n
        /\ \A j \in 1..n :
              /\ preds[j].off = dict.preds[j].off
              /\ dict.preds[j].off = dict.index[k].off => preds[j].rm = TRUE
              /\ dict.preds[j].off # dict.index[k].off => preds[j].rm = dict.preds[j].rm
    <2>1. Len(preds) = n
      BY <1>1, RemoveFromPredictListTyped
    <2>2. \A j \in 1..n :
              /\ preds[j].off = dict.preds[j].off
              /\ dict.preds[j].off = dict.index[k].off => preds[j].rm = TRUE
              /\ dict.preds[j].off # dict.index[k].off => preds[j].rm = dict.preds[j].rm
      BY <1>1 DEF RemoveFromPredictList, Flagged
    <2> QED BY <2>1, <2>2
  <1> HIDE DEF preds
  <1>7. /\ r.block = dict.block /\ r.by_id = dict.by_id
        /\ r.hits = dict.hits /\ r.misses = dict.misses
        /\ Len(r.index) = n /\ Len(r.preds) = Len(dict.preds)
        /\ \A j \in 1..n :
              /\ r.index[j].off = dict.index[j].off /\ r.index[j].id = dict.index[j].id
              /\ r.index[j].score = dict.index[j].score
              /\ j = k => r.index[j].rm = TRUE
              /\ j # k => r.index[j].rm = dict.index[j].rm
        /\ \A j \in 1..Len(dict.preds) :
              /\ r.preds[j].off = dict.preds[j].off
              /\ dict.preds[j].off = dict.index[k].off => r.preds[j].rm = TRUE
              /\ dict.preds[j].off # dict.index[k].off => r.preds[j].rm = dict.preds[j].rm
    BY <1>1, <1>2, <1>4, <1>5, <1>6, Zenon
  <1> QED BY <1>7, Zenon DEF r, n

(* A lemma is a string of full ids, and comparing at a position compares its
   key. *)
LEMMA LemmaSpells ==
    ASSUME NEW w \in Lemmas
    PROVE  w.spl \in Seq(DOMAIN SplInitial)
  <1>1. w.spl \in Seq(DOMAIN SplInitial \ DOMAIN HalfToFull)
    BY LemmasAssumption
  <1>2. Len(w.spl) \in Nat /\ \A i \in 1..Len(w.spl) : w.spl[i] \in DOMAIN SplInitial
    BY <1>1, LenProperties, ElementOfSeq
  <1>3. w.spl = [i \in 1..Len(w.spl) |-> w.spl[i]]
    BY <1>1, LenProperties
  <1>4. w.spl \in [1..Len(w.spl) -> DOMAIN SplInitial]
    BY <1>2, <1>3
  <1> QED BY <1>2, <1>4, FcnIsSeq

(* The comparison of an indexed lemma with a key is their order. *)
LEMMA CompareAtExact ==
    ASSUME NEW block, NEW ix, NEW k, block[ix[k].off] \in Lemmas, NEW s, IsSearchable(s)
    PROVE  LET a == Key(block[ix[k].off].spl)
               c == CompareAt(block, ix, k, s)
           IN  /\ c \in {-1, 0, 1}
               /\ c = -1 <=> Below(a, s.sig)
               /\ c = 1 <=> Below(s.sig, a)
               /\ c = 0 <=> a = s.sig
  <1> DEFINE spl == block[ix[k].off].spl
  <1>1. CompareAt(block, ix, k, s) = FuzzyCompare(spl, Len(spl), s)
    BY DEF CompareAt, LemmaAt
  <1>2. spl \in Seq(DOMAIN SplInitial)
    BY LemmaSpells
  <1> HIDE DEF spl
  <1>3. LET c == FuzzyCompare(spl, Len(spl), s)
        IN  /\ c \in {-1, 0, 1}
            /\ c = -1 <=> Below(Key(spl), s.sig)
            /\ c = 1 <=> Below(s.sig, Key(spl))
            /\ c = 0 <=> Key(spl) = s.sig
    BY <1>2, CompareExact
  <1> QED BY <1>1, <1>3 DEF spl

(* The insertion point: everything before it is smaller, the entry that is
   there, if any, is not. *)
LEMMA InsertPositionIs ==
    ASSUME NEW block, NEW ix, Len(ix) \in Nat, \A k \in 1..Len(ix) : block[ix[k].off] \in Lemmas,
           NEW w \in Lemmas
    PROVE  LET p == InsertPosition(block, ix, w)
           IN  /\ p \in 1..Len(ix) + 1
               /\ \A j \in 1..p - 1 : Below(Key(block[ix[j].off].spl), Key(w.spl))
               /\ p \in 1..Len(ix) => ~Below(Key(block[ix[p].off].spl), Key(w.spl))
  <1> DEFINE s == Searchable(w.spl)
             notsmaller == {k \in 1..Len(ix) : CompareAt(block, ix, k, s) >= 0}
             p == InsertPosition(block, ix, w)
  <1>1. IsSearchable(s) /\ s.sig = Key(w.spl)
    BY LemmaSpells, SearchableTyped
  <1>2. p = IF notsmaller = {} THEN Len(ix) + 1 ELSE Least(notsmaller)
    BY DEF InsertPosition
  <1> HIDE DEF s, p
  <1>3. \A k \in 1..Len(ix) : k \in notsmaller <=> ~Below(Key(block[ix[k].off].spl), Key(w.spl))
    <2>0. TAKE k \in 1..Len(ix)
    <2> DEFINE c == CompareAt(block, ix, k, s)
    <2>1. block[ix[k].off] \in Lemmas
      OBVIOUS
    <2>2. c \in {-1, 0, 1} /\ (c = -1 <=> Below(Key(block[ix[k].off].spl), s.sig))
      BY <1>1, <2>1, CompareAtExact, Zenon
    <2>3. c >= 0 <=> c # -1
      BY <2>2
    <2> QED BY <1>1, <2>2, <2>3
  <1>4. notsmaller \in SUBSET Nat /\ notsmaller \subseteq 1..Len(ix)
    OBVIOUS
  <1> HIDE DEF notsmaller
  <1>5. CASE notsmaller = {}
    <2>1. p = Len(ix) + 1 /\ \A j \in 1..p - 1 : j \in 1..Len(ix) /\ j \notin notsmaller
      BY <1>2, <1>5
    <2>2. p \in 1..Len(ix) + 1 /\ p \notin 1..Len(ix)
      BY <2>1
    <2>3. \A j \in 1..p - 1 : Below(Key(block[ix[j].off].spl), Key(w.spl))
      BY <1>3, <2>1
    <2> QED BY <2>2, <2>3 DEF p
  <1>6. CASE notsmaller # {}
    <2>1. p \in notsmaller /\ \A j \in notsmaller : p <= j
      BY <1>2, <1>4, <1>6, LeastIn
    <2>2. p \in 1..Len(ix) /\ p \in 1..Len(ix) + 1
      BY <1>4, <2>1
    <2>3. \A j \in 1..p - 1 : j \in 1..Len(ix) /\ ~(p <= j)
      BY <2>2
    <2>4. \A j \in 1..p - 1 : Below(Key(block[ix[j].off].spl), Key(w.spl))
      BY <1>3, <2>1, <2>3
    <2> QED BY <1>3, <2>1, <2>2, <2>4 DEF p
  <1> QED BY <1>5, <1>6

(* append_a_lemma: the new lemma at the end of the block and at its place in
   each list, and empty caches. *)
LEMMA AppendFields ==
    ASSUME NEW dict, NEW f, Good(dict, f), dict.left # 0, NEW w \in Lemmas, NEW score \in Score
    PROVE  LET r == AppendALemma(dict, w, score)
               n == Len(dict.index)
           IN  /\ r.block \in Seq(Lemmas) /\ Len(r.block) = n + 1 /\ r.block[n + 1] = w
               /\ \A i \in 1..n : r.block[i] = dict.block[i]
               /\ r.by_id[n + 1] = n + 1 /\ \A i \in 1..n : r.by_id[i] = dict.by_id[i]
               /\ Placed(r.index, dict.index, InsertPosition(r.block, dict.index, w),
                         [off |-> n + 1, rm |-> FALSE, score |-> score, id |-> n + 1])
               /\ \E p : Placed(r.preds, dict.preds, p, [off |-> n + 1, rm |-> FALSE])
               /\ r.hits = NoCache /\ r.misses = NoCache
  <1> DEFINE n     == Len(dict.index)
             block == Append(dict.block, w)
             e     == [off |-> Len(dict.block) + 1, rm |-> FALSE, score |-> score, id |-> NewId(dict)]
             at    == InsertPosition(block, dict.index, w)
             index == InsertAt(dict.index, at, e)
             p     == [off |-> Len(dict.block) + 1, rm |-> FALSE]
             pat   == PredictInsertPoint(block, index, w.str) + 1
             preds == InsertAt(dict.preds, pat, p)
             by_id == Append(dict.by_id, Len(dict.block) + 1)
             r     == AppendALemma(dict, w, score)
  <1>1. /\ dict.block \in Seq(Lemmas) /\ dict.index \in Seq(Entry) /\ dict.by_id \in Seq(Nat)
        /\ dict.preds \in Seq(Flagged) /\ n \in Nat /\ Len(dict.block) = n
        /\ Len(dict.preds) = n /\ Len(dict.by_id) = n
        /\ \A k \in 1..n : dict.block[k] \in Lemmas /\ dict.index[k].off \in 1..n
        /\ dict = [state |-> dict.state, block |-> dict.block, index |-> dict.index,
                   by_id |-> dict.by_id, preds |-> dict.preds, syncs |-> dict.syncs,
                   left |-> dict.left, limit |-> dict.limit, free_count |-> dict.free_count,
                   hits |-> dict.hits, misses |-> dict.misses]
    BY GoodTypes
  <1>2. /\ r.block = block /\ r.index = index /\ r.by_id = by_id /\ r.preds = preds
        /\ r.hits = NoCache /\ r.misses = NoCache
    <2> HIDE DEF n
    <2> QED BY <1>1 DEF AppendALemma, CacheInit
  <1>3. /\ e = [off |-> n + 1, rm |-> FALSE, score |-> score, id |-> n + 1] /\ e \in Entry
        /\ p = [off |-> n + 1, rm |-> FALSE] /\ p \in Flagged
    BY <1>1 DEF NewId, Entry, Flagged
  <1> HIDE DEF e, p, r, n
  <1>4. /\ block \in Seq(Lemmas) /\ Len(block) = n + 1 /\ block[n + 1] = w
        /\ \A i \in 1..n : block[i] = dict.block[i]
    <2>1. /\ block \in Seq(Lemmas) /\ Len(block) = Len(dict.block) + 1
          /\ block[Len(dict.block) + 1] = w
          /\ \A i \in 1..Len(dict.block) : block[i] = dict.block[i]
      BY <1>1, AppendProperties
    <2> HIDE DEF block
    <2> QED BY <1>1, <2>1
  <1>5. by_id[n + 1] = n + 1 /\ \A i \in 1..n : by_id[i] = dict.by_id[i]
    <2> DEFINE x == Len(dict.block) + 1
    <2>1. x = n + 1 /\ x \in Nat
      BY <1>1
    <2> HIDE DEF x
    <2>2. /\ Append(dict.by_id, x)[Len(dict.by_id) + 1] = x
          /\ \A i \in 1..Len(dict.by_id) : Append(dict.by_id, x)[i] = dict.by_id[i]
      BY <1>1, <2>1, AppendProperties
    <2>3. by_id = Append(dict.by_id, x)
      BY DEF x
    <2> HIDE DEF by_id
    <2> QED BY <1>1, <2>1, <2>2, <2>3
  <1> HIDE DEF block, by_id
  <1>6. at \in 1..n + 1
    <2>1. \A k \in 1..n : block[dict.index[k].off] \in Lemmas
      BY <1>1, <1>4
    <2> QED BY <1>1, <2>1, InsertPositionIs DEF n
  <1>7. Placed(index, dict.index, at, e)
    <2> HIDE DEF at
    <2>1. \E q : Placed(index, dict.index, q, e) /\ (at \in 1..Len(dict.index) + 1 => q = at)
      <3>1. dict.index \in Seq(Entry) /\ e \in Entry
        BY <1>1, <1>3
      <3>2. \E q : Placed(InsertAt(dict.index, at, e), dict.index, q, e)
                   /\ (at \in 1..Len(dict.index) + 1 => q = at)
        <4> HIDE DEF index, preds, pat
        <4> QED BY <3>1, InsertAtPlaces
      <3> QED BY <3>2
    <2> QED BY <1>6, <2>1 DEF n
  <1>8. \E q : Placed(preds, dict.preds, q, p)
    <2> HIDE DEF pat
    <2>1. dict.preds \in Seq(Flagged) /\ p \in Flagged
      BY <1>1, <1>3
    <2> QED BY <2>1, InsertAtPlaces, Zenon
  <1> HIDE DEF index, preds
  <1>9. /\ r.block \in Seq(Lemmas) /\ Len(r.block) = n + 1 /\ r.block[n + 1] = w
        /\ \A i \in 1..n : r.block[i] = dict.block[i]
        /\ r.by_id[n + 1] = n + 1 /\ \A i \in 1..n : r.by_id[i] = dict.by_id[i]
        /\ Placed(r.index, dict.index, InsertPosition(r.block, dict.index, w),
                  [off |-> n + 1, rm |-> FALSE, score |-> score, id |-> n + 1])
        /\ \E q : Placed(r.preds, dict.preds, q, [off |-> n + 1, rm |-> FALSE])
        /\ r.hits = NoCache /\ r.misses = NoCache
    BY <1>2, <1>3, <1>4, <1>5, <1>7, <1>8, Zenon
  <1> QED BY <1>9, Zenon DEF r, n

(* What append_a_lemma does to block, index and caches. *)
LEMMA AppendPlaces ==
    ASSUME NEW dict, NEW f, Good(dict, f), dict.left # 0, NEW w \in Lemmas, NEW score \in Score
    PROVE  LET r == AppendALemma(dict, w, score)
               n == Len(dict.index)
           IN  /\ r.block[n + 1] = w /\ \A i \in 1..n : r.block[i] = dict.block[i]
               /\ Placed(r.index, dict.index, InsertPosition(r.block, dict.index, w),
                         [off |-> n + 1, rm |-> FALSE, score |-> score, id |-> n + 1])
               /\ r.hits = NoCache /\ r.misses = NoCache
  BY AppendFields, ZenonT(60)

-----------------------------------------------------------------------------
(* The steps. *)

(* Whatever changes neither block nor lists, but for scores. *)
LEMMA KeptSame ==
    ASSUME NEW dict, NEW f, Kept(dict, f), NEW r, Good(r, f),
           r.block = dict.block, r.by_id = dict.by_id, r.preds = dict.preds,
           Len(r.index) = Len(dict.index),
           \A j \in 1..Len(dict.index) :
               /\ r.index[j].off = dict.index[j].off /\ r.index[j].rm = dict.index[j].rm
               /\ r.index[j].id = dict.index[j].id
    PROVE  Kept(r, f)
  <1>1. Orderly(r.block, r.index, r.preds)
    BY OrderlySame DEF Kept
  <1>2. IdsAgree(r.index, r.by_id)
    BY DEF Kept, IdsAgree
  <1> QED BY <1>1, <1>2 DEF Kept

(* load() numbers the entries in the order of the index. *)
LEMMA LoadKept ==
    ASSUME NEW f, FileOK(f), Orderly(f.block, f.offs, f.preds)
    PROVE  Kept(Load(f), f)
  <1> DEFINE r == Load(f)
             n == Len(f.offs)
  <1>1. Good(r, f)
    BY LoadGood
  <1>2. n \in Nat
    BY LenProperties DEF FileOK, FileTypes
  <1>3. /\ r.block = f.block /\ r.preds = f.preds
        /\ r.index = [k \in 1..n |-> [off |-> f.offs[k].off, rm |-> f.offs[k].rm,
                                      score |-> f.scores[k], id |-> k]]
        /\ r.by_id = [k \in 1..n |-> f.offs[k].off]
    BY DEF Load
  <1> HIDE DEF r
  <1>4. Len(r.index) = n
    <2>1. r.index \in Seq(Entry)
      BY <1>1, GoodTypes
    <2>2. DOMAIN r.index = 1..n /\ DOMAIN r.index = 1..Len(r.index) /\ Len(r.index) \in Nat
      BY <1>3, <2>1, LenProperties
    <2> QED BY <1>2, <2>2
  <1>5. \A k \in 1..n : /\ r.index[k].off = f.offs[k].off /\ r.index[k].rm = f.offs[k].rm
                        /\ r.index[k].id = k /\ r.by_id[k] = f.offs[k].off
    BY <1>3
  <1>6. Orderly(r.block, r.index, r.preds)
    BY <1>3, <1>4, <1>5, OrderlySame
  <1>7. IdsAgree(r.index, r.by_id)
    BY <1>4, <1>5 DEF IdsAgree
  <1> QED BY <1>1, <1>6, <1>7 DEF Kept, r

(* flush_cache writes the image of the object and loads it. *)
LEMMA FlushKept ==
    ASSUME NEW dict, NEW f, Kept(dict, f)
    PROVE  LET r == FlushCache(dict, f, dict.syncs)
           IN  /\ Kept(r.d, r.file)
               /\ r.d = Load(Image(dict)) /\ r.file = Image(dict)
               /\ r.d.left # 0
  <1>1. Good(dict, f)
    BY DEF Kept
  <1>2. FileOK(Image(dict))
    BY <1>1, ImageOK DEF Good
  <1>3. FlushCache(dict, f, dict.syncs) = [d |-> Load(Image(dict)), file |-> Image(dict)]
    BY <1>1, <1>2, WriteBackIsImage DEF FlushCache, Accepted, FileOK
  <1>4. Orderly(Image(dict).block, Image(dict).offs, Image(dict).preds)
    <2>1. /\ Len(OffsetsOf(dict.index)) = Len(dict.index)
          /\ \A k \in 1..Len(dict.index) :
                /\ OffsetsOf(dict.index)[k].off = dict.index[k].off
                /\ OffsetsOf(dict.index)[k].rm = dict.index[k].rm
      BY <1>1, SegmentsOfIndex DEF Good, OffsetsOf
    <2>2. Orderly(dict.block, OffsetsOf(dict.index), dict.preds)
      BY <2>1, OrderlySame DEF Kept
    <2> QED BY <2>2 DEF Image
  <1>5. Load(Image(dict)).left # 0
    <2>1. Load(Image(dict)).left = PreAlloc
      BY <1>2, LoadGood, Zenon
    <2>2. PreAlloc # 0
      BY SizesAssumption
    <2> QED BY <2>1, <2>2, Zenon
  <1> QED BY <1>2, <1>3, <1>4, <1>5, LoadKept

(* Entry k is marked as removed in both lists. *)
Marked(ix, ix2, preds, preds2, k) ==
    /\ Len(ix2) = Len(ix) /\ Len(preds2) = Len(preds)
    /\ \A j \in 1..Len(ix) : /\ ix2[j].off = ix[j].off
                             /\ j = k => ix2[j].rm = TRUE
                             /\ j # k => ix2[j].rm = ix[j].rm
    /\ \A j \in 1..Len(preds) : /\ preds2[j].off = preds[j].off
                                /\ preds[j].off = ix[k].off => preds2[j].rm = TRUE
                                /\ preds[j].off # ix[k].off => preds2[j].rm = preds[j].rm

(* An entry is marked in both lists. *)
LEMMA OrderlyMarked ==
    ASSUME NEW block, NEW ix, NEW preds, Orderly(block, ix, preds),
           NEW k \in 1..Len(ix), NEW ix2, NEW preds2, Marked(ix, ix2, preds, preds2, k)
    PROVE  Orderly(block, ix2, preds2)
  <1> /\ Len(ix2) = Len(ix) /\ Len(preds2) = Len(preds)
      /\ \A j \in 1..Len(ix) : /\ ix2[j].off = ix[j].off
                               /\ j = k => ix2[j].rm = TRUE
                               /\ j # k => ix2[j].rm = ix[j].rm
      /\ \A j \in 1..Len(preds) : /\ preds2[j].off = preds[j].off
                                  /\ preds[j].off = ix[k].off => preds2[j].rm = TRUE
                                  /\ preds[j].off # ix[k].off => preds2[j].rm = preds[j].rm
    BY Zenon DEF Marked
  <1>1. Distinct(ix) /\ Distinct(preds) /\ Mirrors(preds, ix) /\ Sorted(block, ix)
    BY DEF Orderly
  <1>2. Distinct(ix2)
    BY <1>1 DEF Distinct
  <1>3. Distinct(preds2)
    BY <1>1 DEF Distinct
  <1>4. ASSUME NEW i \in 1..Len(ix), NEW j \in 1..Len(preds),
               preds[j].off = ix[i].off, preds[j].rm = ix[i].rm
        PROVE  preds2[j].off = ix2[i].off /\ preds2[j].rm = ix2[i].rm
    <2>1. preds2[j].off = ix2[i].off
      BY <1>4
    <2>2. CASE i = k
      BY <1>4, <2>1, <2>2, Zenon
    <2>3. CASE i # k
      <3>1. preds[j].off # ix[k].off
        BY <1>1, <1>4, <2>3 DEF Distinct
      <3> QED BY <1>4, <2>1, <2>3, <3>1, Zenon
    <2> QED BY <2>2, <2>3
  <1>5. Mirrors(preds2, ix2)
    <2>1. ASSUME NEW i \in 1..Len(ix)
          PROVE  \E j \in 1..Len(preds) : preds2[j].off = ix2[i].off /\ preds2[j].rm = ix2[i].rm
      <3>1. PICK j \in 1..Len(preds) : preds[j].off = ix[i].off /\ preds[j].rm = ix[i].rm
        BY <1>1, Zenon DEF Mirrors
      <3> QED BY <1>4, <3>1, Zenon
    <2>2. ASSUME NEW j \in 1..Len(preds)
          PROVE  \E i \in 1..Len(ix) : preds2[j].off = ix2[i].off /\ preds2[j].rm = ix2[i].rm
      <3>1. PICK i \in 1..Len(ix) : preds[j].off = ix[i].off /\ preds[j].rm = ix[i].rm
        BY <1>1, Zenon DEF Mirrors
      <3> QED BY <1>4, <3>1, ZenonT(40)
    <2> QED BY <2>1, <2>2, Zenon DEF Mirrors
  <1>6. Sorted(block, ix2)
    BY <1>1 DEF Sorted
  <1> QED BY <1>2, <1>3, <1>5, <1>6 DEF Orderly

(* remove_lemma_by_offset_index. *)
LEMMA RemoveKept ==
    ASSUME NEW dict, NEW f, Kept(dict, f), NEW k \in 1..Len(dict.index)
    PROVE  Kept(RemoveLemmaByOffsetIndex(dict, k), f)
  <1> DEFINE r == RemoveLemmaByOffsetIndex(dict, k)
  <1>1. /\ Good(dict, f) /\ Orderly(dict.block, dict.index, dict.preds)
        /\ IdsAgree(dict.index, dict.by_id) /\ Orderly(f.block, f.offs, f.preds)
    BY DEF Kept
  <1>2. Good(r, f)
    BY <1>1, RemoveGood
  <1>3. /\ r.block = dict.block /\ r.by_id = dict.by_id
        /\ Len(r.index) = Len(dict.index) /\ Len(r.preds) = Len(dict.preds)
        /\ \A j \in 1..Len(dict.index) :
              /\ r.index[j].off = dict.index[j].off /\ r.index[j].id = dict.index[j].id
              /\ j = k => r.index[j].rm = TRUE
              /\ j # k => r.index[j].rm = dict.index[j].rm
        /\ \A j \in 1..Len(dict.preds) :
              /\ r.preds[j].off = dict.preds[j].off
              /\ dict.preds[j].off = dict.index[k].off => r.preds[j].rm = TRUE
              /\ dict.preds[j].off # dict.index[k].off => r.preds[j].rm = dict.preds[j].rm
    BY <1>1, RemoveFields, ZenonT(40)
  <1> HIDE DEF r
  <1> DEFINE index == r.index
             preds == r.preds
  <1>4. Orderly(r.block, index, preds)
    <2>1. Marked(dict.index, index, dict.preds, preds, k)
      BY <1>3, Zenon DEF Marked
    <2> HIDE DEF index, preds
    <2>2. Orderly(dict.block, index, preds)
      BY <1>1, <2>1, OrderlyMarked, Zenon
    <2> QED BY <1>3, <2>2
  <1>5. IdsAgree(r.index, r.by_id)
    BY <1>1, <1>3 DEF IdsAgree
  <1> QED BY <1>1, <1>2, <1>4, <1>5 DEF Kept, r

-----------------------------------------------------------------------------
(* A new entry in the lists. *)

(* A new offset in the list leaves its offsets distinct. *)
LEMMA PlacedDistinct ==
    ASSUME NEW ix, Len(ix) \in Nat, NEW ix2, NEW p, NEW e, Placed(ix2, ix, p, e),
           Distinct(ix), \A k \in 1..Len(ix) : ix[k].off # e.off
    PROVE  Distinct(ix2)
  <1>1. Len(ix2) = Len(ix) + 1 /\ ix2[p] = e
    BY DEF Placed
  <1>2. ASSUME NEW i \in 1..Len(ix2), NEW j \in 1..Len(ix2), i # j
        PROVE  ix2[i].off # ix2[j].off
    <2>1. \A m \in 1..Len(ix) + 1 : m # p => Old(p, m) \in 1..Len(ix) /\ ix2[m] = ix[Old(p, m)]
      BY PlacedOld
    <2>2. i \in 1..Len(ix) + 1 /\ j \in 1..Len(ix) + 1
      BY <1>1
    <2>3. CASE i = p
      <3>1. Old(p, j) \in 1..Len(ix) /\ ix2[j] = ix[Old(p, j)]
        BY <1>2, <2>1, <2>2, <2>3
      <3> QED BY <1>1, <2>3, <3>1
    <2>4. CASE j = p
      <3>1. Old(p, i) \in 1..Len(ix) /\ ix2[i] = ix[Old(p, i)]
        BY <1>2, <2>1, <2>2, <2>4
      <3> QED BY <1>1, <2>4, <3>1
    <2>5. CASE i # p /\ j # p
      <3>1. /\ Old(p, i) \in 1..Len(ix) /\ ix2[i] = ix[Old(p, i)]
            /\ Old(p, j) \in 1..Len(ix) /\ ix2[j] = ix[Old(p, j)]
        BY <2>1, <2>2, <2>5
      <3>2. Old(p, i) # Old(p, j)
        BY <1>2, <2>2, <2>5, PlacedOld
      <3> QED BY <3>1, <3>2 DEF Distinct
    <2> QED BY <2>3, <2>4, <2>5
  <1> QED BY <1>2 DEF Distinct

(* Placed in both lists, the new entry is mirrored in the predictions. *)
LEMMA PlacedMirrors ==
    ASSUME NEW ix, Len(ix) \in Nat, NEW ix2, NEW p, NEW e, Placed(ix2, ix, p, e),
           NEW preds, Len(preds) \in Nat, NEW preds2, NEW q, NEW g, Placed(preds2, preds, q, g),
           Mirrors(preds, ix), g.off = e.off, g.rm = e.rm
    PROVE  Mirrors(preds2, ix2)
  <1>1. /\ Len(ix2) = Len(ix) + 1 /\ ix2[p] = e /\ p \in 1..Len(ix) + 1
        /\ Len(preds2) = Len(preds) + 1 /\ preds2[q] = g /\ q \in 1..Len(preds) + 1
    BY DEF Placed
  <1>2. /\ \A j \in 1..Len(ix) + 1 : j # p => Old(p, j) \in 1..Len(ix) /\ ix2[j] = ix[Old(p, j)]
        /\ \A i \in 1..Len(ix) : Shifted(p, i) \in 1..Len(ix) + 1 /\ ix2[Shifted(p, i)] = ix[i]
    BY PlacedOld
  <1>3. /\ \A j \in 1..Len(preds) + 1 :
              j # q => Old(q, j) \in 1..Len(preds) /\ preds2[j] = preds[Old(q, j)]
        /\ \A i \in 1..Len(preds) : /\ Shifted(q, i) \in 1..Len(preds) + 1
                                    /\ preds2[Shifted(q, i)] = preds[i]
    BY PlacedOld
  <1>4. ASSUME NEW k \in 1..Len(ix2)
        PROVE  \E j \in 1..Len(preds2) : preds2[j].off = ix2[k].off /\ preds2[j].rm = ix2[k].rm
    <2>1. CASE k = p
      BY <1>1, <2>1, Zenon
    <2>2. CASE k # p
      <3>1. Old(p, k) \in 1..Len(ix) /\ ix2[k] = ix[Old(p, k)]
        BY <1>1, <1>2, <2>2, Zenon
      <3>2. PICK j \in 1..Len(preds) : /\ preds[j].off = ix[Old(p, k)].off
                                       /\ preds[j].rm = ix[Old(p, k)].rm
        BY <3>1, Zenon DEF Mirrors
      <3>3. Shifted(q, j) \in 1..Len(preds2) /\ preds2[Shifted(q, j)] = preds[j]
        BY <1>1, <1>3, Zenon
      <3> QED BY <3>1, <3>2, <3>3, Zenon
    <2> QED BY <2>1, <2>2
  <1>5. ASSUME NEW j \in 1..Len(preds2)
        PROVE  \E k \in 1..Len(ix2) : preds2[j].off = ix2[k].off /\ preds2[j].rm = ix2[k].rm
    <2>1. CASE j = q
      BY <1>1, <2>1, Zenon
    <2>2. CASE j # q
      <3>1. Old(q, j) \in 1..Len(preds) /\ preds2[j] = preds[Old(q, j)]
        BY <1>1, <1>3, <2>2, Zenon
      <3>2. PICK k \in 1..Len(ix) : /\ preds[Old(q, j)].off = ix[k].off
                                    /\ preds[Old(q, j)].rm = ix[k].rm
        BY <3>1, Zenon DEF Mirrors
      <3>3. Shifted(p, k) \in 1..Len(ix2) /\ ix2[Shifted(p, k)] = ix[k]
        BY <1>1, <1>2, Zenon
      <3> QED BY <3>1, <3>2, <3>3, Zenon
    <2> QED BY <2>1, <2>2
  <1> QED BY <1>4, <1>5, Zenon DEF Mirrors

(* The order is kept when the entry goes before the first that is not below
   its lemma. *)
LEMMA PlacedSorted ==
    ASSUME NEW block, NEW ix, Len(ix) \in Nat, Sorted(block, ix),
           NEW block2, NEW ix2, NEW p, NEW e, Placed(ix2, ix, p, e), NEW w \in Lemmas,
           block2[e.off] = w,
           \A k \in 1..Len(ix) : /\ block[ix[k].off] \in Lemmas
                                 /\ block2[ix[k].off] = block[ix[k].off],
           \A j \in 1..p - 1 : Below(Key(block[ix[j].off].spl), Key(w.spl)),
           p \in 1..Len(ix) => ~Below(Key(block[ix[p].off].spl), Key(w.spl))
    PROVE  Sorted(block2, ix2)
  <1> DEFINE K(k) == Key(block[ix[k].off].spl)
             K2(k) == Key(block2[ix2[k].off].spl)
             W == Key(w.spl)
  <1>1. Len(ix2) = Len(ix) + 1 /\ p \in 1..Len(ix) + 1 /\ K2(p) = W
    BY DEF Placed
  <1>2. ASSUME NEW j \in 1..Len(ix) + 1, j # p
        PROVE  Old(p, j) \in 1..Len(ix) /\ K2(j) = K(Old(p, j))
    <2>1. Old(p, j) \in 1..Len(ix) /\ ix2[j] = ix[Old(p, j)]
      BY <1>2, PlacedOld
    <2> QED BY <2>1
  <1>3. /\ \A k \in 1..Len(ix) : block[ix[k].off].spl \in Seq(DOMAIN SplInitial)
        /\ w.spl \in Seq(DOMAIN SplInitial)
    BY LemmaSpells
  <1>4. \A i, j \in 1..Len(ix) : i < j => ~Below(K(j), K(i))
    BY DEF Sorted
  <1>5. /\ \A j \in 1..p - 1 : Below(K(j), W)
        /\ p \in 1..Len(ix) => ~Below(K(p), W)
    OBVIOUS
  <1>6. ASSUME NEW i \in 1..Len(ix) + 1, NEW j \in 1..Len(ix) + 1, i < j
        PROVE  ~Below(K2(j), K2(i))
    <2>1. CASE i = p
      <3>1. j # p /\ Old(p, j) = j - 1 /\ p <= j - 1
        BY <1>1, <1>6, <2>1 DEF Old
      <3> DEFINE o == j - 1
      <3>2. o \in 1..Len(ix) /\ K2(j) = K(o) /\ p \in 1..Len(ix) /\ p <= o
        <4>1. Old(p, j) \in 1..Len(ix) /\ K2(j) = K(Old(p, j))
          BY <1>2, <3>1
        <4>2. o \in 1..Len(ix) /\ K2(j) = K(o)
          BY <3>1, <4>1, Zenon
        <4> QED BY <1>1, <3>1, <4>2
      <3>3. CASE o = p
        BY <1>1, <1>5, <2>1, <3>2, <3>3, Zenon
      <3>4. CASE o # p
        <4>1. ~Below(K(o), K(p)) /\ ~Below(K(p), W)
          <5>1. p < o
            BY <3>2, <3>4
          <5> QED BY <1>4, <1>5, <3>2, <5>1, Zenon
        <4>2. ~Below(K(o), W)
          BY <1>3, <3>2, <4>1, NotBelowTransitive, Zenon
        <4> QED BY <1>1, <2>1, <3>2, <4>2, Zenon
      <3> QED BY <3>3, <3>4
    <2>2. CASE j = p
      <3>1. i # p /\ Old(p, i) = i /\ i \in 1..p - 1
        BY <1>1, <1>6, <2>2 DEF Old
      <3>2. K2(i) = K(i) /\ i \in 1..Len(ix)
        BY <1>2, <3>1, Zenon
      <3>3. Below(K(i), W)
        BY <1>5, <3>1, Zenon
      <3>4. K(i) \in Seq(Nat) /\ W \in Seq(Nat)
        BY <1>3, <3>2, KeyTyped, Zenon
      <3>5. ~Below(W, K(i))
        BY <3>3, <3>4, BelowTransitive, BelowIrreflexive, Zenon
      <3> QED BY <1>1, <2>2, <3>2, <3>5, Zenon
    <2>3. CASE i # p /\ j # p
      <3>1. Old(p, i) < Old(p, j)
        BY <1>6, <2>3, PlacedOld
      <3> QED BY <1>2, <1>4, <2>3, <3>1, Zenon
    <2> QED BY <2>1, <2>2, <2>3
  <1> HIDE DEF K2
  <1>7. \A i, j \in 1..Len(ix2) : i < j => ~Below(K2(j), K2(i))
    BY <1>1, <1>6
  <1> QED BY <1>7, Zenon DEF Sorted, K2

(* append_a_lemma: the new slot and the new id are the largest. *)
LEMMA AppendKept ==
    ASSUME NEW dict, NEW f, Kept(dict, f), dict.left # 0, NEW w \in Lemmas, NEW score \in Score
    PROVE  Kept(AppendALemma(dict, w, score), f)
  <1> DEFINE r == AppendALemma(dict, w, score)
             n == Len(dict.index)
             at == InsertPosition(r.block, dict.index, w)
             e == [off |-> n + 1, rm |-> FALSE, score |-> score, id |-> n + 1]
             g == [off |-> n + 1, rm |-> FALSE]
  <1>1. /\ Good(dict, f) /\ Orderly(dict.block, dict.index, dict.preds)
        /\ IdsAgree(dict.index, dict.by_id) /\ Orderly(f.block, f.offs, f.preds)
    BY DEF Kept
  <1>2. Good(r, f) /\ Len(r.index) = n + 1
    BY <1>1, AppendGood
  <1>3. /\ n \in Nat /\ Len(dict.preds) = n
        /\ \A k \in 1..n : /\ dict.index[k].off \in 1..n /\ dict.index[k].id \in 1..n
                           /\ dict.preds[k].off \in 1..n /\ dict.block[k] \in Lemmas
    BY <1>1, GoodTypes
  <1>4. /\ r.block[n + 1] = w /\ \A i \in 1..n : r.block[i] = dict.block[i]
        /\ r.by_id[n + 1] = n + 1 /\ \A i \in 1..n : r.by_id[i] = dict.by_id[i]
        /\ Placed(r.index, dict.index, at, e)
        /\ \E p : Placed(r.preds, dict.preds, p, g)
    BY <1>1, AppendFields, ZenonT(40)
  <1> HIDE DEF r
  <1>5. PICK p : Placed(r.preds, dict.preds, p, g)
    BY <1>4
  <1>6. e.off = n + 1 /\ e.rm = FALSE /\ e.id = n + 1 /\ g.off = n + 1 /\ g.rm = FALSE
    OBVIOUS
  <1> HIDE DEF e, g
  <1>7. /\ Distinct(dict.index) /\ Distinct(dict.preds) /\ Mirrors(dict.preds, dict.index)
        /\ Sorted(dict.block, dict.index)
    BY <1>1 DEF Orderly
  <1>8. Distinct(r.index)
    <2>1. \A k \in 1..n : dict.index[k].off # e.off
      BY <1>3, <1>6
    <2> QED BY <1>3, <1>4, <1>7, <2>1, PlacedDistinct
  <1>9. Distinct(r.preds)
    <2>1. \A k \in 1..Len(dict.preds) : dict.preds[k].off # g.off
      BY <1>3, <1>6
    <2> QED BY <1>3, <1>5, <1>7, <2>1, PlacedDistinct
  <1>10. Mirrors(r.preds, r.index)
    <2>1. g.off = e.off /\ g.rm = e.rm /\ Len(dict.preds) \in Nat /\ Len(dict.index) \in Nat
      BY <1>3, <1>6
    <2>2. Placed(r.index, dict.index, at, e)
      BY <1>4
    <2> HIDE DEF at
    <2> QED BY <1>5, <1>7, <2>1, <2>2, PlacedMirrors
  <1>11. Sorted(r.block, r.index)
    <2> DEFINE block == r.block
               ix == dict.index
    <2>1. \A k \in 1..n : /\ dict.block[ix[k].off] \in Lemmas
                          /\ block[ix[k].off] = dict.block[ix[k].off]
      BY <1>3, <1>4
    <2>2. /\ at \in 1..n + 1
          /\ \A j \in 1..at - 1 : Below(Key(block[ix[j].off].spl), Key(w.spl))
          /\ at \in 1..n => ~Below(Key(block[ix[at].off].spl), Key(w.spl))
      <3>1. \A k \in 1..n : block[ix[k].off] \in Lemmas
        BY <2>1
      <3> HIDE DEF block, ix
      <3>2. LET p1 == InsertPosition(block, ix, w)
            IN  /\ p1 \in 1..Len(ix) + 1
                /\ \A j \in 1..p1 - 1 : Below(Key(block[ix[j].off].spl), Key(w.spl))
                /\ p1 \in 1..Len(ix) => ~Below(Key(block[ix[p1].off].spl), Key(w.spl))
        BY <1>3, <3>1, InsertPositionIs, Zenon DEF ix
      <3> QED BY <3>2, Zenon DEF ix, block
    <2>3. block[e.off] = w
      BY <1>4, <1>6
    <2> HIDE DEF block, at
    <2>4. \A j \in 1..at - 1 : Below(Key(dict.block[ix[j].off].spl), Key(w.spl))
      <3>1. \A j \in 1..at - 1 : j \in 1..n
        BY <1>3, <2>2
      <3> QED BY <2>1, <2>2, <3>1, Zenon
    <2>5. at \in 1..n => ~Below(Key(dict.block[ix[at].off].spl), Key(w.spl))
      BY <2>1, <2>2, Zenon
    <2>6. Len(ix) \in Nat /\ Sorted(dict.block, ix) /\ Placed(r.index, ix, at, e)
      BY <1>3, <1>4, <1>7 DEF at, block
    <2> HIDE DEF ix
    <2>7. \A k \in 1..Len(ix) : /\ dict.block[ix[k].off] \in Lemmas
                                /\ block[ix[k].off] = dict.block[ix[k].off]
      BY <2>1 DEF ix
    <2>8. at \in 1..Len(ix) => ~Below(Key(dict.block[ix[at].off].spl), Key(w.spl))
      BY <2>5 DEF ix
    <2>9. Sorted(block, r.index)
      BY <2>3, <2>4, <2>6, <2>7, <2>8, PlacedSorted
    <2> QED BY <2>9 DEF block
  <1>12. IdsAgree(r.index, r.by_id)
    <2> DEFINE ix == dict.index
               ix2 == r.index
    <2>1. /\ ix2[at] = e /\ at \in 1..n + 1
          /\ \A j \in 1..n + 1 : j # at => Old(at, j) \in 1..n /\ ix2[j] = ix[Old(at, j)]
          /\ \A i, j \in 1..n + 1 : i # at /\ j # at => (i = j <=> Old(at, i) = Old(at, j))
      <3>1. Placed(ix2, ix, at, e) /\ Len(ix) \in Nat /\ Len(ix) = n
        BY <1>3, <1>4
      <3> HIDE DEF at, ix, ix2, n
      <3>2. ix2[at] = e /\ at \in 1..n + 1
        BY <3>1 DEF Placed
      <3> QED BY <3>1, <3>2, PlacedOld
    <2>2. \A k \in 1..n : /\ r.by_id[ix[k].id] = ix[k].off
                          /\ ix[k].id \in 1..n
                          /\ \A j \in 1..n : j # k => ix[j].id # ix[k].id
      BY <1>1, <1>3, <1>4 DEF IdsAgree
    <2> HIDE DEF ix, ix2, at
    <2>3. ASSUME NEW k \in 1..n + 1
          PROVE  r.by_id[ix2[k].id] = ix2[k].off
      <3>1. CASE k = at
        BY <1>4, <1>6, <2>1, <3>1
      <3>2. CASE k # at
        BY <2>1, <2>2, <3>2
      <3> QED BY <3>1, <3>2
    <2>4. ASSUME NEW k \in 1..n + 1, NEW j \in 1..n + 1, j # k
          PROVE  ix2[j].id # ix2[k].id
      <3>1. CASE k = at
        <4>1. ix2[j].id \in 1..n
          BY <2>1, <2>2, <2>4, <3>1
        <4> QED BY <1>3, <1>6, <2>1, <3>1, <4>1
      <3>2. CASE j = at
        <4>1. ix2[k].id \in 1..n
          BY <2>1, <2>2, <2>4, <3>2
        <4> QED BY <1>3, <1>6, <2>1, <3>2, <4>1
      <3>3. CASE k # at /\ j # at
        <4>1. /\ ix2[j] = ix[Old(at, j)] /\ ix2[k] = ix[Old(at, k)]
              /\ Old(at, j) \in 1..n /\ Old(at, k) \in 1..n /\ Old(at, j) # Old(at, k)
          BY <2>1, <2>4, <3>3
        <4> QED BY <2>2, <4>1
      <3> QED BY <3>1, <3>2, <3>3
    <2> QED BY <1>2, <2>3, <2>4 DEF IdsAgree, ix2
  <1> QED BY <1>1, <1>2, <1>8, <1>9, <1>10, <1>11, <1>12 DEF Kept, Orderly, r

(* A new score changes neither order nor ids. *)
LEMMA ScoreKept ==
    ASSUME NEW dict, NEW f, Kept(dict, f), NEW k \in 1..Len(dict.index), NEW score \in Score
    PROVE  Kept(Scored(dict, k, score), f)
  <1> DEFINE r == Scored(dict, k, score)
  <1>1. Good(dict, f)
    BY DEF Kept
  <1>2. Good(r, f)
    BY <1>1, ScoreGood
  <1>3. /\ r.block = dict.block /\ r.by_id = dict.by_id /\ r.preds = dict.preds
        /\ r.hits = dict.hits /\ r.misses = dict.misses
        /\ Len(r.index) = Len(dict.index)
        /\ \A j \in 1..Len(dict.index) :
              /\ r.index[j].off = dict.index[j].off /\ r.index[j].rm = dict.index[j].rm
              /\ r.index[j].id = dict.index[j].id
              /\ j = k => r.index[j].score = score
              /\ j # k => r.index[j].score = dict.index[j].score
    BY <1>1, ScoreFields
  <1> HIDE DEF r
  <1>4. Kept(r, f)
    BY <1>2, <1>3, KeptSame, Zenon
  <1> QED BY <1>4 DEF r

(* The queue for sync is no part of it. *)
LEMMA QueueKept ==
    ASSUME NEW dict, NEW f, Kept(dict, f), dict.state >= SYNC_DIRTY,
           NEW id \in 1..Len(dict.index)
    PROVE  Kept(QueueLemmaForSync(dict, id), f)
  <1> DEFINE r == QueueLemmaForSync(dict, id)
  <1>1. Good(dict, f)
    BY DEF Kept
  <1>2. Good(r, f)
    BY <1>1, QueueGood
  <1>3. r.block = dict.block /\ r.by_id = dict.by_id /\ r.preds = dict.preds /\ r.index = dict.index
    BY <1>1, QueueFields, Zenon
  <1> HIDE DEF r
  <1>4. Kept(r, f)
    BY <1>2, <1>3 DEF Kept
  <1> QED BY <1>4 DEF r

(* Nor are the caches. *)
LEMMA GetLpisKept ==
    ASSUME NEW dict, NEW f, Kept(dict, f), NEW q, NEW max
    PROVE  Kept(GetLpis(dict, q, max), f)
  <1> DEFINE r == GetLpis(dict, q, max)
  <1>1. Good(dict, f)
    BY DEF Kept
  <1>2. Good(r, f)
    BY <1>1, GetLpisGood
  <1>3. r.block = dict.block /\ r.by_id = dict.by_id /\ r.preds = dict.preds /\ r.index = dict.index
    BY <1>1, GetLpisFields, Zenon
  <1> HIDE DEF r
  <1>4. Kept(r, f)
    BY <1>2, <1>3 DEF Kept
  <1> QED BY <1>4 DEF r

(* What update_lemma does to a lemma it finds. *)
LEMMA UpdateQueues ==
    ASSUME NEW dict, NEW f, Good(dict, f), NEW id, NEW delta \in Nat,
           NEW selected \in BOOLEAN, NEW week \in Nat
    PROVE  LET k == LocateInOffsets(dict, dict.block[dict.by_id[id]])
               r == UpdateLemma(dict, id, delta, selected, week)
           IN  k \in 1..Len(dict.index) =>
                   \E score \in Score :
                       r = QueueLemmaForSync(Scored(dict, k, score), dict.index[k].id)
  <1> DEFINE k == LocateInOffsets(dict, dict.block[dict.by_id[id]])
  <1> SUFFICES ASSUME k \in 1..Len(dict.index)
               PROVE  \E score \in Score : UpdateLemma(dict, id, delta, selected, week) =
                          QueueLemmaForSync(Scored(dict, k, score), dict.index[k].id)
    OBVIOUS
  <1>1. k = LocateInOffsets(dict, dict.block[dict.by_id[id]])
    OBVIOUS
  <1> HIDE DEF k
  <1> QED BY <1>1, UpdateScore

(* update_lemma: what it does is to set a score and to queue the lemma. *)
LEMMA UpdateKept ==
    ASSUME NEW dict, NEW f, Kept(dict, f), NEW id, NEW delta \in Nat,
           NEW selected \in BOOLEAN, NEW week \in Nat
    PROVE  Kept(UpdateLemma(dict, id, delta, selected, week), f)
  <1> DEFINE k == LocateInOffsets(dict, dict.block[dict.by_id[id]])
             r == UpdateLemma(dict, id, delta, selected, week)
  <1>1. Good(dict, f)
    BY DEF Kept
  <1>2. Len(dict.index) \in Nat /\ k \in 0..Len(dict.index)
    BY <1>1, LocateRange, SegmentsOfIndex DEF Good
  <1>3. CASE k = 0
    BY <1>3 DEF UpdateLemma
  <1>4. CASE k # 0
    <2>1. k \in 1..Len(dict.index)
      BY <1>2, <1>4
    <2>2. \E score \in Score : r = QueueLemmaForSync(Scored(dict, k, score), dict.index[k].id)
      BY <1>1, <2>1, UpdateQueues
    <2> HIDE DEF k, r
    <2> PICK score \in Score : r = QueueLemmaForSync(Scored(dict, k, score), dict.index[k].id)
      BY <2>2
    <2> DEFINE s == Scored(dict, k, score)
    <2>3. Kept(s, f)
      BY <2>1, ScoreKept
    <2>4. s.state >= SYNC_DIRTY /\ Len(s.index) = Len(dict.index)
      BY <1>1, <2>1, ScoreGood
    <2>5. dict.index[k].id \in 1..Len(dict.index)
      BY <1>1, <2>1, GoodTypes
    <2> HIDE DEF s
    <2>6. dict.index[k].id \in 1..Len(s.index)
      BY <2>4, <2>5
    <2>7. Kept(QueueLemmaForSync(s, dict.index[k].id), f)
      BY <2>3, <2>4, <2>6, QueueKept
    <2> QED BY <2>7 DEF s, r
  <1> QED BY <1>3, <1>4

(* remove_lemma. *)
LEMMA RemoveLemmaKept ==
    ASSUME NEW dict, NEW f, Kept(dict, f), NEW id
    PROVE  Kept(RemoveLemma(dict, id), f)
  <1> DEFINE k == LocateInOffsets(dict, dict.block[dict.by_id[id]])
  <1>1. Len(dict.index) \in Nat /\ k \in 0..Len(dict.index)
    BY LocateRange, SegmentsOfIndex DEF Good, Kept
  <1>2. CASE k = 0
    BY <1>2 DEF RemoveLemma
  <1>3. CASE k # 0
    <2>1. k \in 1..Len(dict.index)
      BY <1>1, <1>3
    <2>2. RemoveLemma(dict, id) = RemoveLemmaByOffsetIndex(dict, k)
      BY <1>3 DEF RemoveLemma
    <2> HIDE DEF k
    <2> QED BY <2>1, <2>2, RemoveKept
  <1> QED BY <1>2, <1>3

(* _put_lemma, with the flush that makes room. *)
LEMMA PutKept ==
    ASSUME NEW dict, NEW f, Kept(dict, f), NEW w \in Lemmas, NEW count \in Nat, NEW week \in Nat
    PROVE  LET r == PutLemma(dict, f, w, count, week) IN Kept(r.d, r.file)
  <1> DEFINE k     == LocateInOffsets(dict, w)
             score == BuildScore(week, count)
             room  == IF NoRoom(dict) THEN FlushCache(dict, f, dict.syncs)
                                       ELSE [d |-> dict, file |-> f]
             added == AppendALemma(room.d, w, score)
             r     == PutLemma(dict, f, w, count, week)
  <1>1. score \in Score
    BY BuildScoreFits
  <1>2. Len(dict.index) \in Nat /\ k \in 0..Len(dict.index)
    BY LocateRange, SegmentsOfIndex DEF Good, Kept
  <1> HIDE DEF score, k
  <1>3. CASE k # 0
    <2>1. k \in 1..Len(dict.index)
      BY <1>2, <1>3
    <2>2. r = [d |-> Scored(dict, k, score),
               file |-> f]
      BY <1>3 DEF PutLemma, Scored, k, score
    <2>3. Kept(Scored(dict, k, score), f)
      BY <1>1, <2>1, ScoreKept
    <2> QED BY <2>2, <2>3
  <1>4. CASE k = 0 /\ LimitReached(dict)
    BY <1>4 DEF PutLemma, k
  <1>5. CASE k = 0 /\ ~LimitReached(dict)
    <2>1. Kept(room.d, room.file) /\ room.d.left # 0
      <3>1. CASE NoRoom(dict)
        BY <3>1, FlushKept
      <3>2. CASE ~NoRoom(dict)
        BY <3>2 DEF NoRoom
      <3> QED BY <3>1, <3>2
    <2>2. r = [d |-> QueueLemmaForSync(added, Len(added.index)), file |-> room.file]
      BY <1>5 DEF PutLemma, k, score
    <2> HIDE DEF room
    <2>3. /\ Kept(added, room.file)
          /\ added.state = LEMMA_DIRTY
          /\ Len(added.index) = Len(room.d.index) + 1
      BY <1>1, <2>1, AppendKept, AppendGood DEF Kept
    <2>4. Len(room.d.index) \in Nat
      BY <2>1, SegmentsOfIndex DEF Good, Kept
    <2> HIDE DEF added, r
    <2>5. added.state >= SYNC_DIRTY /\ Len(added.index) \in 1..Len(added.index)
      BY <2>3, <2>4 DEF SYNC_DIRTY, LEMMA_DIRTY
    <2>6. Kept(QueueLemmaForSync(added, Len(added.index)), room.file)
      BY <2>3, <2>5, QueueKept
    <2> QED BY <2>2, <2>6 DEF r
  <1> QED BY <1>3, <1>4, <1>5

-----------------------------------------------------------------------------
(* The specification. *)

(* Kept is inductive. *)
THEOREM KeptInductive == Spec => []Kept(d, file)
  <1>1. Init => Kept(d, file)
    <2>1. Orderly(EmptyFile.block, EmptyFile.offs, EmptyFile.preds)
      BY DEF EmptyFile, Orderly, Distinct, Mirrors, Sorted
    <2> QED BY <2>1, EmptyFileOK, LoadKept DEF Init
  <1>2. Kept(d, file) /\ [Next]_vars => Kept(d, file)'
    <2> SUFFICES ASSUME Kept(d, file), [Next]_vars
                 PROVE  Kept(d', file')
      OBVIOUS
    <2>1. ASSUME NEW w \in Lemmas, NEW week \in Weeks, Put(w, week)
          PROVE  Kept(d', file')
      <3>1. week \in Nat /\ 1 \in Nat
        BY SizesAssumption
      <3> QED BY <2>1, <3>1, PutKept DEF Put
    <2>2. ASSUME NEW id \in 1..Len(d.index), NEW week \in Weeks, Update(id, week)
          PROVE  Kept(d', file')
      <3>1. week \in Nat /\ 1 \in Nat /\ TRUE \in BOOLEAN
        BY SizesAssumption
      <3> QED BY <2>2, <3>1, UpdateKept DEF Update
    <2>3. ASSUME NEW id \in 1..Len(d.index), Remove(id)
          PROVE  Kept(d', file')
      BY <2>3, RemoveLemmaKept DEF Remove
    <2>4. ASSUME NEW q \in Queries, NEW max \in Rooms, Search(q, max)
          PROVE  Kept(d', file')
      BY <2>4, GetLpisKept DEF Search
    <2>5. CASE Flush
      BY <2>5, FlushKept DEF Flush
    <2>6. CASE Restart
      <3>1. FileOK(file) /\ Orderly(file.block, file.offs, file.preds)
        BY DEF Good, Kept
      <3>2. Accepted(file) = file
        BY <3>1 DEF Accepted, FileOK
      <3> QED BY <2>6, <3>1, <3>2, LoadKept DEF Restart
    <2>7. CASE UNCHANGED vars
      BY <2>7 DEF vars
    <2> QED BY <2>1, <2>2, <2>3, <2>4, <2>5, <2>6, <2>7 DEF Next
  <1> QED BY <1>1, <1>2, PTL DEF Spec

(* Every id of a stands in b for the lemma it stands for in a. *)
IdsHeld(a, b) ==
    \A id \in {a.index[k].id : k \in 1..Len(a.index)} :
        /\ b.by_id[id] = a.by_id[id]
        /\ b.block[b.by_id[id]] = a.block[a.by_id[id]]
        /\ SlotsOf(b, id) = {a.by_id[id]}

(* It does when every entry of a is still there, with its offset and its id,
   and nothing of block and offsets_by_id_ has changed. *)
LEMMA EntriesHold ==
    ASSUME NEW a, NEW b, NEW f, NEW g, Kept(a, f), Kept(b, g),
           \A k \in 1..Len(a.index) : \E j \in 1..Len(b.index) :
               b.index[j].off = a.index[k].off /\ b.index[j].id = a.index[k].id,
           \A i \in 1..Len(a.index) : b.by_id[i] = a.by_id[i] /\ b.block[i] = a.block[i]
    PROVE  IdsHeld(a, b)
  <1> SUFFICES ASSUME NEW k \in 1..Len(a.index)
               PROVE  LET id == a.index[k].id
                      IN  /\ b.by_id[id] = a.by_id[id]
                          /\ b.block[b.by_id[id]] = a.block[a.by_id[id]]
                          /\ SlotsOf(b, id) = {a.by_id[id]}
    BY DEF IdsHeld
  <1> DEFINE id == a.index[k].id
  <1>1. id \in 1..Len(a.index) /\ a.by_id[id] \in 1..Len(a.index)
    BY GoodTypes DEF Kept
  <1>2. b.by_id[id] = a.by_id[id] /\ b.block[b.by_id[id]] = a.block[a.by_id[id]]
    BY <1>1
  <1>3. a.by_id[id] = a.index[k].off
    BY DEF Kept, IdsAgree
  <1>4. PICK j \in 1..Len(b.index) : b.index[j].off = a.index[k].off /\ b.index[j].id = id
    OBVIOUS
  <1>5. \A m \in 1..Len(b.index) : m # j => b.index[m].id # id
    BY <1>4 DEF Kept, IdsAgree
  <1> HIDE DEF id
  <1>6. {m \in 1..Len(b.index) : b.index[m].id = id} = {j}
    BY <1>4, <1>5
  <1>7. SlotsOf(b, id) = {a.by_id[id]}
    BY <1>3, <1>4, <1>6 DEF SlotsOf
  <1> QED BY <1>2, <1>7 DEF id

(* Nor does it matter that other fields of the entries change. *)
LEMMA SameHold ==
    ASSUME NEW a, NEW b, NEW f, NEW g, Kept(a, f), Kept(b, g),
           b.block = a.block, b.by_id = a.by_id, Len(b.index) = Len(a.index),
           \A j \in 1..Len(a.index) :
               b.index[j].off = a.index[j].off /\ b.index[j].id = a.index[j].id
    PROVE  IdsHeld(a, b)
  BY EntriesHold

(* A new score leaves the entries where they are. *)
LEMMA ScoreStays ==
    ASSUME NEW dict, NEW f, Kept(dict, f), NEW k \in 1..Len(dict.index), NEW score
    PROVE  LET s == Scored(dict, k, score)
           IN  /\ s.block = dict.block /\ s.by_id = dict.by_id /\ Len(s.index) = Len(dict.index)
               /\ \A j \in 1..Len(dict.index) :
                     s.index[j].off = dict.index[j].off /\ s.index[j].id = dict.index[j].id
  <1> DEFINE r == Scored(dict, k, score)
  <1>1. Good(dict, f)
    BY DEF Kept
  <1>2. /\ r.block = dict.block /\ r.by_id = dict.by_id /\ r.preds = dict.preds
        /\ r.hits = dict.hits /\ r.misses = dict.misses
        /\ Len(r.index) = Len(dict.index)
        /\ \A j \in 1..Len(dict.index) :
              /\ r.index[j].off = dict.index[j].off /\ r.index[j].rm = dict.index[j].rm
              /\ r.index[j].id = dict.index[j].id
              /\ j = k => r.index[j].score = score
              /\ j # k => r.index[j].score = dict.index[j].score
    BY <1>1, ScoreFields
  <1> HIDE DEF r
  <1>3. /\ r.block = dict.block /\ r.by_id = dict.by_id /\ Len(r.index) = Len(dict.index)
        /\ \A j \in 1..Len(dict.index) :
              r.index[j].off = dict.index[j].off /\ r.index[j].id = dict.index[j].id
    BY <1>2, Zenon
  <1> QED BY <1>3 DEF r

(* append_a_lemma and queue_lemma_for_sync. *)
LEMMA AppendHolds ==
    ASSUME NEW dict, NEW f, Kept(dict, f), dict.left # 0, NEW w \in Lemmas, NEW score \in Score,
           NEW id, Kept(QueueLemmaForSync(AppendALemma(dict, w, score), id), f)
    PROVE  IdsHeld(dict, QueueLemmaForSync(AppendALemma(dict, w, score), id))
  <1> DEFINE n == Len(dict.index)
             a == AppendALemma(dict, w, score)
             p == InsertPosition(a.block, dict.index, w)
             e == [off |-> n + 1, rm |-> FALSE, score |-> score, id |-> n + 1]
             r == QueueLemmaForSync(a, id)
  <1>1. Good(dict, f) /\ n \in Nat
    BY GoodTypes DEF Kept
  <1>2. /\ \A i \in 1..n : a.block[i] = dict.block[i] /\ a.by_id[i] = dict.by_id[i]
        /\ Placed(a.index, dict.index, p, e)
    BY <1>1, AppendFields, ZenonT(60)
  <1>3. Kept(a, f)
    BY <1>1, AppendKept
  <1> HIDE DEF a, e, p
  <1>4. r.block = a.block /\ r.index = a.index /\ r.by_id = a.by_id
    BY <1>3, QueueFields DEF Kept
  <1>5. Len(r.index) = n + 1 /\ \A i \in 1..n : Shifted(p, i) \in 1..n + 1
                                                /\ r.index[Shifted(p, i)] = dict.index[i]
    <2>1. Placed(r.index, dict.index, p, e)
      BY <1>2, <1>4
    <2> HIDE DEF r
    <2>2. Len(r.index) = n + 1
      BY <2>1 DEF Placed
    <2>3. \A i \in 1..n : Shifted(p, i) \in 1..n + 1 /\ r.index[Shifted(p, i)] = dict.index[i]
      BY <1>1, <2>1, PlacedOld
    <2> QED BY <2>2, <2>3
  <1>6. Kept(r, f)
    BY DEF a
  <1> HIDE DEF r
  <1>7. IdsHeld(dict, r)
    BY <1>2, <1>4, <1>5, <1>6, EntriesHold
  <1> QED BY <1>7 DEF r, a

(* put_lemma, when it need not load the dictionary anew. *)
LEMMA PutHolds ==
    ASSUME NEW dict, NEW f, Kept(dict, f), NEW w \in Lemmas, NEW count \in Nat, NEW week \in Nat,
           ~(NoRoom(dict) /\ ~LimitReached(dict) /\ LocateInOffsets(dict, w) = 0)
    PROVE  IdsHeld(dict, PutLemma(dict, f, w, count, week).d)
  <1> DEFINE k     == LocateInOffsets(dict, w)
             score == BuildScore(week, count)
             added == AppendALemma(dict, w, score)
             r     == PutLemma(dict, f, w, count, week)
  <1>1. score \in Score
    BY BuildScoreFits
  <1>2. Len(dict.index) \in Nat /\ k \in 0..Len(dict.index) /\ Good(dict, f)
    BY LocateRange, SegmentsOfIndex DEF Good, Kept
  <1>3. Kept(r.d, r.file)
    BY PutKept
  <1>4. CASE k # 0
    <2>1. k \in 1..Len(dict.index)
      BY <1>2, <1>4
    <2>2. r.d = Scored(dict, k, score)
      BY <1>4 DEF PutLemma, Scored
    <2> HIDE DEF k, score, r
    <2> DEFINE s == Scored(dict, k, score)
    <2>3. /\ s.block = dict.block /\ s.by_id = dict.by_id /\ Len(s.index) = Len(dict.index)
          /\ \A j \in 1..Len(dict.index) :
                s.index[j].off = dict.index[j].off /\ s.index[j].id = dict.index[j].id
      BY <2>1, ScoreStays
    <2> HIDE DEF s
    <2>4. IdsHeld(dict, s)
      BY <1>3, <2>2, <2>3, SameHold DEF s
    <2> QED BY <2>2, <2>4 DEF r, s
  <1>5. CASE k = 0 /\ LimitReached(dict)
    <2>1. r.d = dict
      BY <1>5 DEF PutLemma
    <2> QED BY <2>1, SameHold
  <1>6. CASE k = 0 /\ ~LimitReached(dict)
    <2>1. ~NoRoom(dict) /\ dict.left # 0
      BY <1>6 DEF NoRoom
    <2>2. r = [d |-> QueueLemmaForSync(added, Len(added.index)), file |-> f]
      BY <1>6, <2>1 DEF PutLemma
    <2> HIDE DEF score, k
    <2>3. IdsHeld(dict, QueueLemmaForSync(added, Len(added.index)))
      BY <1>1, <1>3, <2>1, <2>2, AppendHolds
    <2> QED BY <2>2, <2>3
  <1> QED BY <1>4, <1>5, <1>6

(* update_lemma. *)
LEMMA UpdateHolds ==
    ASSUME NEW dict, NEW f, Kept(dict, f), NEW id, NEW week \in Nat
    PROVE  IdsHeld(dict, UpdateLemma(dict, id, 1, TRUE, week))
  <1> DEFINE k == LocateInOffsets(dict, dict.block[dict.by_id[id]])
             r == UpdateLemma(dict, id, 1, TRUE, week)
  <1>1. Good(dict, f) /\ Kept(r, f)
    BY UpdateKept DEF Kept
  <1>2. Len(dict.index) \in Nat /\ k \in 0..Len(dict.index)
    BY <1>1, LocateRange, SegmentsOfIndex DEF Good
  <1>3. CASE k = 0
    <2>1. r = dict
      BY <1>3 DEF UpdateLemma
    <2> QED BY <2>1, SameHold
  <1>4. CASE k # 0
    <2>1. k \in 1..Len(dict.index)
      BY <1>2, <1>4
    <2>2. \E score \in Score : r = QueueLemmaForSync(Scored(dict, k, score), dict.index[k].id)
      <3>1. 1 \in Nat /\ TRUE \in BOOLEAN
        OBVIOUS
      <3> QED BY <1>1, <2>1, <3>1, UpdateQueues
    <2> HIDE DEF k, r
    <2> PICK score \in Score : r = QueueLemmaForSync(Scored(dict, k, score), dict.index[k].id)
      BY <2>2
    <2> DEFINE s == Scored(dict, k, score)
    <2>3. /\ s.block = dict.block /\ s.by_id = dict.by_id /\ Len(s.index) = Len(dict.index)
          /\ \A j \in 1..Len(dict.index) :
                s.index[j].off = dict.index[j].off /\ s.index[j].id = dict.index[j].id
      BY <2>1, ScoreStays
    <2>4. Good(s, f)
      BY <2>1, ScoreKept DEF Kept
    <2> HIDE DEF s
    <2>5. r.block = s.block /\ r.index = s.index /\ r.by_id = s.by_id
      BY <2>4, QueueFields DEF s
    <2>6. IdsHeld(dict, r)
      BY <1>1, <2>3, <2>5, SameHold
    <2> QED BY <2>6 DEF r
  <1> QED BY <1>3, <1>4

(* remove_lemma. *)
LEMMA RemoveHolds ==
    ASSUME NEW dict, NEW f, Kept(dict, f), NEW id
    PROVE  IdsHeld(dict, RemoveLemma(dict, id))
  <1> DEFINE k == LocateInOffsets(dict, dict.block[dict.by_id[id]])
             r == RemoveLemma(dict, id)
  <1>1. Good(dict, f) /\ Kept(r, f)
    BY RemoveLemmaKept DEF Kept
  <1>2. Len(dict.index) \in Nat /\ k \in 0..Len(dict.index)
    BY <1>1, LocateRange, SegmentsOfIndex DEF Good
  <1>3. CASE k = 0
    <2>1. r = dict
      BY <1>3 DEF RemoveLemma
    <2> QED BY <2>1, SameHold
  <1>4. CASE k # 0
    <2>1. k \in 1..Len(dict.index) /\ r = RemoveLemmaByOffsetIndex(dict, k)
      BY <1>2, <1>4 DEF RemoveLemma
    <2> HIDE DEF k, r
    <2>2. /\ r.block = dict.block /\ r.by_id = dict.by_id /\ Len(r.index) = Len(dict.index)
          /\ \A j \in 1..Len(dict.index) :
                r.index[j].off = dict.index[j].off /\ r.index[j].id = dict.index[j].id
      BY <1>1, <2>1, RemoveFields, Zenon
    <2>3. IdsHeld(dict, r)
      BY <1>1, <2>2, SameHold
    <2> QED BY <2>3 DEF r
  <1> QED BY <1>3, <1>4

(* An id stands for the lemma it was handed out for until the dictionary is
   loaded anew, through every put that finds room, update, removal and search. *)
THEOREM IdsCorrect == Spec => IdsStay
  <1> DEFINE Step == Reloads \/ \A id \in {d.index[k].id : k \in Positions} :
                        /\ d'.by_id[id] = d.by_id[id]
                        /\ d'.block[d'.by_id[id]] = d.block[d.by_id[id]]
                        /\ SlotsOf(d', id) = {d.by_id[id]}
  <1>1. ASSUME Kept(d, file), [Next]_vars PROVE [Step]_vars
    <2> SUFFICES ASSUME Next, ~Reloads PROVE IdsHeld(d, d')
      BY <1>1 DEF IdsHeld, Positions
    <2>1. ASSUME NEW w \in Lemmas, NEW week \in Weeks, Put(w, week) PROVE IdsHeld(d, d')
      <3>1. week \in Nat /\ 1 \in Nat
        BY SizesAssumption
      <3>2. ~(NoRoom(d) /\ ~LimitReached(d) /\ LocateInOffsets(d, w) = 0)
        BY <2>1 DEF Reloads
      <3>3. d' = PutLemma(d, file, w, 1, week).d
        BY <2>1 DEF Put
      <3> QED BY <1>1, <3>1, <3>2, <3>3, PutHolds
    <2>2. ASSUME NEW id \in 1..Len(d.index), NEW week \in Weeks, Update(id, week)
          PROVE  IdsHeld(d, d')
      <3>1. week \in Nat
        BY SizesAssumption
      <3> QED BY <1>1, <2>2, <3>1, UpdateHolds DEF Update
    <2>3. ASSUME NEW id \in 1..Len(d.index), Remove(id) PROVE IdsHeld(d, d')
      BY <1>1, <2>3, RemoveHolds DEF Remove
    <2>4. ASSUME NEW q \in Queries, NEW max \in Rooms, Search(q, max) PROVE IdsHeld(d, d')
      <3> DEFINE r == GetLpis(d, q, max)
      <3>1. Kept(r, file) /\ r.block = d.block /\ r.index = d.index /\ r.by_id = d.by_id
        BY <1>1, GetLpisKept, GetLpisFields DEF Kept
      <3>2. d' = r
        BY <2>4 DEF Search
      <3> HIDE DEF r
      <3> QED BY <1>1, <3>1, <3>2, SameHold
    <2> QED BY <2>1, <2>2, <2>3, <2>4 DEF Next, Reloads
  <1> QED BY <1>1, KeptInductive, PTL DEF Spec, IdsStay

(* Lists that mirror each other have the same entries. *)
LEMMA MirrorsSame ==
    ASSUME NEW preds, NEW index, NEW n, Distinct(preds), Mirrors(preds, index),
           Len(preds) = n, Len(index) = n, \A k \in 1..n : preds[k] \in Flagged
    PROVE  /\ {preds[k] : k \in 1..n} = {[off |-> index[k].off, rm |-> index[k].rm] : k \in 1..n}
           /\ \A i, j \in 1..n : i # j => preds[i].off # preds[j].off
  <1> DEFINE P == {preds[k] : k \in 1..n}
             I == {[off |-> index[k].off, rm |-> index[k].rm] : k \in 1..n}
  <1>1. \A k \in 1..n : preds[k] = [off |-> preds[k].off, rm |-> preds[k].rm]
    BY DEF Flagged
  <1>2. ASSUME NEW k \in 1..n PROVE preds[k] \in I
    <2>1. PICK j \in 1..n : preds[k].off = index[j].off /\ preds[k].rm = index[j].rm
      BY Zenon DEF Mirrors
    <2>2. preds[k] = [off |-> index[j].off, rm |-> index[j].rm]
      BY <1>1, <2>1, Zenon
    <2> QED BY <2>2
  <1>3. ASSUME NEW k \in 1..n PROVE [off |-> index[k].off, rm |-> index[k].rm] \in P
    <2>1. PICK j \in 1..n : preds[j].off = index[k].off /\ preds[j].rm = index[k].rm
      BY Zenon DEF Mirrors
    <2>2. preds[j] = [off |-> index[k].off, rm |-> index[k].rm]
      BY <1>1, <2>1, Zenon
    <2> QED BY <2>2
  <1>4. P = I
    BY <1>2, <1>3
  <1>5. \A i, j \in 1..n : i # j => preds[i].off # preds[j].off
    BY DEF Distinct
  <1> QED BY <1>4, <1>5

(* The prediction list holds the lemmas of the index, with the same flags. *)
THEOREM PredictionsCorrect == Spec => []PredictsMirrorOffsets
  <1>1. ASSUME Kept(d, file) PROVE PredictsMirrorOffsets
    <2>1. /\ Distinct(d.preds) /\ Mirrors(d.preds, d.index) /\ Len(d.preds) = Len(d.index)
          /\ \A k \in 1..Len(d.index) : d.preds[k] \in Flagged
      BY <1>1, GoodTypes DEF Kept, Orderly
    <2> QED BY <2>1, MirrorsSame DEF PredictsMirrorOffsets, Positions
  <1> QED BY <1>1, KeptInductive, PTL

(* The index is sorted, so the binary search may be used on it. *)
THEOREM IndexCorrect == Spec => []IndexSorted
  <1>1. ASSUME Kept(d, file) PROVE IndexSorted
    <2>1. /\ Sorted(d.block, d.index)
          /\ \A k \in 1..Len(d.index) : d.block[d.index[k].off] \in Lemmas
      BY <1>1, GoodTypes DEF Kept, Orderly
    <2>2. ASSUME NEW i \in Positions, NEW j \in Positions, i < j
          PROVE  CompareAt(d.block, d.index, i, Searchable(LemmaAt(d.block, d.index, j).spl)) <= 0
      <3> DEFINE q == LemmaAt(d.block, d.index, j).spl
                 s == Searchable(q)
                 a == Key(d.block[d.index[i].off].spl)
                 c == CompareAt(d.block, d.index, i, s)
      <3>1. d.block[d.index[i].off] \in Lemmas /\ d.block[d.index[j].off] \in Lemmas
        BY <2>1 DEF Positions
      <3>2. IsSearchable(s) /\ s.sig = Key(q)
        BY <3>1, LemmaSpells, SearchableTyped DEF LemmaAt
      <3>3. ~Below(Key(q), a)
        BY <2>1, <2>2 DEF Sorted, Positions, LemmaAt
      <3> HIDE DEF s, q
      <3>4. c \in {-1, 0, 1} /\ (c = 1 <=> Below(s.sig, a))
        BY <3>1, <3>2, CompareAtExact, Zenon
      <3>5. c # 1
        BY <3>2, <3>3, <3>4, Zenon
      <3> HIDE DEF c
      <3>6. c <= 0
        BY <3>4, <3>5
      <3> QED BY <3>6 DEF c, s, q
    <2> QED BY <2>2 DEF IndexSorted
  <1> QED BY <1>1, KeptInductive, PTL
=============================================================================
