------------------------ MODULE UserDictStoreProofs -------------------------
(***************************************************************************)
(* The proof that UserDict implements LemmaStore: under the mapping of     *)
(* ImplementsStore each call of the object is one step of the plain store, *)
(* or none.  The invariant Good is enough: a call changes one entry of the *)
(* index, and so what the store shows of the lemma of that entry alone,    *)
(* whether or not another entry holds the same lemma.                      *)
(***************************************************************************)
EXTENDS UserDictOrderProofs

(* What an object and what a file show. *)
StoreOf(dict) == StoreIn(dict.block, dict.index, ScoresOf(dict.index))
SavedIn(f) == StoreIn(f.block, f.offs, f.scores)

(* The entries in use of lemma v. *)
InUse(block, offs, v) == {k \in 1..Len(offs) : ~offs[k].rm /\ block[offs[k].off] = v}

Stored == Score \cup {-1}

-----------------------------------------------------------------------------
(* What StoreIn shows of one lemma. *)

(* It is the score of the first entry in use. *)
LEMMA StoreInIs ==
    ASSUME NEW block, NEW offs, NEW scores, NEW v \in Lemmas
    PROVE  StoreIn(block, offs, scores)[v] =
               IF InUse(block, offs, v) = {} THEN -1 ELSE scores[Least(InUse(block, offs, v))]
  BY DEF StoreIn, InUse

(* Entries are positions, so a nonempty set of them has a least one. *)
LEMMA InUseLeast ==
    ASSUME NEW block, NEW offs, NEW v, Len(offs) \in Nat, InUse(block, offs, v) # {}
    PROVE  /\ InUse(block, offs, v) \in SUBSET Nat
           /\ Least(InUse(block, offs, v)) \in InUse(block, offs, v)
           /\ Least(InUse(block, offs, v)) \in 1..Len(offs)
           /\ \A k \in InUse(block, offs, v) : Least(InUse(block, offs, v)) <= k
  <1> DEFINE S == InUse(block, offs, v)
  <1>1. S \in SUBSET Nat /\ \A k \in S : k \in 1..Len(offs)
    BY DEF InUse
  <1> HIDE DEF S
  <1>2. S # {}
    BY DEF S
  <1>3. Least(S) \in S /\ \A y \in S : Least(S) <= y
    BY <1>1, <1>2, LeastIn
  <1> QED BY <1>1, <1>3 DEF S

(* A store has a score, or none, for every lemma. *)
LEMMA StoreInTyped ==
    ASSUME NEW block, NEW offs, NEW scores, Len(offs) \in Nat,
           \A k \in 1..Len(offs) : scores[k] \in Score
    PROVE  StoreIn(block, offs, scores) \in [Lemmas -> Stored]
  <1> DEFINE s == StoreIn(block, offs, scores)
  <1>1. s = [v \in Lemmas |-> s[v]]
    BY DEF StoreIn
  <1>2. ASSUME NEW v \in Lemmas PROVE s[v] \in Stored
    <2>1. s[v] = IF InUse(block, offs, v) = {} THEN -1 ELSE scores[Least(InUse(block, offs, v))]
      BY StoreInIs
    <2>2. InUse(block, offs, v) # {} => Least(InUse(block, offs, v)) \in 1..Len(offs)
      BY InUseLeast
    <2> QED BY <2>1, <2>2 DEF Stored
  <1> HIDE DEF s
  <1>3. s \in [Lemmas -> Stored]
    BY <1>1, <1>2
  <1> QED BY <1>3 DEF s

(* Two lists of the same lemmas, which agree on the entries of lemma v. *)
Alike(block, offs, scores, block2, offs2, scores2, v) ==
    /\ Len(offs) \in Nat /\ Len(offs2) = Len(offs)
    /\ \A k \in 1..Len(offs) :
          /\ block2[offs2[k].off] = block[offs[k].off]
          /\ block[offs[k].off] = v => offs2[k].rm = offs[k].rm /\ scores2[k] = scores[k]

(* Such lists show the same of it. *)
LEMMA StoreInAlike ==
    ASSUME NEW block, NEW offs, NEW scores, NEW block2, NEW offs2, NEW scores2, NEW v \in Lemmas,
           Alike(block, offs, scores, block2, offs2, scores2, v)
    PROVE  StoreIn(block2, offs2, scores2)[v] = StoreIn(block, offs, scores)[v]
  <1> DEFINE S == InUse(block, offs, v)
  <1>1. InUse(block2, offs2, v) = S
    BY DEF InUse, Alike
  <1>2. S # {} => scores2[Least(S)] = scores[Least(S)]
    <2> SUFFICES ASSUME S # {} PROVE scores2[Least(S)] = scores[Least(S)]
      OBVIOUS
    <2>1. Least(S) \in S /\ Least(S) \in 1..Len(offs)
      BY InUseLeast DEF Alike
    <2>2. block[offs[Least(S)].off] = v
      BY <2>1 DEF InUse
    <2> HIDE DEF S
    <2> QED BY <2>1, <2>2 DEF Alike
  <1> HIDE DEF S
  <1>3. StoreIn(block, offs, scores)[v] = IF S = {} THEN -1 ELSE scores[Least(S)]
    BY StoreInIs DEF S
  <1>4. StoreIn(block2, offs2, scores2)[v] = IF S = {} THEN -1 ELSE scores2[Least(S)]
    BY <1>1, StoreInIs
  <1> QED BY <1>2, <1>3, <1>4

(* The second list has one entry more, e. *)
Longer(block, offs, block2, offs2, p, e) ==
    /\ Len(offs) \in Nat
    /\ Placed(offs2, offs, p, e)
    /\ \A k \in 1..Len(offs) : block2[offs[k].off] = block[offs[k].off]

(* Of any other lemma than that of the entry it shows the same. *)
LEMMA StoreInLonger ==
    ASSUME NEW block, NEW offs, NEW block2, NEW offs2, NEW p, NEW e, NEW v \in Lemmas,
           Longer(block, offs, block2, offs2, p, e), block2[e.off] # v
    PROVE  StoreIn(block2, offs2, ScoresOf(offs2))[v] = StoreIn(block, offs, ScoresOf(offs))[v]
  <1> DEFINE n == Len(offs)
             S == InUse(block, offs, v)
             T == InUse(block2, offs2, v)
  <1>0. /\ n \in Nat /\ Placed(offs2, offs, p, e)
        /\ \A k \in 1..n : block2[offs[k].off] = block[offs[k].off]
    BY DEF Longer
  <1>1. /\ p \in 1..n + 1 /\ Len(offs2) = n + 1 /\ offs2[p] = e
        /\ \A j \in 1..n + 1 : j # p => Old(p, j) \in 1..n /\ offs2[j] = offs[Old(p, j)]
        /\ \A i \in 1..n : /\ Shifted(p, i) \in 1..n + 1 /\ Shifted(p, i) # p
                           /\ offs2[Shifted(p, i)] = offs[i]
    <2>1. p \in 1..n + 1 /\ Len(offs2) = n + 1 /\ offs2[p] = e
      BY <1>0 DEF Placed
    <2> QED BY <1>0, <2>1, PlacedOld
  <1>2. \A i, j \in 1..n : i <= j => Shifted(p, i) <= Shifted(p, j)
    BY <1>0, <1>1 DEF Shifted
  <1>3. ASSUME NEW j \in T PROVE j \in 1..n + 1 /\ Old(p, j) \in S /\ j = Shifted(p, Old(p, j))
    <2>1. j \in 1..n + 1 /\ ~offs2[j].rm /\ block2[offs2[j].off] = v
      BY <1>1, <1>3 DEF InUse
    <2>2. j # p
      BY <1>1, <2>1
    <2>3. Old(p, j) \in 1..n /\ offs2[j] = offs[Old(p, j)]
      BY <1>1, <2>1, <2>2
    <2>4. Old(p, j) \in S
      <3>1. ~offs[Old(p, j)].rm /\ block[offs[Old(p, j)].off] = v
        BY <1>0, <2>1, <2>3
      <3> QED BY <2>3, <3>1, Zenon DEF InUse
    <2>5. j = Shifted(p, Old(p, j))
      BY <1>0, <1>1, <2>1, <2>2 DEF Old, Shifted
    <2> QED BY <2>1, <2>4, <2>5
  <1>4. ASSUME NEW i \in S PROVE Shifted(p, i) \in T
    <2>1. i \in 1..n /\ ~offs[i].rm /\ block[offs[i].off] = v
      BY <1>4 DEF InUse
    <2>2. Shifted(p, i) \in 1..n + 1 /\ offs2[Shifted(p, i)] = offs[i]
      BY <1>1, <2>1
    <2>3. ~offs2[Shifted(p, i)].rm /\ block2[offs2[Shifted(p, i)].off] = v
      BY <1>0, <2>1, <2>2
    <2> QED BY <1>1, <2>2, <2>3, Zenon DEF InUse
  <1>5. /\ StoreIn(block, offs, ScoresOf(offs))[v] =
               IF S = {} THEN -1 ELSE ScoresOf(offs)[Least(S)]
        /\ StoreIn(block2, offs2, ScoresOf(offs2))[v] =
               IF T = {} THEN -1 ELSE ScoresOf(offs2)[Least(T)]
    BY StoreInIs
  <1>6. CASE S = {}
    <2>1. T = {}
      BY <1>3, <1>6
    <2> QED BY <1>5, <1>6, <2>1
  <1>7. CASE S # {}
    <2> DEFINE m == Least(S)
    <2>1. m \in S /\ m \in 1..n /\ S \in SUBSET Nat /\ \A k \in S : m <= k
      BY <1>0, <1>7, InUseLeast
    <2>2. \A k \in S : k \in 1..n
      BY DEF InUse
    <2> HIDE DEF m, S, T
    <2>3. Shifted(p, m) \in T /\ T \in SUBSET Nat
      BY <1>3, <1>4, <2>1, <2>2
    <2>4. \A j \in T : Shifted(p, m) <= j
      BY <1>2, <1>3, <2>1, <2>2
    <2>5. Least(T) = Shifted(p, m) /\ T # {}
      BY <2>3, <2>4, LeastIs
    <2>6. Shifted(p, m) \in 1..Len(offs2) /\ offs2[Shifted(p, m)] = offs[m]
      BY <1>1, <2>1
    <2>7. ScoresOf(offs2)[Shifted(p, m)] = offs[m].score /\ ScoresOf(offs)[m] = offs[m].score
      BY <2>1, <2>6 DEF ScoresOf
    <2> QED BY <1>5, <1>7, <2>5, <2>7 DEF m
  <1> QED BY <1>6, <1>7

-----------------------------------------------------------------------------
(* What each function does to the store. *)

(* Store t is s, but for lemma w. *)
Touches(w, s, t) ==
    /\ t \in [Lemmas -> Stored]
    /\ \A v \in Lemmas : v # w => t[v] = s[v]

(* A store that differs in one lemma is the other with that lemma written or
   forgotten. *)
LEMMA TouchIs ==
    ASSUME NEW w \in Lemmas, NEW s \in [Lemmas -> Stored], NEW t, Touches(w, s, t)
    PROVE  (\E x \in Score : t = [s EXCEPT ![w] = x]) \/ t = [s EXCEPT ![w] = -1]
  <1>1. t \in [Lemmas -> Stored] /\ \A v \in Lemmas : v # w => t[v] = s[v]
    BY DEF Touches
  <1>2. t[w] \in Score \/ t[w] = -1
    BY <1>1 DEF Stored
  <1>3. t = [s EXCEPT ![w] = t[w]]
    BY <1>1
  <1> QED BY <1>2, <1>3

(* The store of an object has a score, or none, for every lemma. *)
LEMMA StoreTyped ==
    ASSUME NEW dict, NEW f, Good(dict, f)
    PROVE  StoreOf(dict) \in [Lemmas -> Stored] /\ SavedIn(f) \in [Lemmas -> Stored]
  <1>1. /\ Len(dict.index) \in Nat
        /\ \A k \in 1..Len(dict.index) : ScoresOf(dict.index)[k] \in Score
    BY GoodTypes DEF ScoresOf, Entry
  <1>2. /\ Len(f.offs) \in Nat
        /\ \A k \in 1..Len(f.offs) : f.scores[k] \in Score
    <2>1. f.offs \in Seq(Flagged) /\ f.scores \in Seq(Score) /\ Len(f.scores) = Len(f.offs)
      BY DEF Good, FileOK, FileTypes, Validate
    <2> QED BY <2>1, LenProperties, ElementOfSeq
  <1> QED BY <1>1, <1>2, StoreInTyped DEF StoreOf, SavedIn

(* A score, or a flag, of one entry. *)
LEMMA EntryTouches ==
    ASSUME NEW dict, NEW f, Good(dict, f), NEW r, NEW g, Good(r, g), NEW k \in 1..Len(dict.index),
           r.block = dict.block, Len(r.index) = Len(dict.index),
           \A j \in 1..Len(dict.index) :
               /\ r.index[j].off = dict.index[j].off
               /\ j # k => r.index[j].rm = dict.index[j].rm /\ r.index[j].score = dict.index[j].score
    PROVE  Touches(dict.block[dict.index[k].off], StoreOf(dict), StoreOf(r))
  <1> DEFINE w   == dict.block[dict.index[k].off]
             b   == dict.block
             b2  == r.block
             ix  == dict.index
             ix2 == r.index
             sc  == ScoresOf(ix)
             sc2 == ScoresOf(ix2)
  <1>1. StoreOf(r) \in [Lemmas -> Stored]
    BY StoreTyped
  <1>2. Len(ix) \in Nat /\ Len(ix2) = Len(ix)
    BY GoodTypes
  <1>3. \A j \in 1..Len(ix) : sc2[j] = ix2[j].score /\ sc[j] = ix[j].score
    BY DEF ScoresOf
  <1>4. \A j \in 1..Len(ix) : b2[ix2[j].off] = b[ix[j].off]
    OBVIOUS
  <1>5. \A j \in 1..Len(ix) :
           b[ix[j].off] # w => ix2[j].rm = ix[j].rm /\ ix2[j].score = ix[j].score
    <2> TAKE j \in 1..Len(ix)
    <2> HAVE b[ix[j].off] # w
    <2>1. j # k
      OBVIOUS
    <2> QED BY <2>1
  <1> HIDE DEF w, b, b2, ix, ix2, sc, sc2
  <1>6. ASSUME NEW v \in Lemmas, v # w
        PROVE  StoreIn(b2, ix2, sc2)[v] = StoreIn(b, ix, sc)[v]
    <2>1. \A j \in 1..Len(ix) : b[ix[j].off] = v => ix2[j].rm = ix[j].rm /\ sc2[j] = sc[j]
      BY <1>3, <1>5, <1>6, Zenon
    <2>2. Alike(b, ix, sc, b2, ix2, sc2, v)
      BY <1>2, <1>4, <2>1, Zenon DEF Alike
    <2> QED BY <2>2, StoreInAlike
  <1> QED BY <1>1, <1>6 DEF Touches, StoreOf, w, b, b2, ix, ix2, sc, sc2

(* Objects with the same block and the same entries in use show the same. *)
LEMMA StoreSame ==
    ASSUME NEW block, NEW offs, NEW scores, NEW offs2, NEW scores2,
           Len(offs) \in Nat, Len(offs2) = Len(offs),
           \A k \in 1..Len(offs) : /\ offs2[k].off = offs[k].off /\ offs2[k].rm = offs[k].rm
                                   /\ scores2[k] = scores[k]
    PROVE  StoreIn(block, offs2, scores2) = StoreIn(block, offs, scores)
  <1> DEFINE s == StoreIn(block, offs, scores)
             t == StoreIn(block, offs2, scores2)
  <1>1. s = [v \in Lemmas |-> s[v]] /\ t = [v \in Lemmas |-> t[v]]
    BY DEF StoreIn
  <1>2. ASSUME NEW v \in Lemmas PROVE t[v] = s[v]
    <2>1. Alike(block, offs, scores, block, offs2, scores2, v)
      BY DEF Alike
    <2> QED BY <2>1, StoreInAlike
  <1> HIDE DEF s, t
  <1>3. s = t
    BY <1>1, <1>2
  <1> QED BY <1>3 DEF s, t

(* Segments of the index show what the index shows. *)
LEMMA ImageStore ==
    ASSUME NEW dict, NEW f, Good(dict, f)
    PROVE  SavedIn(Image(dict)) = StoreOf(dict)
  <1>1. /\ Len(dict.index) \in Nat /\ Len(OffsetsOf(dict.index)) = Len(dict.index)
    BY SegmentsOfIndex DEF Good
  <1>2. \A k \in 1..Len(dict.index) : /\ OffsetsOf(dict.index)[k].off = dict.index[k].off
                                      /\ OffsetsOf(dict.index)[k].rm = dict.index[k].rm
    BY DEF OffsetsOf
  <1>3. StoreIn(dict.block, OffsetsOf(dict.index), ScoresOf(dict.index)) = StoreOf(dict)
    BY <1>1, <1>2, StoreSame DEF StoreOf
  <1> QED BY <1>3 DEF SavedIn, Image

(* load(): the object shows what the file shows. *)
LEMMA LoadStore ==
    ASSUME NEW f, FileOK(f)
    PROVE  StoreOf(Load(f)) = SavedIn(f)
  <1> DEFINE r == Load(f)
             n == Len(f.offs)
  <1>1. Good(r, f)
    BY LoadGood
  <1>2. n \in Nat
    BY LenProperties DEF FileOK, FileTypes
  <1>3. /\ r.block = f.block
        /\ r.index = [k \in 1..n |-> [off |-> f.offs[k].off, rm |-> f.offs[k].rm,
                                      score |-> f.scores[k], id |-> k]]
    BY DEF Load
  <1> HIDE DEF r
  <1>4. Len(r.index) = n
    <2>1. r.index \in Seq(Entry)
      BY <1>1, GoodTypes
    <2>2. DOMAIN r.index = 1..n /\ DOMAIN r.index = 1..Len(r.index) /\ Len(r.index) \in Nat
      BY <1>3, <2>1, LenProperties
    <2> QED BY <1>2, <2>2
  <1>5. \A k \in 1..n : /\ r.index[k].off = f.offs[k].off /\ r.index[k].rm = f.offs[k].rm
                        /\ r.index[k].score = f.scores[k]
    BY <1>3
  <1>6. \A k \in 1..n : ScoresOf(r.index)[k] = f.scores[k]
    BY <1>4, <1>5 DEF ScoresOf
  <1>7. StoreIn(f.block, r.index, ScoresOf(r.index)) = SavedIn(f)
    BY <1>2, <1>4, <1>5, <1>6, StoreSame DEF SavedIn
  <1> QED BY <1>3, <1>7 DEF StoreOf, r

(* flush_cache: the object shows what it showed, and the file the same. *)
LEMMA FlushStore ==
    ASSUME NEW dict, NEW f, Good(dict, f)
    PROVE  LET r == FlushCache(dict, f, dict.syncs)
           IN  /\ Good(r.d, r.file) /\ r.d.left # 0
               /\ StoreOf(r.d) = StoreOf(dict) /\ SavedIn(r.file) = StoreOf(dict)
  <1>1. FileOK(Image(dict))
    BY ImageOK DEF Good
  <1>2. FlushCache(dict, f, dict.syncs) = [d |-> Load(Image(dict)), file |-> Image(dict)]
    BY <1>1, WriteBackIsImage DEF FlushCache, Accepted, FileOK
  <1>3. Load(Image(dict)).left # 0 /\ Good(Load(Image(dict)), Image(dict))
    <2>1. Load(Image(dict)).left = PreAlloc /\ Good(Load(Image(dict)), Image(dict))
      BY <1>1, LoadGood, Zenon
    <2>2. PreAlloc # 0
      BY SizesAssumption
    <2> QED BY <2>1, <2>2, Zenon
  <1>4. StoreOf(Load(Image(dict))) = SavedIn(Image(dict)) /\ SavedIn(Image(dict)) = StoreOf(dict)
    BY <1>1, LoadStore, ImageStore
  <1> QED BY <1>2, <1>3, <1>4

(* append_a_lemma: the lemma gets a score. *)
LEMMA AppendWrites ==
    ASSUME NEW dict, NEW f, Good(dict, f), dict.left # 0, NEW w \in Lemmas, NEW score \in Score
    PROVE  \E x \in Score :
               StoreOf(AppendALemma(dict, w, score)) = [StoreOf(dict) EXCEPT ![w] = x]
  <1> DEFINE r  == AppendALemma(dict, w, score)
             ix == dict.index
             n  == Len(ix)
             p  == InsertPosition(r.block, ix, w)
             e  == [off |-> n + 1, rm |-> FALSE, score |-> score, id |-> n + 1]
             t  == StoreOf(r)
  <1>1. Good(r, f) /\ n \in Nat /\ \A k \in 1..n : ix[k].off \in 1..n
    BY AppendGood, GoodTypes
  <1>2. /\ r.block[n + 1] = w /\ \A i \in 1..n : r.block[i] = dict.block[i]
        /\ Placed(r.index, ix, p, e)
    BY AppendPlaces, Zenon
  <1>3. e.off = n + 1 /\ e.rm = FALSE
    OBVIOUS
  <1> HIDE DEF r, p, e
  <1>4. \A k \in 1..n : r.block[ix[k].off] = dict.block[ix[k].off]
    BY <1>1, <1>2
  <1>5. t \in [Lemmas -> Stored] /\ StoreOf(dict) \in [Lemmas -> Stored]
    BY <1>1, StoreTyped
  <1>6. ASSUME NEW v \in Lemmas, v # w
        PROVE  t[v] = StoreOf(dict)[v]
    <2>1. r.block[e.off] # v
      BY <1>2, <1>3, <1>6
    <2> DEFINE b2 == r.block
               ix2 == r.index
    <2>2. /\ Len(ix) \in Nat /\ Placed(ix2, ix, p, e) /\ b2[e.off] # v
          /\ \A k \in 1..Len(ix) : b2[ix[k].off] = dict.block[ix[k].off]
      BY <1>1, <1>2, <1>4, <2>1
    <2> HIDE DEF ix, b2, ix2
    <2>3. StoreIn(b2, ix2, ScoresOf(ix2))[v] = StoreIn(dict.block, ix, ScoresOf(ix))[v]
      <3>1. Longer(dict.block, ix, b2, ix2, p, e)
        BY <2>2 DEF Longer
      <3> QED BY <2>2, <3>1, StoreInLonger
    <2> QED BY <2>3 DEF StoreOf, ix, b2, ix2
  <1>7. Touches(w, StoreOf(dict), t)
    BY <1>5, <1>6 DEF Touches
  <1>8. t[w] # -1
    <2> DEFINE S == InUse(r.block, r.index, w)
    <2>1. p \in 1..Len(r.index) /\ r.index[p] = e /\ Len(r.index) \in Nat
      BY <1>1, <1>2 DEF Placed
    <2>2. p \in S
      BY <1>2, <1>3, <2>1 DEF InUse
    <2>3. Least(S) \in 1..Len(r.index)
      BY <2>1, <2>2, InUseLeast
    <2>4. t[w] = ScoresOf(r.index)[Least(S)]
      BY <2>2, StoreInIs DEF StoreOf
    <2> HIDE DEF S, t
    <2>5. t[w] = r.index[Least(S)].score
      BY <2>3, <2>4 DEF ScoresOf
    <2>6. r.index[Least(S)].score \in Score
      BY <1>1, <2>3, GoodTypes DEF Entry
    <2> QED BY <2>5, <2>6 DEF Score
  <1> HIDE DEF t
  <1>9. PICK x \in Stored : t = [StoreOf(dict) EXCEPT ![w] = x] /\ x = t[w]
    BY <1>5, <1>7 DEF Touches
  <1> QED BY <1>8, <1>9 DEF Stored, t, r

(* remove_lemma_by_offset_index: one lemma loses its score, or, were it in
   use twice, gets that of its next entry. *)
LEMMA RemoveTouches ==
    ASSUME NEW dict, NEW f, Good(dict, f), NEW k \in 1..Len(dict.index)
    PROVE  \E w \in Lemmas :
               Touches(w, StoreOf(dict), StoreOf(RemoveLemmaByOffsetIndex(dict, k)))
  <1> DEFINE r == RemoveLemmaByOffsetIndex(dict, k)
             w == dict.block[dict.index[k].off]
  <1>1. Good(r, f)
    BY RemoveGood
  <1>2. /\ r.block = dict.block /\ Len(r.index) = Len(dict.index)
        /\ \A j \in 1..Len(dict.index) :
              /\ r.index[j].off = dict.index[j].off
              /\ j # k => r.index[j].rm = dict.index[j].rm /\ r.index[j].score = dict.index[j].score
    BY RemoveFields
  <1>3. w \in Lemmas
    BY GoodTypes
  <1> HIDE DEF r
  <1>4. Touches(w, StoreOf(dict), StoreOf(r))
    BY <1>1, <1>2, EntryTouches
  <1> QED BY <1>3, <1>4 DEF r

(* A new score for an entry. *)
LEMMA ScoreTouches ==
    ASSUME NEW dict, NEW f, Good(dict, f), NEW k \in 1..Len(dict.index), NEW score \in Score
    PROVE  \E w \in Lemmas : Touches(w, StoreOf(dict), StoreOf(Scored(dict, k, score)))
  <1> DEFINE r == Scored(dict, k, score)
             w == dict.block[dict.index[k].off]
  <1>1. Good(r, f)
    BY ScoreGood
  <1>2. /\ r.block = dict.block /\ Len(r.index) = Len(dict.index)
        /\ \A j \in 1..Len(dict.index) :
              /\ r.index[j].off = dict.index[j].off
              /\ j # k => r.index[j].rm = dict.index[j].rm /\ r.index[j].score = dict.index[j].score
    BY ScoreFields
  <1>3. w \in Lemmas
    BY GoodTypes
  <1> HIDE DEF r
  <1>4. Touches(w, StoreOf(dict), StoreOf(r))
    BY <1>1, <1>2, EntryTouches
  <1> QED BY <1>3, <1>4 DEF r

(* queue_lemma_for_sync and get_lpis: the store stays. *)
LEMMA QueueStore ==
    ASSUME NEW dict, NEW f, Good(dict, f), NEW id
    PROVE  StoreOf(QueueLemmaForSync(dict, id)) = StoreOf(dict)
  BY QueueFields DEF StoreOf

(* A search does not touch what is stored. *)
LEMMA GetLpisStore ==
    ASSUME NEW dict, NEW f, Good(dict, f), NEW q, NEW max
    PROVE  StoreOf(GetLpis(dict, q, max)) = StoreOf(dict)
  BY GetLpisFields DEF StoreOf

(* update_lemma: a lemma that is found gets another score. *)
LEMMA UpdateTouches ==
    ASSUME NEW dict, NEW f, Good(dict, f), NEW id, NEW delta \in Nat,
           NEW selected \in BOOLEAN, NEW week \in Nat
    PROVE  LET r == UpdateLemma(dict, id, delta, selected, week)
           IN  r = dict \/ \E w \in Lemmas : Touches(w, StoreOf(dict), StoreOf(r))
  <1> DEFINE k == LocateInOffsets(dict, dict.block[dict.by_id[id]])
             r == UpdateLemma(dict, id, delta, selected, week)
  <1>1. Len(dict.index) \in Nat /\ k \in 0..Len(dict.index)
    BY LocateRange, SegmentsOfIndex DEF Good
  <1>2. CASE k = 0
    BY <1>2 DEF UpdateLemma
  <1>3. CASE k # 0
    <2>1. k \in 1..Len(dict.index)
      BY <1>1, <1>3
    <2>2. \E score \in Score : r = QueueLemmaForSync(Scored(dict, k, score), dict.index[k].id)
      BY <2>1, UpdateQueues
    <2> HIDE DEF k, r
    <2> PICK score \in Score : r = QueueLemmaForSync(Scored(dict, k, score), dict.index[k].id)
      BY <2>2
    <2> DEFINE s == Scored(dict, k, score)
    <2>3. Good(s, f)
      BY <2>1, ScoreGood
    <2>4. \E w \in Lemmas : Touches(w, StoreOf(dict), StoreOf(s))
      BY <2>1, ScoreTouches
    <2> HIDE DEF s
    <2>5. StoreOf(QueueLemmaForSync(s, dict.index[k].id)) = StoreOf(s)
      BY <2>3, QueueStore
    <2> QED BY <2>4, <2>5 DEF s, r
  <1> QED BY <1>2, <1>3

(* remove_lemma. *)
LEMMA RemoveLemmaTouches ==
    ASSUME NEW dict, NEW f, Good(dict, f), NEW id
    PROVE  LET r == RemoveLemma(dict, id)
           IN  r = dict \/ \E w \in Lemmas : Touches(w, StoreOf(dict), StoreOf(r))
  <1> DEFINE k == LocateInOffsets(dict, dict.block[dict.by_id[id]])
  <1>1. Len(dict.index) \in Nat /\ k \in 0..Len(dict.index)
    BY LocateRange, SegmentsOfIndex DEF Good
  <1>2. CASE k = 0
    BY <1>2 DEF RemoveLemma
  <1>3. CASE k # 0
    <2>1. k \in 1..Len(dict.index)
      BY <1>1, <1>3
    <2>2. RemoveLemma(dict, id) = RemoveLemmaByOffsetIndex(dict, k)
      BY <1>3 DEF RemoveLemma
    <2> HIDE DEF k
    <2> QED BY <2>1, <2>2, RemoveTouches
  <1> QED BY <1>2, <1>3

(* _put_lemma: a score for one lemma and the file as it was, or, after the
   flush that makes room, with the store before the call. *)
LEMMA PutWrites ==
    ASSUME NEW dict, NEW f, Good(dict, f), NEW w \in Lemmas, NEW count \in Nat, NEW week \in Nat
    PROVE  LET r == PutLemma(dict, f, w, count, week)
           IN  \/ r.d = dict /\ r.file = f
               \/ /\ r.file = f
                  /\ \E v \in Lemmas : Touches(v, StoreOf(dict), StoreOf(r.d))
               \/ /\ SavedIn(r.file) \in {SavedIn(f), StoreOf(dict)}
                  /\ \E x \in Score : StoreOf(r.d) = [StoreOf(dict) EXCEPT ![w] = x]
  <1> DEFINE k     == LocateInOffsets(dict, w)
             score == BuildScore(week, count)
             room  == IF NoRoom(dict) THEN FlushCache(dict, f, dict.syncs)
                                       ELSE [d |-> dict, file |-> f]
             added == AppendALemma(room.d, w, score)
             r     == PutLemma(dict, f, w, count, week)
  <1>1. score \in Score
    BY BuildScoreFits
  <1>2. Len(dict.index) \in Nat /\ k \in 0..Len(dict.index)
    BY LocateRange, SegmentsOfIndex DEF Good
  <1> HIDE DEF score, k
  <1>3. CASE k # 0
    <2>1. k \in 1..Len(dict.index)
      BY <1>2, <1>3
    <2>2. r = [d |-> Scored(dict, k, score), file |-> f]
      BY <1>3 DEF PutLemma, Scored, k, score
    <2>3. \E v \in Lemmas : Touches(v, StoreOf(dict), StoreOf(Scored(dict, k, score)))
      BY <1>1, <2>1, ScoreTouches
    <2> QED BY <2>2, <2>3
  <1>4. CASE k = 0 /\ LimitReached(dict)
    BY <1>4 DEF PutLemma, k
  <1>5. CASE k = 0 /\ ~LimitReached(dict)
    <2>1. /\ Good(room.d, room.file) /\ room.d.left # 0
          /\ StoreOf(room.d) = StoreOf(dict)
          /\ SavedIn(room.file) \in {SavedIn(f), StoreOf(dict)}
      <3>1. CASE NoRoom(dict)
        BY <3>1, FlushStore
      <3>2. CASE ~NoRoom(dict)
        BY <3>2 DEF NoRoom
      <3> QED BY <3>1, <3>2
    <2>2. r = [d |-> QueueLemmaForSync(added, Len(added.index)), file |-> room.file]
      BY <1>5 DEF PutLemma, k, score
    <2> HIDE DEF room
    <2>3. Good(added, room.file)
      BY <1>1, <2>1, AppendGood
    <2>4. \E x \in Score : StoreOf(added) = [StoreOf(dict) EXCEPT ![w] = x]
      BY <1>1, <2>1, AppendWrites
    <2> HIDE DEF added
    <2>5. StoreOf(QueueLemmaForSync(added, Len(added.index))) = StoreOf(added)
      BY <2>3, QueueStore
    <2> HIDE DEF r
    <2>6. StoreOf(r.d) = StoreOf(added) /\ r.file = room.file
      BY <2>2, <2>5
    <2> QED BY <2>1, <2>4, <2>6 DEF r
  <1> QED BY <1>3, <1>4, <1>5

-----------------------------------------------------------------------------
(* The refinement. *)

(* Changing what is shown of one lemma is a step of the plain store. *)
LEMMA TouchSteps ==
    ASSUME Good(d, file), NEW w \in Lemmas, Touches(w, StoreOf(d), StoreOf(d')),
           SavedIn(file') = SavedIn(file)
    PROVE  Store!Next
  <1>1. StoreOf(d) \in [Lemmas -> Stored]
    BY StoreTyped
  <1>2. (\E x \in Score : StoreOf(d') = [StoreOf(d) EXCEPT ![w] = x])
            \/ StoreOf(d') = [StoreOf(d) EXCEPT ![w] = -1]
    BY <1>1, TouchIs
  <1>3. Store!Write(w) \/ Store!Forget(w)
    BY <1>2 DEF Store!Write, Store!Forget, Store!NoScore, StoreOf, SavedIn
  <1> QED BY <1>3 DEF Store!Next

(* UserDict implements LemmaStore: no call changes what the dictionary shows
   of more than one lemma, and what a restart brings back was in memory as a
   whole. *)
THEOREM StoreRefined == Spec => ImplementsStore
  <1>1. Init => Store!Init
    <2> SUFFICES ASSUME Init PROVE Store!Init
      OBVIOUS
    <2>1. StoreOf(d) = SavedIn(file)
      BY EmptyFileOK, LoadStore DEF Init
    <2>2. SavedIn(file) = [w \in Lemmas |-> -1]
      <3>1. \A w \in Lemmas : InUse(<<>>, <<>>, w) = {}
        BY DEF InUse
      <3>2. SavedIn(file) = StoreIn(<<>>, <<>>, <<>>)
        BY DEF Init, SavedIn, EmptyFile
      <3>3. \A w \in Lemmas : StoreIn(<<>>, <<>>, <<>>)[w] = -1
        BY <3>1, StoreInIs
      <3>4. StoreIn(<<>>, <<>>, <<>>) =
                [w \in Lemmas |-> StoreIn(<<>>, <<>>, <<>>)[w]]
        BY DEF StoreIn
      <3> QED BY <3>2, <3>3, <3>4
    <2> QED BY <2>1, <2>2 DEF Store!Init, Store!NoScore, StoreOf, SavedIn
  <1>2. Good(d, file) /\ [Next]_vars => [Store!Next]_(Store!storeVars)
    <2> SUFFICES ASSUME Good(d, file), [Next]_vars
                 PROVE  Store!Next \/ (StoreOf(d') = StoreOf(d) /\ SavedIn(file') = SavedIn(file))
      BY DEF Store!storeVars, StoreOf, SavedIn
    <2>1. ASSUME NEW w \in Lemmas, NEW week \in Weeks, Put(w, week)
          PROVE  Store!Next \/ (StoreOf(d') = StoreOf(d) /\ SavedIn(file') = SavedIn(file))
      <3> DEFINE r == PutLemma(d, file, w, 1, week)
      <3>1. week \in Nat /\ 1 \in Nat
        BY SizesAssumption
      <3>2. d' = r.d /\ file' = r.file
        BY <2>1 DEF Put
      <3>3. \/ r.d = d /\ r.file = file
            \/ /\ r.file = file
               /\ \E v \in Lemmas : Touches(v, StoreOf(d), StoreOf(r.d))
            \/ /\ SavedIn(r.file) \in {SavedIn(file), StoreOf(d)}
               /\ \E x \in Score : StoreOf(r.d) = [StoreOf(d) EXCEPT ![w] = x]
        BY <3>1, PutWrites
      <3> HIDE DEF r
      <3>4. CASE r.d = d /\ r.file = file
        BY <3>2, <3>4
      <3>5. CASE r.file = file /\ \E v \in Lemmas : Touches(v, StoreOf(d), StoreOf(r.d))
        BY <3>2, <3>5, TouchSteps
      <3>6. CASE /\ SavedIn(r.file) \in {SavedIn(file), StoreOf(d)}
                 /\ \E x \in Score : StoreOf(r.d) = [StoreOf(d) EXCEPT ![w] = x]
        <4>1. Store!Write(w)
          BY <3>2, <3>6 DEF Store!Write, StoreOf, SavedIn
        <4> QED BY <4>1 DEF Store!Next
      <3> QED BY <3>3, <3>4, <3>5, <3>6
    <2>2. ASSUME NEW id \in 1..Len(d.index), NEW week \in Weeks, Update(id, week)
          PROVE  Store!Next \/ (StoreOf(d') = StoreOf(d) /\ SavedIn(file') = SavedIn(file))
      <3>1. week \in Nat /\ 1 \in Nat /\ TRUE \in BOOLEAN
        BY SizesAssumption
      <3>2. d' = d \/ \E w \in Lemmas : Touches(w, StoreOf(d), StoreOf(d'))
        BY <2>2, <3>1, UpdateTouches DEF Update
      <3>3. file' = file
        BY <2>2 DEF Update
      <3> QED BY <3>2, <3>3, TouchSteps
    <2>3. ASSUME NEW id \in 1..Len(d.index), Remove(id)
          PROVE  Store!Next \/ (StoreOf(d') = StoreOf(d) /\ SavedIn(file') = SavedIn(file))
      <3>1. d' = d \/ \E w \in Lemmas : Touches(w, StoreOf(d), StoreOf(d'))
        BY <2>3, RemoveLemmaTouches DEF Remove
      <3>2. file' = file
        BY <2>3 DEF Remove
      <3> QED BY <3>1, <3>2, TouchSteps
    <2>4. ASSUME NEW q \in Queries, NEW max \in Rooms, Search(q, max)
          PROVE  StoreOf(d') = StoreOf(d) /\ SavedIn(file') = SavedIn(file)
      BY <2>4, GetLpisStore DEF Search
    <2>5. CASE Flush
      <3>1. StoreOf(d') = StoreOf(d) /\ SavedIn(file') = StoreOf(d)
        BY <2>5, FlushStore DEF Flush
      <3>2. Store!Save
        BY <3>1 DEF Store!Save, StoreOf, SavedIn
      <3> QED BY <3>2 DEF Store!Next
    <2>6. CASE Restart
      <3>1. FileOK(file)
        BY DEF Good
      <3>2. Accepted(file) = file
        BY <3>1 DEF Accepted, FileOK
      <3>3. StoreOf(d') = SavedIn(file) /\ file' = file
        BY <2>6, <3>1, <3>2, LoadStore DEF Restart
      <3>4. Store!Crash
        BY <3>3 DEF Store!Crash, StoreOf, SavedIn
      <3> QED BY <3>4 DEF Store!Next
    <2>7. CASE UNCHANGED vars
      BY <2>7 DEF vars
    <2> QED BY <2>1, <2>2, <2>3, <2>4, <2>5, <2>6, <2>7 DEF Next
  <1> QED BY <1>1, <1>2, GoodInductive, PTL DEF Spec, ImplementsStore, Store!Spec
=============================================================================
