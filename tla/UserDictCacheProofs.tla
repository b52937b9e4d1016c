------------------------ MODULE UserDictCacheProofs -------------------------
(***************************************************************************)
(* Proofs about what UserDict answers: get_lpis and locate_in_offsets find *)
(* what is there, through caches that are filled by one call and used by   *)
(* later ones.                                                             *)
(*                                                                         *)
(* The inductive invariant Cachable adds to Kept that every cached range   *)
(* still starts where its initials do and holds every entry in use of      *)
(* them, or was cut short for want of room, and that what the miss cache   *)
(* names is still missing.  Exact, for an object that is never searched,   *)
(* adds that no lemma is in use twice.                                     *)
(***************************************************************************)
EXTENDS UserDictOrderProofs, FiniteSetTheorems

(* The key of the lemma at a position of the index. *)
KeyAt(block, ix, k) == Key(block[ix[k].off].spl)

(* What the searches need of a block and an index. *)
Indexed(block, ix) ==
    /\ Len(ix) \in Nat
    /\ \A k \in 1..Len(ix) : block[ix[k].off] \in Lemmas /\ ix[k].rm \in BOOLEAN
    /\ Sorted(block, ix)

(* A scan for the key sig may start at position p: no entry with this key is
   before it, and the entries from there on are long enough. *)
Starts(block, ix, sig, p) ==
    /\ p \in 1..Len(ix)
    /\ Len(sig) <= Len(KeyAt(block, ix, p))
    /\ \A k \in 1..Len(ix) : KeyAt(block, ix, k) = sig => p <= k /\ KeyAt(block, ix, p) = sig

(* A range of the index to scan for the key sig. *)
Within(block, ix, sig, first, last) ==
    /\ Starts(block, ix, sig, first)
    /\ last \in Int /\ first <= last + 1 /\ last <= Len(ix)

(* The range first..last holds every entry in use with the key sig. *)
Covered(block, ix, sig, first, last) ==
    /\ Within(block, ix, sig, first, last)
    /\ \A k \in 1..Len(ix) : ~ix[k].rm /\ KeyAt(block, ix, k) = sig => k <= last

(* The range holds as many matches as some caller has room for. *)
Short(block, ix, sig, first, last) ==
    \E q \in Queries, max \in Rooms \ {0} :
        /\ Searchable(q).sig = sig
        /\ max <= Cardinality({k \in first..last : EqualAt(block, ix, k, Searchable(q))})

(* What may be cached: the range that the search went through. *)
Ranged(block, ix, sig, first, last) ==
    /\ Within(block, ix, sig, first, last)
    /\ Covered(block, ix, sig, first, last) \/ Short(block, ix, sig, first, last)

Missing(block, ix, sig) == \A k \in 1..Len(ix) : KeyAt(block, ix, k) # sig

-----------------------------------------------------------------------------
(* Keys. *)

(* The key of an indexed lemma is as long as its spelling. *)
LEMMA KeysTyped ==
    ASSUME NEW block, NEW ix, Indexed(block, ix), NEW k \in 1..Len(ix)
    PROVE  /\ block[ix[k].off].spl \in Seq(DOMAIN SplInitial)
           /\ KeyAt(block, ix, k) \in Seq(Nat)
           /\ Len(KeyAt(block, ix, k)) \in Nat
           /\ Len(KeyAt(block, ix, k)) = Len(block[ix[k].off].spl)
  <1>1. block[ix[k].off].spl \in Seq(DOMAIN SplInitial)
    BY LemmaSpells DEF Indexed
  <1>2. KeyAt(block, ix, k) \in Seq(Nat) /\ Len(KeyAt(block, ix, k)) = Len(block[ix[k].off].spl)
    BY <1>1, KeyTyped DEF KeyAt
  <1> QED BY <1>1, <1>2, LenProperties

(* Of two different keys one is below the other. *)
LEMMA KeysCompare ==
    ASSUME NEW block, NEW ix, Indexed(block, ix), NEW i \in 1..Len(ix), NEW sig \in Seq(Nat)
    PROVE  KeyAt(block, ix, i) = sig \/ Below(KeyAt(block, ix, i), sig)
                                     \/ Below(sig, KeyAt(block, ix, i))
  <1> DEFINE s == [sig |-> sig, len |-> Len(sig)]
             spl == block[ix[i].off].spl
  <1>1. IsSearchable(s) /\ s.sig = sig
    BY DEF IsSearchable
  <1>2. spl \in Seq(DOMAIN SplInitial)
    BY KeysTyped
  <1> HIDE DEF s, spl
  <1>3. LET c == FuzzyCompare(spl, Len(spl), s)
        IN  /\ c \in {-1, 0, 1}
            /\ c = -1 <=> Below(Key(spl), s.sig)
            /\ c = 1 <=> Below(s.sig, Key(spl))
            /\ c = 0 <=> Key(spl) = s.sig
    BY <1>1, <1>2, CompareExact
  <1>4. Key(spl) = sig \/ Below(Key(spl), sig) \/ Below(sig, Key(spl))
    BY <1>1, <1>3
  <1> QED BY <1>4 DEF KeyAt, spl

(* The lengths of keys never decrease along the index. *)
LEMMA LengthsGrow ==
    ASSUME NEW block, NEW ix, Indexed(block, ix),
           NEW i \in 1..Len(ix), NEW k \in 1..Len(ix), i <= k
    PROVE  Len(KeyAt(block, ix, i)) <= Len(KeyAt(block, ix, k))
  <1>1. CASE i = k
    BY <1>1, KeysTyped
  <1>2. CASE i # k
    <2>1. ~Below(KeyAt(block, ix, k), KeyAt(block, ix, i))
      BY <1>2 DEF Indexed, Sorted, KeyAt
    <2>2. Len(KeyAt(block, ix, i)) \in Nat /\ Len(KeyAt(block, ix, k)) \in Nat
      BY KeysTyped
    <2> QED BY <2>1, <2>2 DEF Below
  <1> QED BY <1>1, <1>2

(* What lies between two entries with the same key has it too. *)
LEMMA BetweenKeys ==
    ASSUME NEW block, NEW ix, Indexed(block, ix), NEW sig,
           NEW i \in 1..Len(ix), NEW k \in 1..Len(ix), NEW m \in 1..Len(ix), i <= k, k <= m,
           KeyAt(block, ix, i) = sig, KeyAt(block, ix, m) = sig
    PROVE  KeyAt(block, ix, k) = sig
  <1>1. CASE i = k \/ k = m
    BY <1>1
  <1>2. CASE i # k /\ k # m
    <2>1. ~Below(KeyAt(block, ix, k), sig) /\ ~Below(sig, KeyAt(block, ix, k))
      BY <1>2 DEF Indexed, Sorted, KeyAt
    <2>2. sig \in Seq(Nat)
      BY KeysTyped
    <2> QED BY <2>1, <2>2, KeysCompare
  <1> QED BY <1>1, <1>2

(* A comparison with the key itself finds no difference. *)
LEMMA SameKeyMatches ==
    ASSUME NEW block, NEW ix, Indexed(block, ix), NEW k \in 1..Len(ix),
           NEW s, IsSearchable(s), KeyAt(block, ix, k) = s.sig
    PROVE  CompareAt(block, ix, k, s) = 0 /\ FuzzyPrefixAt(block, ix, k, s)
  <1>1. block[ix[k].off] \in Lemmas
    BY DEF Indexed
  <1>2. CompareAt(block, ix, k, s) = 0
    BY <1>1, CompareAtExact, ZenonT(40) DEF KeyAt
  <1> DEFINE spl == block[ix[k].off].spl
  <1>3. Key(spl) = s.sig /\ s.len = Len(spl) /\ Len(spl) \in Nat
    BY KeysTyped DEF IsSearchable, KeyAt
  <1> HIDE DEF spl
  <1>4. \A i \in 1..s.len : SplInitial[spl[i]] = s.sig[i]
    BY <1>3 DEF Key
  <1>5. IsFuzzyPrefix(spl, Len(spl), s)
    BY <1>3, <1>4 DEF IsFuzzyPrefix
  <1> QED BY <1>2, <1>5 DEF FuzzyPrefixAt, LemmaAt, spl

(* A lemma below the key does not begin with its initials. *)
LEMMA BelowNoPrefix ==
    ASSUME NEW block, NEW ix, Indexed(block, ix), NEW k \in 1..Len(ix),
           NEW s, IsSearchable(s), Below(KeyAt(block, ix, k), s.sig)
    PROVE  ~FuzzyPrefixAt(block, ix, k, s)
  <1> DEFINE spl == block[ix[k].off].spl
  <1>1. /\ Len(spl) \in Nat /\ Len(Key(spl)) = Len(spl) /\ s.len = Len(s.sig) /\ s.len \in Nat
        /\ Key(spl) \in Seq(Nat) /\ Below(Key(spl), s.sig)
    BY KeysTyped, LenProperties DEF IsSearchable, KeyAt
  <1> HIDE DEF spl
  <1>2. \A i \in 1..Len(spl) : Key(spl)[i] = SplInitial[spl[i]] /\ Key(spl)[i] \in Nat
    <2>1. \A i \in 1..Len(spl) : Key(spl)[i] \in Nat
      BY <1>1, ElementOfSeq
    <2> QED BY <1>1, <2>1 DEF Key
  <1>3. ~IsFuzzyPrefix(spl, Len(spl), s)
    <2> SUFFICES ASSUME IsFuzzyPrefix(spl, Len(spl), s) PROVE FALSE
      OBVIOUS
    <2>1. Len(spl) >= s.len /\ \A i \in 1..s.len : SplInitial[spl[i]] = s.sig[i]
      BY DEF IsFuzzyPrefix
    <2>2. PICK m \in 1..Len(spl) : Key(spl)[m] < s.sig[m] /\ Len(spl) = s.len
      BY <1>1, <2>1 DEF Below
    <2>3. Key(spl)[m] = s.sig[m] /\ Key(spl)[m] \in Nat
      BY <1>2, <2>1, <2>2
    <2> QED BY <2>2, <2>3
  <1> QED BY <1>3 DEF FuzzyPrefixAt, LemmaAt, spl

-----------------------------------------------------------------------------
(* Where a scan starts. *)

(* The search finds the first entry with the key, if there is one. *)
LEMMA SearchStarts ==
    ASSUME NEW block, NEW ix, Indexed(block, ix), NEW s, IsSearchable(s)
    PROVE  LET p == LocateFirst(block, ix, s)
           IN  IF p = 0 THEN Missing(block, ix, s.sig) ELSE Starts(block, ix, s.sig, p)
  <1> DEFINE p == LocateFirst(block, ix, s)
             Same == {k \in 1..Len(ix) : KeyAt(block, ix, k) = s.sig}
  <1>1. Len(ix) \in Nat /\ s.sig \in Seq(Nat) /\ s.len = Len(s.sig)
    BY DEF Indexed, IsSearchable
  <1> HIDE DEF p
  <1>2. CASE Same = {}
    <2>1. Missing(block, ix, s.sig)
      BY <1>2 DEF Missing
    <2>2. p = 0 \/ (p \in 1..Len(ix) /\ FuzzyPrefixAt(block, ix, p, s))
      BY <1>1, LocateFirstRange DEF p
    <2>3. ASSUME p # 0 PROVE Starts(block, ix, s.sig, p)
      <3>1. p \in 1..Len(ix) /\ FuzzyPrefixAt(block, ix, p, s)
        BY <2>2, <2>3
      <3>2. Len(s.sig) <= Len(KeyAt(block, ix, p))
        <4>1. Len(block[ix[p].off].spl) >= s.len
          BY <3>1 DEF FuzzyPrefixAt, LemmaAt, IsFuzzyPrefix
        <4>2. /\ Len(KeyAt(block, ix, p)) = Len(block[ix[p].off].spl)
              /\ Len(KeyAt(block, ix, p)) \in Nat /\ Len(s.sig) \in Nat
          BY <1>1, <3>1, KeysTyped, LenProperties
        <4> QED BY <1>1, <4>1, <4>2
      <3> QED BY <2>1, <3>1, <3>2 DEF Starts, Missing
    <2> QED BY <2>1, <2>3 DEF p
  <1>3. CASE Same # {}
    <2> DEFINE q == Least(Same)
    <2>1. q \in Same /\ \A y \in Same : q <= y
      <3>1. Same \in SUBSET Nat
        OBVIOUS
      <3> HIDE DEF Same
      <3> QED BY <1>3, <3>1, LeastIn
    <2> HIDE DEF q
    <2>2. q \in 1..Len(ix) /\ KeyAt(block, ix, q) = s.sig
      BY <2>1
    <2>3. ASSUME NEW j \in 1..q - 1
          PROVE  CompareAt(block, ix, j, s) < 0 /\ ~FuzzyPrefixAt(block, ix, j, s)
      <3>1. j \in 1..Len(ix) /\ j < q /\ j \notin Same
        BY <1>1, <2>1, <2>2
      <3>2. ~Below(s.sig, KeyAt(block, ix, j)) /\ KeyAt(block, ix, j) # s.sig
        BY <2>2, <3>1 DEF Indexed, Sorted, KeyAt
      <3>3. Below(KeyAt(block, ix, j), s.sig)
        BY <1>1, <3>1, <3>2, KeysCompare
      <3>4. block[ix[j].off] \in Lemmas
        BY <3>1 DEF Indexed
      <3>5. CompareAt(block, ix, j, s) = -1
        BY <3>3, <3>4, CompareAtExact, Zenon DEF KeyAt
      <3> QED BY <3>1, <3>3, <3>5, BelowNoPrefix
    <2>4. ASSUME NEW j \in q..Len(ix)
          PROVE  ~(CompareAt(block, ix, j, s) < 0)
      <3>1. j \in 1..Len(ix) /\ q <= j
        BY <1>1, <2>2
      <3>2. ~Below(KeyAt(block, ix, j), s.sig)
        <4>1. CASE j = q
          BY <1>1, <2>2, <4>1, BelowIrreflexive
        <4>2. CASE j # q
          <5>1. q < j
            BY <2>2, <3>1, <4>2
          <5> QED BY <2>2, <3>1, <5>1 DEF Indexed, Sorted, KeyAt
        <4> QED BY <4>1, <4>2
      <3>3. block[ix[j].off] \in Lemmas
        BY <3>1 DEF Indexed
      <3> DEFINE c == CompareAt(block, ix, j, s)
      <3>4. c \in {-1, 0, 1} /\ c # -1
        BY <3>2, <3>3, CompareAtExact, Zenon DEF KeyAt
      <3> HIDE DEF c
      <3>5. ~(c < 0)
        BY <3>4
      <3> QED BY <3>5 DEF c
    <2>5. FuzzyPrefixAt(block, ix, q, s)
      BY <2>2, SameKeyMatches
    <2>6. p = q
      BY <1>1, <2>2, <2>3, <2>4, <2>5, LocateFirstFinds DEF p
    <2>7. p # 0 /\ Len(s.sig) <= Len(s.sig)
      BY <1>1, <2>2, <2>6, LenProperties
    <2>8. Starts(block, ix, s.sig, p)
      <3>1. \A k \in 1..Len(ix) : KeyAt(block, ix, k) = s.sig => q <= k
        BY <2>1
      <3> QED BY <2>2, <2>6, <2>7, <3>1 DEF Starts
    <2> QED BY <2>7, <2>8 DEF p
  <1> QED BY <1>2, <1>3

(* A lemma that matches the query syllable by syllable has its key. *)
LEMMA EqualHasKey ==
    ASSUME NEW block, NEW ix, Indexed(block, ix), NEW k \in 1..Len(ix),
           NEW q \in Seq(DOMAIN SplInitial), EqualAt(block, ix, k, Searchable(q))
    PROVE  KeyAt(block, ix, k) = Key(q)
  <1> DEFINE spl == block[ix[k].off].spl
  <1>1. spl \in Seq(DOMAIN SplInitial) /\ Len(spl) \in Nat /\ Len(q) \in Nat
    BY KeysTyped, LenProperties
  <1>2. EqualSpell(spl, Len(spl), Searchable(q))
    BY DEF EqualAt, LemmaAt
  <1> HIDE DEF spl
  <1>3. Len(spl) = Len(q) /\ \A i \in 1..Len(spl) : spl[i] \in Searchable(q).range[i]
    BY <1>2 DEF EqualSpell, Searchable
  <1>4. ASSUME NEW i \in 1..Len(spl)
        PROVE  SplInitial[spl[i]] = SplInitial[q[i]]
    <2>1. spl[i] \in IF q[i] \in DOMAIN HalfToFull THEN HalfToFull[q[i]] ELSE {q[i]}
      BY <1>3 DEF Searchable
    <2> QED BY <2>1, SpellingsAssumption
  <1>5. Key(spl) = Key(q)
    BY <1>3, <1>4 DEF Key
  <1> QED BY <1>5 DEF KeyAt, spl

-----------------------------------------------------------------------------
(* The scan of locate_in_offsets. *)

Matches(v, w) ==
    /\ EqualSpell(v.spl, Len(w.spl), Searchable(w.spl))
    /\ \A i \in 1..Len(w.spl) : v.str[i] = w.str[i]

(* A lemma has no half ids, so it matches those that begin with it, and of
   its own length only itself. *)
LEMMA MatchesBegins ==
    ASSUME NEW v \in Lemmas, NEW w \in Lemmas
    PROVE  /\ Len(w.spl) <= Len(v.spl) => (Matches(v, w) <=> Begins(v, w))
           /\ Len(w.spl) = Len(v.spl) => (Matches(v, w) <=> v = w)
  <1> DEFINE n == Len(w.spl)
  <1>1. /\ v = [spl |-> v.spl, str |-> v.str] /\ w = [spl |-> w.spl, str |-> w.str]
        /\ v.spl \in Seq(DOMAIN SplInitial \ DOMAIN HalfToFull)
        /\ w.spl \in Seq(DOMAIN SplInitial \ DOMAIN HalfToFull)
        /\ v.str \in Seq(Nat) /\ w.str \in Seq(Nat)
        /\ Len(v.str) = Len(v.spl) /\ Len(w.str) = n
    BY LemmasAssumption
  <1>2. n \in Nat /\ \A i \in 1..n : w.spl[i] \notin DOMAIN HalfToFull
    BY <1>1, LenProperties, ElementOfSeq
  <1>3. Matches(v, w) <=> \A i \in 1..n : v.spl[i] = w.spl[i] /\ v.str[i] = w.str[i]
    <2>1. \A i \in 1..n : Searchable(w.spl).range[i] = {w.spl[i]}
      BY <1>2 DEF Searchable
    <2>2. Searchable(w.spl).len = n
      BY DEF Searchable
    <2> QED BY <2>1, <2>2 DEF Matches, EqualSpell
  <1>4. Len(v.spl) = n /\ Matches(v, w) => v = w
    <2> SUFFICES ASSUME Len(v.spl) = n, Matches(v, w) PROVE v = w
      OBVIOUS
    <2>1. v.spl = w.spl
      BY <1>1, <1>3, SeqEqual
    <2>2. v.str = w.str
      BY <1>1, <1>3, SeqEqual
    <2> QED BY <1>1, <2>1, <2>2
  <1>5. v = w => Matches(v, w)
    BY <1>3
  <1> QED BY <1>3, <1>4, <1>5 DEF Begins

(* The entry k of an index answers the search for a lemma w up to last. *)
Answers(block, ix, w, last, k) ==
    /\ k # 0 => /\ k \in 1..Len(ix) /\ ~ix[k].rm
                /\ Begins(block[ix[k].off], w)
    /\ \A m \in 1..Len(ix) : ~ix[m].rm /\ block[ix[m].off] = w /\ m <= last =>
           k # 0 /\ block[ix[k].off] = w

(* The scan of a range finds a lemma that begins with the one looked for, and
   that lemma itself where it is in use within the range. *)
LEMMA ScanExact ==
    ASSUME NEW block, NEW ix, Indexed(block, ix), NEW w \in Lemmas, NEW first, NEW last,
           Within(block, ix, Key(w.spl), first, last), NEW cached \in BOOLEAN
    PROVE  Answers(block, ix, w, last, ScanFor(block, ix, w, first, last, cached))
  <1> DEFINE s     == Searchable(w.spl)
             n     == Len(w.spl)
             v(k)  == block[ix[k].off]
             inuse == {k \in 1..Len(ix) : first <= k /\ k <= last /\ ~ix[k].rm}
             same  == {k \in inuse : Matches(v(k), w)}
             stop  == {k \in inuse : ~cached /\ FuzzyCompare(v(k).spl, n, s) # 0}
             found == {k \in same : \A j \in stop : k < j}
             r     == ScanFor(block, ix, w, first, last, cached)
  <1>1. r = IF found = {} THEN 0 ELSE Least(found)
    BY Zenon DEF ScanFor, LemmaAt, Matches
  <1>2. /\ Len(ix) \in Nat /\ first \in 1..Len(ix) /\ last \in Int
        /\ Starts(block, ix, Key(w.spl), first)
        /\ \A k \in 1..Len(ix) : v(k) \in Lemmas
    BY DEF Within, Starts, Indexed
  <1>3. IsSearchable(s) /\ s.sig = Key(w.spl) /\ n \in Nat /\ Len(Key(w.spl)) = n /\ s.len = n
    <2>1. w.spl \in Seq(DOMAIN SplInitial)
      BY LemmaSpells
    <2> QED BY <2>1, SearchableTyped, KeyTyped, LenProperties
  <1> HIDE DEF r, s
  <1>4. ASSUME NEW k \in inuse PROVE n <= Len(v(k).spl)
    <2>1. Len(KeyAt(block, ix, first)) <= Len(KeyAt(block, ix, k))
      BY <1>2, LengthsGrow
    <2>2. n <= Len(KeyAt(block, ix, first))
      BY <1>3 DEF Within, Starts
    <2>3. Len(KeyAt(block, ix, k)) = Len(v(k).spl) /\ Len(KeyAt(block, ix, k)) \in Nat
          /\ Len(KeyAt(block, ix, first)) \in Nat
      BY <1>2, KeysTyped
    <2> QED BY <1>3, <2>1, <2>2, <2>3
  <1>5. found \in SUBSET Nat /\ found \subseteq inuse
    OBVIOUS
  <1>6. ASSUME found # {}
        PROVE  /\ r # 0 /\ r \in 1..Len(ix) /\ ~ix[r].rm /\ Begins(v(r), w)
               /\ Matches(v(r), w) /\ first <= r /\ \A y \in found : r <= y
    <2>1. r = Least(found)
      BY <1>1, <1>6
    <2>2. r \in found /\ \A y \in found : r <= y
      <3> HIDE DEF found
      <3> QED BY <1>5, <1>6, <2>1, LeastIn
    <2>3. r \in inuse /\ Matches(v(r), w)
      BY <2>2
    <2>4. n <= Len(v(r).spl)
      BY <1>4, <2>3
    <2>5. Begins(v(r), w)
      BY <1>2, <2>3, <2>4, MatchesBegins
    <2> QED BY <1>2, <2>2, <2>3, <2>5
  <1>7. ASSUME r # 0
        PROVE  r \in 1..Len(ix) /\ ~ix[r].rm /\ Begins(v(r), w)
    BY <1>1, <1>6, <1>7
  <1>8. ASSUME NEW m \in 1..Len(ix), ~ix[m].rm, v(m) = w, m <= last
        PROVE  r # 0 /\ v(r) = w
    <2>1. KeyAt(block, ix, m) = Key(w.spl)
      BY <1>8 DEF KeyAt
    <2>2. m \in inuse /\ Matches(v(m), w) /\ KeyAt(block, ix, first) = Key(w.spl)
      <3>1. first <= m /\ m <= last /\ KeyAt(block, ix, first) = Key(w.spl)
        BY <1>8, <2>1 DEF Within, Starts
      <3>2. Matches(v(m), w)
        BY <1>8, MatchesBegins
      <3> QED BY <1>8, <3>1, <3>2
    <2>3. ASSUME NEW k \in 1..Len(ix), first <= k, k <= m
          PROVE  Len(v(k).spl) = n /\ FuzzyCompare(v(k).spl, n, s) = 0
      <3>1. KeyAt(block, ix, k) = Key(w.spl)
        BY <1>2, <2>1, <2>2, <2>3, BetweenKeys
      <3>2. Len(v(k).spl) = n
        BY <1>3, <3>1, KeysTyped
      <3>3. CompareAt(block, ix, k, s) = 0
        BY <1>3, <3>1, SameKeyMatches
      <3> QED BY <3>2, <3>3 DEF CompareAt, LemmaAt
    <2>4. m \in found
      <3>1. \A j \in stop : m < j
        BY <1>2, <2>3
      <3> QED BY <2>2, <3>1
    <2>5. r # 0 /\ r \in 1..Len(ix) /\ Matches(v(r), w) /\ first <= r /\ r <= m
      BY <1>6, <2>4
    <2>6. Len(v(r).spl) = n
      BY <2>3, <2>5
    <2> QED BY <1>2, <2>5, <2>6, MatchesBegins
  <1> HIDE DEF v
  <1>9. /\ r # 0 => r \in 1..Len(ix) /\ ~ix[r].rm /\ Begins(v(r), w)
        /\ \A m \in 1..Len(ix) : ~ix[m].rm /\ v(m) = w /\ m <= last => r # 0 /\ v(r) = w
    BY <1>7, <1>8, Zenon
  <1> QED BY <1>9, Zenon DEF r, v, Answers

-----------------------------------------------------------------------------
(* The caches. *)

Cached == [sig : Seq(Nat), start : Nat, count : Int]

(* What the entries of the caches for n syllables may be. *)
Hits(block, ix, n) ==
    {h \in Cached : Len(h.sig) = n
                    /\ Ranged(block, ix, h.sig, h.start, h.start + h.count - 1)}

Misses(block, ix, n) == {sig \in Seq(Nat) : Len(sig) = n /\ Missing(block, ix, sig)}

CachesOK(dict) ==
    /\ DOMAIN dict.hits = 1..MaxLemmaSize /\ DOMAIN dict.misses = 1..MaxLemmaSize
    /\ \A n \in 1..MaxLemmaSize :
          /\ dict.hits[n] \in Seq(Hits(dict.block, dict.index, n))
          /\ dict.misses[n] \in Seq(Misses(dict.block, dict.index, n))

(* cache_init. *)
LEMMA EmptyCachesOK ==
    ASSUME NEW dict, dict.hits = NoCache, dict.misses = NoCache
    PROVE  CachesOK(dict)
  <1>1. \A S : <<>> \in Seq(S)
    OBVIOUS
  <1> QED BY <1>1 DEF CachesOK, NoCache

(* A sequence over a set is one over every larger set. *)
LEMMA SeqInLarger ==
    ASSUME NEW S, NEW T, S \subseteq T, NEW s \in Seq(S)
    PROVE  s \in Seq(T)
  <1>1. Len(s) \in Nat /\ s \in [1..Len(s) -> S]
    BY LenProperties, ElementOfSeq
  <1>2. s \in [1..Len(s) -> T]
    BY <1>1
  <1> QED BY <1>1, <1>2, FcnIsSeq

(* Scores may change and entries may be removed under the caches. *)
LEMMA CachesSame ==
    ASSUME NEW dict, NEW r, CachesOK(dict),
           r.block = dict.block, r.hits = dict.hits, r.misses = dict.misses,
           Len(r.index) = Len(dict.index),
           \A k \in 1..Len(dict.index) : /\ r.index[k].off = dict.index[k].off
                                         /\ ~r.index[k].rm => ~dict.index[k].rm
    PROVE  CachesOK(r)
  <1>1. \A k \in 1..Len(dict.index) :
           KeyAt(r.block, r.index, k) = KeyAt(dict.block, dict.index, k)
    BY DEF KeyAt
  <1>2. ASSUME NEW sig, NEW first, NEW last, Ranged(dict.block, dict.index, sig, first, last)
        PROVE  Ranged(r.block, r.index, sig, first, last)
    <2>1. Within(dict.block, dict.index, sig, first, last)
      BY <1>2 DEF Ranged
    <2>2. Within(r.block, r.index, sig, first, last)
      <3>1. Starts(r.block, r.index, sig, first)
        BY <1>1, <2>1 DEF Within, Starts
      <3> QED BY <2>1, <3>1 DEF Within
    <2>3. CASE Covered(dict.block, dict.index, sig, first, last)
      <3>1. \A k \in 1..Len(r.index) :
               ~r.index[k].rm /\ KeyAt(r.block, r.index, k) = sig => k <= last
        BY <1>1, <2>3, Zenon DEF Covered
      <3> QED BY <2>2, <3>1 DEF Covered, Ranged
    <2>4. CASE Short(dict.block, dict.index, sig, first, last)
      <3>1. PICK q \in Queries, max \in Rooms \ {0} :
               /\ Searchable(q).sig = sig
               /\ max <= Cardinality({k \in first..last :
                                         EqualAt(dict.block, dict.index, k, Searchable(q))})
        BY <2>4 DEF Short
      <3>2. \A k \in first..last : k \in 1..Len(dict.index)
        BY <2>1 DEF Within, Starts
      <3>3. \A k \in first..last : EqualAt(r.block, r.index, k, Searchable(q))
                                  <=> EqualAt(dict.block, dict.index, k, Searchable(q))
        BY <3>2 DEF EqualAt, LemmaAt
      <3>4. {k \in first..last : EqualAt(r.block, r.index, k, Searchable(q))}
            = {k \in first..last : EqualAt(dict.block, dict.index, k, Searchable(q))}
        BY <3>3
      <3>5. Short(r.block, r.index, sig, first, last)
        BY <3>1, <3>4 DEF Short
      <3> QED BY <2>2, <3>5 DEF Ranged
    <2> QED BY <1>2, <2>3, <2>4 DEF Ranged
  <1>3. ASSUME NEW n
        PROVE  Hits(dict.block, dict.index, n) \subseteq Hits(r.block, r.index, n)
    BY <1>2 DEF Hits
  <1>4. ASSUME NEW n
        PROVE  Misses(dict.block, dict.index, n) \subseteq Misses(r.block, r.index, n)
    BY <1>1 DEF Misses, Missing
  <1>5. ASSUME NEW n \in 1..MaxLemmaSize
        PROVE  /\ r.hits[n] \in Seq(Hits(r.block, r.index, n))
               /\ r.misses[n] \in Seq(Misses(r.block, r.index, n))
    BY <1>3, <1>4, SeqInLarger DEF CachesOK
  <1>6. DOMAIN r.hits = 1..MaxLemmaSize /\ DOMAIN r.misses = 1..MaxLemmaSize
    BY DEF CachesOK
  <1> QED BY <1>5, <1>6 DEF CachesOK

(* A ring holds what it held or what is pushed. *)
LEMMA RingPushTyped ==
    ASSUME NEW S, NEW s \in Seq(S), NEW e \in S, NEW size \in Nat \ {0}
    PROVE  RingPush(s, e, size) \in Seq(S)
  <1>1. Append(s, e) \in Seq(S) /\ Len(Append(s, e)) = Len(s) + 1 /\ Len(s) \in Nat
    BY AppendProperties, LenProperties
  <1>2. Append(s, e) # <<>>
    BY <1>1, EmptySeq
  <1>3. Tail(Append(s, e)) \in Seq(S)
    BY <1>1, <1>2, HeadTailProperties
  <1> QED BY <1>1, <1>3, Zenon DEF RingPush

(* What a lookup of the caches tells. *)
LEMMA CacheLookup ==
    ASSUME NEW dict, CachesOK(dict), NEW s, IsSearchable(s), s.len \in 1..MaxLemmaSize
    PROVE  /\ HitsFor(dict, s) # {} =>
                 LET h == LoadCache(dict, s)
                 IN  h \in Cached /\ Ranged(dict.block, dict.index, s.sig,
                                            h.start, h.start + h.count - 1)
           /\ MissFor(dict, s) => Missing(dict.block, dict.index, s.sig)
  <1> DEFINE hits == dict.hits[s.len]
             misses == dict.misses[s.len]
             at == HitsFor(dict, s)
  <1>1. /\ hits \in Seq(Hits(dict.block, dict.index, s.len))
        /\ misses \in Seq(Misses(dict.block, dict.index, s.len))
    BY DEF CachesOK
  <1>2. at = {i \in 1..Len(hits) : hits[i].sig = s.sig}
    BY DEF HitsFor
  <1>3. LoadCache(dict, s) = hits[Least(at)]
    BY DEF LoadCache
  <1>4. MissFor(dict, s) <=> \E i \in 1..Len(misses) : misses[i] = s.sig
    BY DEF MissFor
  <1> HIDE DEF hits, misses, at
  <1>5. ASSUME at # {}
        PROVE  LET h == LoadCache(dict, s)
               IN  h \in Cached /\ Ranged(dict.block, dict.index, s.sig,
                                          h.start, h.start + h.count - 1)
    <2>1. at \in SUBSET Nat
      BY <1>2
    <2>2. Least(at) \in at
      BY <1>5, <2>1, LeastIn
    <2> DEFINE h == hits[Least(at)]
    <2>3. h \in Hits(dict.block, dict.index, s.len) /\ h.sig = s.sig
      BY <1>1, <1>2, <2>2, ElementOfSeq
    <2> HIDE DEF h
    <2>4. h \in Cached /\ Ranged(dict.block, dict.index, s.sig, h.start, h.start + h.count - 1)
      BY <2>3 DEF Hits
    <2> QED BY <1>3, <2>4, Zenon DEF h
  <1>6. ASSUME MissFor(dict, s) PROVE Missing(dict.block, dict.index, s.sig)
    BY <1>1, <1>4, <1>6, ElementOfSeq DEF Misses
  <1> QED BY <1>5, <1>6, Zenon DEF at

-----------------------------------------------------------------------------
(* locate_in_offsets and get_lpis. *)

(* A search covers the rest of the index. *)
LEMMA StartsCover ==
    ASSUME NEW block, NEW ix, Indexed(block, ix), NEW sig, NEW p, Starts(block, ix, sig, p)
    PROVE  Covered(block, ix, sig, p, Len(ix))
  BY DEF Covered, Within, Starts, Indexed

(* The query of a lemma. *)
LEMMA LemmaQuery ==
    ASSUME NEW w \in Lemmas
    PROVE  LET s == Searchable(w.spl)
           IN  IsSearchable(s) /\ s.sig = Key(w.spl) /\ s.len \in 1..MaxLemmaSize
  <1>1. w.spl \in Seq(DOMAIN SplInitial) /\ Len(w.spl) \in 1..MaxLemmaSize
    BY LemmaSpells, LemmasAssumption
  <1> QED BY <1>1, SearchableTyped

(* Where both calls scan: a cached range, or the rest of the index from the
   first entry with the key; or nowhere, when there is none. *)
ScanStart(dict, s) ==
    IF HitsFor(dict, s) # {} THEN LoadCache(dict, s).start
                             ELSE LocateFirst(dict.block, dict.index, s)

ScanLast(dict, s) ==
    IF HitsFor(dict, s) # {} THEN ScanStart(dict, s) + LoadCache(dict, s).count - 1
                             ELSE Len(dict.index)

LEMMA ScanRange ==
    ASSUME NEW dict, Indexed(dict.block, dict.index), CachesOK(dict),
           NEW s, IsSearchable(s), s.len \in 1..MaxLemmaSize
    PROVE  LET first == ScanStart(dict, s)
               last  == ScanLast(dict, s)
           IN  IF first = 0 THEN Missing(dict.block, dict.index, s.sig)
               ELSE /\ Within(dict.block, dict.index, s.sig, first, last)
                    /\ \/ Covered(dict.block, dict.index, s.sig, first, last)
                       \/ /\ HitsFor(dict, s) # {} /\ CutShort(dict, s, first, last)
                          /\ first = LoadCache(dict, s).start
  <1>1. CASE HitsFor(dict, s) # {}
    <2> DEFINE h == LoadCache(dict, s)
    <2>1. h \in Cached /\ Ranged(dict.block, dict.index, s.sig, h.start, h.start + h.count - 1)
      BY <1>1, CacheLookup
    <2>2. ScanStart(dict, s) = h.start /\ ScanLast(dict, s) = h.start + h.count - 1
      BY <1>1 DEF ScanStart, ScanLast
    <2> HIDE DEF h
    <2>3. h.start # 0
      BY <2>1 DEF Ranged, Within, Starts
    <2>4. Short(dict.block, dict.index, s.sig, h.start, h.start + h.count - 1)
          => CutShort(dict, s, h.start, h.start + h.count - 1)
      BY DEF Short, CutShort
    <2> QED BY <1>1, <2>1, <2>2, <2>3, <2>4 DEF Ranged, h
  <1>2. CASE HitsFor(dict, s) = {}
    <2> DEFINE p == LocateFirst(dict.block, dict.index, s)
    <2>1. ScanStart(dict, s) = p /\ ScanLast(dict, s) = Len(dict.index)
      BY <1>2 DEF ScanStart, ScanLast
    <2>2. IF p = 0 THEN Missing(dict.block, dict.index, s.sig)
                   ELSE Starts(dict.block, dict.index, s.sig, p)
      BY SearchStarts
    <2> HIDE DEF p
    <2> QED BY <2>1, <2>2, StartsCover DEF Covered
  <1> QED BY <1>1, <1>2

(* What locate_in_offsets finds is in use and begins with the lemma; a lemma
   in use is found, unless all its entries are behind a range cut short. *)
LEMMA LocateExactly ==
    ASSUME NEW dict, Indexed(dict.block, dict.index), CachesOK(dict), NEW w \in Lemmas
    PROVE  LET k  == LocateInOffsets(dict, w)
               at == {m \in 1..Len(dict.index) :
                         ~dict.index[m].rm /\ dict.block[dict.index[m].off] = w}
           IN  /\ k # 0 => /\ k \in 1..Len(dict.index) /\ ~dict.index[k].rm
                           /\ Begins(dict.block[dict.index[k].off], w)
               /\ at # {} => k \in at \/ BehindCut(dict, Searchable(w.spl), at)
  <1> DEFINE s      == Searchable(w.spl)
             cached == HitsFor(dict, s) # {}
             first  == ScanStart(dict, s)
             last   == ScanLast(dict, s)
             r      == LocateInOffsets(dict, w)
             at     == {m \in 1..Len(dict.index) :
                           ~dict.index[m].rm /\ dict.block[dict.index[m].off] = w}
  <1>1. r = IF first = 0 THEN 0
            ELSE ScanFor(dict.block, dict.index, w, first, last, cached)
    BY DEF LocateInOffsets, ScanStart, ScanLast
  <1>2. IsSearchable(s) /\ s.sig = Key(w.spl) /\ s.len \in 1..MaxLemmaSize
    BY LemmaQuery
  <1>3. IF first = 0 THEN Missing(dict.block, dict.index, s.sig)
        ELSE /\ Within(dict.block, dict.index, s.sig, first, last)
             /\ \/ Covered(dict.block, dict.index, s.sig, first, last)
                \/ /\ HitsFor(dict, s) # {} /\ CutShort(dict, s, first, last)
                   /\ first = LoadCache(dict, s).start
    BY <1>2, ScanRange
  <1>4. ASSUME NEW m \in at PROVE KeyAt(dict.block, dict.index, m) = Key(w.spl)
    BY DEF KeyAt
  <1>5. CASE first # 0
    <2>1. cached \in BOOLEAN /\ r = ScanFor(dict.block, dict.index, w, first, last, cached)
      BY <1>1, <1>5
    <2>2. Within(dict.block, dict.index, Key(w.spl), first, last)
      BY <1>2, <1>3, <1>5
    <2> HIDE DEF first, last, cached, s, r, at
    <2>3. /\ r # 0 => /\ r \in 1..Len(dict.index) /\ ~dict.index[r].rm
                      /\ Begins(dict.block[dict.index[r].off], w)
          /\ \A m \in 1..Len(dict.index) :
                 ~dict.index[m].rm /\ dict.block[dict.index[m].off] = w /\ m <= last =>
                     r # 0 /\ dict.block[dict.index[r].off] = w
      <3>1. Answers(dict.block, dict.index, w, last, r)
        BY <2>1, <2>2, ScanExact
      <3> QED BY <3>1, Zenon DEF Answers
    <2>4. ASSUME r \notin at PROVE \A m \in at : ~(m <= last)
      BY <2>3, <2>4 DEF at
    <2>5. ASSUME at # {}, r \notin at PROVE BehindCut(dict, s, at)
      <3>1. PICK m \in at : TRUE
        BY <2>5
      <3>2. m \in 1..Len(dict.index) /\ ~dict.index[m].rm
            /\ KeyAt(dict.block, dict.index, m) = Key(w.spl) /\ ~(m <= last)
        BY <1>4, <2>4, <2>5, <3>1 DEF at
      <3>3. ~Covered(dict.block, dict.index, s.sig, first, last)
        BY <1>2, <3>2 DEF Covered
      <3>4. HitsFor(dict, s) # {} /\ CutShort(dict, s, first, last)
            /\ first = LoadCache(dict, s).start
        BY <1>3, <1>5, <3>3
      <3>5. last = LoadCache(dict, s).start + LoadCache(dict, s).count - 1
        BY <3>4 DEF last, ScanLast, first
      <3>6. \A j \in at : j > last
        <4>1. last \in Int
          BY <2>2 DEF Within
        <4>2. \A j \in at : j \in Int
          BY DEF at
        <4> QED BY <2>4, <2>5, <4>1, <4>2
      <3> QED BY <3>4, <3>5, <3>6 DEF BehindCut
    <2> QED BY <2>3, <2>5 DEF r, s, at
  <1>6. CASE first = 0
    <2>1. r = 0
      BY <1>1, <1>6
    <2>2. at = {}
      BY <1>2, <1>3, <1>4, <1>6 DEF Missing
    <2> QED BY <2>1, <2>2 DEF r
  <1> QED BY <1>5, <1>6

(* A non-empty set of positions has a last one. *)
LEMMA GreatestIn ==
    ASSUME NEW n \in Nat, NEW S \in SUBSET (0..n), S # {}
    PROVE  \E g \in S : \A y \in S : y <= g
  <1> DEFINE R == {n - x : x \in S}
  <1>1. R \in SUBSET Nat /\ R # {}
    <2>1. \A x \in S : x \in Int /\ 0 <= x /\ x <= n
      OBVIOUS
    <2>2. \A x \in S : n - x \in Nat
      BY <2>1
    <2>3. PICK x \in S : TRUE
      OBVIOUS
    <2>4. n - x \in R
      BY <2>3
    <2> QED BY <2>2, <2>4
  <1>2. Least(R) \in R /\ \A y \in R : Least(R) <= y
    <2> HIDE DEF R
    <2> QED BY <1>1, LeastIn
  <1>3. PICK g \in S : Least(R) = n - g
    BY <1>2
  <1>4. ASSUME NEW y \in S PROVE y <= g
    <2>1. n - g <= n - y
      BY <1>2, <1>3
    <2> QED BY <2>1
  <1> QED BY <1>4

(* Sets of positions are finite. *)
LEMMA PositionsFinite ==
    ASSUME NEW n \in Nat, NEW S \in SUBSET (1..n)
    PROVE  IsFiniteSet(S) /\ Cardinality(S) \in Nat
  <1>1. IsFiniteSet(1..n)
    BY FS_Interval
  <1> QED BY <1>1, FS_Subset, FS_CardinalityType

(* What a search that has somewhere to start goes through. *)
Got(dict, s, max) ==
    {k \in LpisStart(dict, s)..LpisEnd(dict, s, max) :
        ~dict.index[k].rm /\ EqualAt(dict.block, dict.index, k, s)}

(* The scan of get_lpis returns no more than there is room for.  It ends where
   the room does, or behind every entry in use with the key, or with a cached
   range that was cut short. *)
LEMMA ScanReaches ==
    ASSUME NEW dict, Indexed(dict.block, dict.index), CachesOK(dict),
           NEW max \in Nat \ {0}, NEW s, IsSearchable(s), s.len \in 1..MaxLemmaSize,
           ~MissFor(dict, s), LpisStart(dict, s) # 0
    PROVE  LET first == LpisStart(dict, s)
               end   == LpisEnd(dict, s, max)
           IN  /\ Within(dict.block, dict.index, s.sig, first, end)
               /\ Cardinality(Got(dict, s, max)) <= max
               /\ \/ Cardinality(Got(dict, s, max)) = max
                  \/ Covered(dict.block, dict.index, s.sig, first, end)
                  \/ /\ HitsFor(dict, s) # {} /\ CutShort(dict, s, first, end)
                     /\ first = LoadCache(dict, s).start
                     /\ end = first + LoadCache(dict, s).count - 1
  <1> DEFINE ix     == dict.index
             cached == HitsFor(dict, s) # {}
             first  == LpisStart(dict, s)
             last   == ScanLast(dict, s)
             E(k)   == EqualAt(dict.block, ix, k, s)
             inuse  == {k \in first..last : ~ix[k].rm}
             breaks == {k \in inuse : \/ ~cached /\ CompareAt(dict.block, ix, k, s) # 0
                                      \/ ~FuzzyPrefixAt(dict.block, ix, k, s)}
             upto(k) == {j \in inuse : j <= k /\ E(j)}
             full   == {k \in inuse : max <= Cardinality(upto(k))}
             end    == LpisEnd(dict, s, max)
             got    == Got(dict, s, max)
  <1>1. first = ScanStart(dict, s) /\ first # 0
    BY DEF LpisStart, ScanStart
  <1>2. end = IF breaks \cup full = {} THEN last ELSE Least(breaks \cup full)
    <2>1. last = IF cached THEN first + LoadCache(dict, s).count - 1 ELSE Len(ix)
      BY <1>1 DEF ScanLast
    <2> HIDE DEF last
    <2> QED BY <2>1, Zenon DEF LpisEnd
  <1>3. got = {k \in first..end : ~ix[k].rm /\ E(k)}
    BY DEF Got
  <1>4. /\ Within(dict.block, ix, s.sig, first, last)
        /\ \/ Covered(dict.block, ix, s.sig, first, last)
           \/ /\ HitsFor(dict, s) # {} /\ CutShort(dict, s, first, last)
              /\ first = LoadCache(dict, s).start
    BY <1>1, ScanRange
  <1>5. cached => last = first + LoadCache(dict, s).count - 1
    BY <1>1 DEF ScanLast
  <1> HIDE DEF first, last, end, got, E, cached
  <1>6. /\ Len(ix) \in Nat /\ first \in 1..Len(ix) /\ last \in Int /\ last <= Len(ix)
        /\ first <= last + 1 /\ Starts(dict.block, ix, s.sig, first)
    BY <1>4 DEF Within, Starts, Indexed
  <1>7. breaks \cup full \in SUBSET Nat /\ breaks \cup full \subseteq inuse
    BY <1>6
  <1>8. ASSUME breaks \cup full # {}
        PROVE  end \in breaks \cup full /\ \A k \in breaks \cup full : end <= k
    <2> DEFINE U == breaks \cup full
    <2>1. U \in SUBSET Nat /\ U # {} /\ end = Least(U)
      BY <1>2, <1>7, <1>8
    <2> HIDE DEF U
    <2>2. end \in U /\ \A k \in U : end <= k
      BY <2>1, LeastIn
    <2> QED BY <2>2 DEF U
  <1>9. /\ end \in Int /\ end <= last /\ first <= end + 1 /\ end <= Len(ix)
        /\ Within(dict.block, ix, s.sig, first, end)
    <2>1. CASE breaks \cup full = {}
      <3>1. end = last
        BY <1>2, <2>1, Zenon
      <3>2. end <= last /\ first <= end + 1
        BY <1>6, <3>1
      <3> QED BY <1>4, <1>6, <3>1, <3>2
    <2>2. CASE breaks \cup full # {}
      <3>1. end \in inuse
        BY <1>7, <1>8, <2>2
      <3>2. end \in Int /\ end <= last /\ first <= end + 1 /\ end <= Len(ix)
        BY <1>6, <3>1
      <3> QED BY <1>4, <3>2 DEF Within
    <2> QED BY <2>1, <2>2
  <1>10. /\ \A k \in inuse : upto(k) \in SUBSET (1..Len(ix))
         /\ got \in SUBSET (1..Len(ix)) /\ got \subseteq inuse
    BY <1>3, <1>6, <1>9
  <1>11. IsFiniteSet(got) /\ Cardinality(got) \in Nat
    BY <1>6, <1>10, PositionsFinite
  <1>12. Cardinality(got) <= max
    <2> SUFFICES ASSUME Cardinality(got) > max PROVE FALSE
      BY <1>11
    <2>1. got # {}
      BY <1>11, FS_EmptySet
    <2>2. PICK g \in got : \A y \in got : y <= g
      <3>1. got \in SUBSET (0..Len(ix))
        BY <1>10
      <3> QED BY <1>6, <2>1, <3>1, GreatestIn
    <2> DEFINE less == got \ {g}
    <2>3. IsFiniteSet(less) /\ Cardinality(less) = Cardinality(got) - 1
      BY <1>11, <2>2, FS_RemoveElement
    <2>4. Cardinality(less) >= max /\ less # {} /\ less \in SUBSET (0..Len(ix))
      <3>1. Cardinality(less) >= max
        BY <1>11, <2>3
      <3>2. less # {}
        BY <2>3, <3>1, FS_EmptySet
      <3> QED BY <1>10, <3>1, <3>2
    <2> HIDE DEF less
    <2>5. PICK m \in less : \A y \in less : y <= m
      BY <1>6, <2>4, GreatestIn
    <2>6. m \in got /\ m < g /\ g <= end /\ m \in inuse
      BY <1>3, <1>6, <1>9, <1>10, <2>2, <2>5 DEF less
    <2>7. upto(m) = less
      <3>1. ASSUME NEW j \in upto(m) PROVE j \in less
        <4>1. j \in inuse /\ j <= m /\ E(j)
          OBVIOUS
        <4>2. /\ j \in Int /\ first <= j /\ ~ix[j].rm
              /\ m \in Int /\ g \in Int /\ m < g /\ g <= end /\ end \in Int
          BY <1>6, <1>9, <1>10, <2>6, <4>1
        <4>3. j \in first..end /\ ~ix[j].rm /\ j # g
          BY <1>6, <4>1, <4>2
        <4> QED BY <1>3, <4>1, <4>3 DEF less
      <3>2. ASSUME NEW j \in less PROVE j \in upto(m)
        <4>1. j \in got /\ j <= m
          BY <2>5 DEF less
        <4> QED BY <1>3, <1>10, <4>1
      <3> QED BY <3>1, <3>2
    <2>8. m \in full
      BY <2>4, <2>6, <2>7
    <2>9. end <= m
      BY <1>8, <2>8
    <2> QED BY <1>6, <1>9, <2>6, <2>9
  <1>13. CASE end \in full
    <2>1. end \in inuse /\ max <= Cardinality(upto(end))
      BY <1>13
    <2>2. upto(end) = got
      BY <1>3, <1>6, <1>9, <2>1
    <2>3. Cardinality(got) = max
      BY <1>11, <1>12, <2>1, <2>2
    <2> QED BY <1>9, <1>12, <2>3 DEF end, first, got
  <1>14. CASE end \notin full /\ end \in breaks
    <2>1. end \in inuse /\ end \in 1..Len(ix) /\ first <= end
      BY <1>6, <1>14
    <2>2. CompareAt(dict.block, ix, end, s) # 0 \/ ~FuzzyPrefixAt(dict.block, ix, end, s)
      BY <1>14
    <2>3. ASSUME NEW k \in 1..Len(ix), ~ix[k].rm, KeyAt(dict.block, ix, k) = s.sig
          PROVE  k <= end
      <3> SUFFICES ASSUME ~(k <= end) PROVE FALSE
        OBVIOUS
      <3>1. KeyAt(dict.block, ix, first) = s.sig /\ end <= k
        BY <1>6, <1>9, <2>3 DEF Starts
      <3>2. KeyAt(dict.block, ix, end) = s.sig
        <4> HIDE DEF ix, inuse, breaks
        <4>1. KeyAt(dict.block, ix, k) = s.sig /\ k \in 1..Len(ix)
          BY <2>3
        <4>2. Indexed(dict.block, ix) /\ first <= end /\ end <= k
          BY <2>1, <3>1 DEF ix
        <4>3. first \in 1..Len(ix) /\ end \in 1..Len(ix)
          BY <1>6, <2>1
        <4> QED BY <3>1, <4>1, <4>2, <4>3, BetweenKeys, Zenon
      <3> QED BY <2>1, <2>2, <3>2, SameKeyMatches
    <2>4. Covered(dict.block, ix, s.sig, first, end)
      BY <1>9, <2>3 DEF Covered
    <2> QED BY <1>9, <1>12, <2>4 DEF end, first, got
  <1>15. CASE end \notin full /\ end \notin breaks
    <2>1. end = last
      BY <1>2, <1>8, <1>15
    <2> QED BY <1>4, <1>5, <1>9, <1>12, <2>1 DEF end, first, got, cached
  <1> QED BY <1>13, <1>14, <1>15

(* Where get_lpis finds nothing to start from there is nothing. *)
LEMMA NoStartMissing ==
    ASSUME NEW dict, Indexed(dict.block, dict.index), CachesOK(dict),
           NEW s, IsSearchable(s), s.len \in 1..MaxLemmaSize,
           MissFor(dict, s) \/ LpisStart(dict, s) = 0
    PROVE  Missing(dict.block, dict.index, s.sig)
  <1>1. CASE MissFor(dict, s)
    BY <1>1, CacheLookup
  <1>2. CASE ~MissFor(dict, s)
    <2>1. ScanStart(dict, s) = 0
      BY <1>2 DEF LpisStart, ScanStart
    <2> QED BY <2>1, ScanRange
  <1> QED BY <1>1, <1>2

(* get_lpis answers with the first lemmas in use that match. *)
LEMMA LpisExactly ==
    ASSUME NEW dict, Indexed(dict.block, dict.index), CachesOK(dict),
           NEW q \in Queries, NEW max \in Rooms
    PROVE  LET s    == Searchable(q)
               all  == {k \in 1..Len(dict.index) :
                           ~dict.index[k].rm /\ EqualAt(dict.block, dict.index, k, s)}
               got  == Lpis(dict, q, max)
               rest == all \ got
           IN  /\ got \subseteq all /\ Cardinality(got) <= max
               /\ \A k \in got, j \in rest : k < j
               /\ rest # {} => Cardinality(got) = max \/ BehindCut(dict, s, rest)
  <1> DEFINE s     == Searchable(q)
             first == LpisStart(dict, s)
             end   == LpisEnd(dict, s, max)
             E(k)  == ~dict.index[k].rm /\ EqualAt(dict.block, dict.index, k, s)
             all   == {k \in 1..Len(dict.index) : E(k)}
             got   == Lpis(dict, q, max)
             rest  == all \ got
             Goal  == /\ got \subseteq all /\ Cardinality(got) <= max
                      /\ \A k \in got, j \in rest : k < j
                      /\ rest # {} => Cardinality(got) = max \/ BehindCut(dict, s, rest)
  <1>1. /\ q \in Seq(DOMAIN SplInitial) /\ IsSearchable(s) /\ s.sig = Key(q)
        /\ s.len \in 1..MaxLemmaSize
    BY QueriesAssumption, SearchableTyped
  <1>2. max \in Nat /\ Len(dict.index) \in Nat /\ Cardinality({}) = 0
    BY SizesAssumption, FS_EmptySet DEF Indexed
  <1>3. got = IF max = 0 \/ first = 0 THEN {} ELSE {k \in first..end : E(k)}
    BY DEF Lpis
  <1>4. ASSUME NEW k \in 1..Len(dict.index), E(k)
        PROVE  KeyAt(dict.block, dict.index, k) = s.sig
    BY <1>1, <1>4, EqualHasKey
  <1>5. CASE max = 0
    <2>1. got = {}
      BY <1>3, <1>5
    <2> HIDE DEF got, E
    <2>2. Goal
      BY <1>2, <1>5, <2>1
    <2> QED BY <2>2 DEF got, E
  <1>6. CASE max # 0 /\ (MissFor(dict, s) \/ first = 0)
    <2>1. Missing(dict.block, dict.index, s.sig)
      BY <1>1, <1>6, NoStartMissing
    <2>2. all = {}
      BY <1>4, <2>1 DEF Missing
    <2>3. got = {}
      <3>1. CASE first = 0
        BY <1>3, <3>1
      <3>2. CASE MissFor(dict, s) /\ first # 0
        <4>1. first = 1
          BY <3>2 DEF LpisStart
        <4>2. end = 0
          <5>1. 1..0 = {}
            OBVIOUS
          <5> QED BY <3>2, <4>1, <5>1 DEF LpisEnd
        <4>3. first..end = {}
          BY <4>1, <4>2
        <4> HIDE DEF first, end, E, got
        <4> QED BY <1>3, <1>6, <3>2, <4>3
      <3> QED BY <1>6, <3>1, <3>2
    <2> HIDE DEF got, E, all
    <2>4. Goal
      BY <1>2, <2>2, <2>3
    <2> QED BY <2>4 DEF got, E, all
  <1>7. CASE max # 0 /\ ~(MissFor(dict, s) \/ first = 0)
    <2>1. /\ Within(dict.block, dict.index, s.sig, first, end)
          /\ Cardinality(Got(dict, s, max)) <= max
          /\ \/ Cardinality(Got(dict, s, max)) = max
             \/ Covered(dict.block, dict.index, s.sig, first, end)
             \/ /\ HitsFor(dict, s) # {} /\ CutShort(dict, s, first, end)
                /\ first = LoadCache(dict, s).start
                /\ end = first + LoadCache(dict, s).count - 1
      BY <1>1, <1>2, <1>7, ScanReaches
    <2>2. got = {k \in first..end : E(k)} /\ got = Got(dict, s, max)
      BY <1>3, <1>7 DEF Got
    <2> HIDE DEF first, end, got, E
    <2>3. first \in 1..Len(dict.index) /\ end \in Int /\ end <= Len(dict.index)
      BY <2>1 DEF Within, Starts
    <2>4. got \subseteq all
      BY <1>2, <2>2, <2>3
    <2>5. ASSUME NEW j \in rest PROVE j \in 1..Len(dict.index) /\ E(j) /\ end < j
      <3>1. j \in 1..Len(dict.index) /\ E(j) /\ j \notin got
        OBVIOUS
      <3>2. first <= j
        <4>1. KeyAt(dict.block, dict.index, j) = s.sig
          BY <1>4, <3>1 DEF E
        <4> QED BY <2>1, <3>1, <4>1 DEF Within, Starts
      <3> QED BY <2>2, <2>3, <3>1, <3>2
    <2>6. ASSUME NEW k \in got, NEW j \in rest PROVE k < j
      <3>1. k \in first..end /\ end < j /\ j \in 1..Len(dict.index)
        BY <2>2, <2>5
      <3> QED BY <1>2, <2>3, <3>1
    <2>7. ASSUME rest # {}, Cardinality(got) # max
          PROVE  BehindCut(dict, s, rest)
      <3>1. PICK j \in rest : TRUE
        BY <2>7
      <3>2. ~Covered(dict.block, dict.index, s.sig, first, end)
        <4>1. j \in 1..Len(dict.index) /\ E(j) /\ end < j
          BY <2>5, <3>1
        <4>2. KeyAt(dict.block, dict.index, j) = s.sig /\ ~dict.index[j].rm
          BY <1>4, <4>1 DEF E
        <4> QED BY <2>3, <4>1, <4>2 DEF Covered
      <3>3. /\ HitsFor(dict, s) # {} /\ CutShort(dict, s, first, end)
            /\ first = LoadCache(dict, s).start
            /\ end = first + LoadCache(dict, s).count - 1
        BY <2>1, <2>2, <2>7, <3>2
      <3>4. \A k \in rest : k > end
        BY <2>3, <2>5
      <3> HIDE DEF rest, s
      <3> QED BY <3>3, <3>4 DEF BehindCut
    <2>8. Cardinality(got) <= max
      BY <2>1, <2>2
    <2> HIDE DEF all
    <2>9. Goal
      BY <2>4, <2>6, <2>7, <2>8
    <2> QED BY <2>9 DEF got, E, all
  <1> QED BY <1>5, <1>6, <1>7

(* What get_lpis leaves in the caches is right. *)
LEMMA GetLpisCaches ==
    ASSUME NEW dict, NEW f, Good(dict, f), Indexed(dict.block, dict.index), CachesOK(dict),
           NEW q \in Queries, NEW max \in Rooms
    PROVE  CachesOK(GetLpis(dict, q, max))
  <1> DEFINE s     == Searchable(q)
             first == LpisStart(dict, s)
             end   == LpisEnd(dict, s, max)
             e     == [sig |-> s.sig, start |-> first, count |-> end - first + 1]
             hits  == [dict.hits EXCEPT ![s.len] = RingPush(@, e, HitSize)]
             misses == [dict.misses EXCEPT ![s.len] = RingPush(@, s.sig, MissSize)]
             r     == GetLpis(dict, q, max)
  <1>1. /\ q \in Seq(DOMAIN SplInitial) /\ IsSearchable(s) /\ s.sig = Key(q)
        /\ s.len \in 1..MaxLemmaSize /\ s.sig \in Seq(Nat) /\ Len(s.sig) = s.len
    BY QueriesAssumption, SearchableTyped DEF IsSearchable
  <1>2. dict = [state |-> dict.state, block |-> dict.block, index |-> dict.index,
                by_id |-> dict.by_id, preds |-> dict.preds, syncs |-> dict.syncs,
                left |-> dict.left, limit |-> dict.limit, free_count |-> dict.free_count,
                hits |-> dict.hits, misses |-> dict.misses]
    BY GoodTypes
  <1>3. CASE MissFor(dict, s) \/ HitsFor(dict, s) # {} \/ max = 0
    BY <1>3 DEF GetLpis
  <1>4. CASE ~(MissFor(dict, s) \/ HitsFor(dict, s) # {} \/ max = 0) /\ first = 0
    <2>1. r = [dict EXCEPT !.misses[s.len] = RingPush(@, s.sig, MissSize)]
      BY <1>4 DEF GetLpis
    <2> HIDE DEF r, first, end, s
    <2>2. /\ r.block = dict.block /\ r.index = dict.index /\ r.hits = dict.hits
          /\ r.misses = misses
      BY <1>2, <2>1
    <2>3. Missing(dict.block, dict.index, s.sig)
      BY <1>1, <1>4, NoStartMissing DEF first
    <2>4. s.sig \in Misses(dict.block, dict.index, s.len)
      BY <1>1, <2>3 DEF Misses
    <2>5. RingPush(dict.misses[s.len], s.sig, MissSize) \in Seq(Misses(dict.block, dict.index, s.len))
      BY <1>1, <2>4, RingPushTyped, SizesAssumption DEF CachesOK
    <2>6. DOMAIN misses = 1..MaxLemmaSize
          /\ \A n \in 1..MaxLemmaSize : misses[n] \in Seq(Misses(dict.block, dict.index, n))
      BY <1>1, <2>5 DEF CachesOK
    <2>7. CachesOK(r)
      BY <2>2, <2>6 DEF CachesOK
    <2> QED BY <2>7 DEF r
  <1>5. CASE ~(MissFor(dict, s) \/ HitsFor(dict, s) # {} \/ max = 0) /\ first # 0
    <2>1. r = [dict EXCEPT !.hits[s.len] = RingPush(@, e, HitSize)]
      BY <1>5 DEF GetLpis
    <2>2. max \in Nat \ {0} /\ max \in Rooms \ {0}
      BY <1>5, SizesAssumption
    <2>3. /\ Within(dict.block, dict.index, s.sig, first, end)
          /\ \/ Cardinality(Got(dict, s, max)) = max
             \/ Covered(dict.block, dict.index, s.sig, first, end)
      BY <1>1, <1>5, <2>2, ScanReaches
    <2>4. Ranged(dict.block, dict.index, s.sig, first, end)
      <3>1. CASE Covered(dict.block, dict.index, s.sig, first, end)
        BY <2>3, <3>1 DEF Ranged
      <3>2. CASE Cardinality(Got(dict, s, max)) = max
        <4> DEFINE A == {k \in first..end : EqualAt(dict.block, dict.index, k, s)}
        <4>1. Got(dict, s, max) \subseteq A
          BY DEF Got
        <4> HIDE DEF first, end
        <4>2. Len(dict.index) \in Nat /\ A \in SUBSET (1..Len(dict.index))
          BY <2>3 DEF Within, Starts, Indexed
        <4>3. max <= Cardinality(A)
          <5> HIDE DEF A
          <5>1. IsFiniteSet(A)
            BY <4>2, PositionsFinite
          <5> QED BY <3>2, <4>1, <5>1, FS_Subset
        <4>4. Short(dict.block, dict.index, s.sig, first, end)
          BY <2>2, <4>3 DEF Short
        <4> QED BY <2>3, <4>4 DEF Ranged
      <3> QED BY <2>3, <3>1, <3>2
    <2> HIDE DEF r, first, end, s
    <2>5. first \in Nat /\ end \in Int
      BY <2>3 DEF Within, Starts
    <2>6. e \in Cached /\ e.sig = s.sig /\ e.start = first /\ e.start + e.count - 1 = end
      BY <1>1, <2>5 DEF Cached
    <2> HIDE DEF e
    <2>7. e \in Hits(dict.block, dict.index, s.len)
      BY <1>1, <2>4, <2>6 DEF Hits
    <2>8. RingPush(dict.hits[s.len], e, HitSize) \in Seq(Hits(dict.block, dict.index, s.len))
      BY <1>1, <2>7, RingPushTyped, SizesAssumption DEF CachesOK
    <2>9. /\ r.block = dict.block /\ r.index = dict.index /\ r.misses = dict.misses
          /\ r.hits = hits
      BY <1>2, <2>1
    <2>10. DOMAIN hits = 1..MaxLemmaSize
           /\ \A n \in 1..MaxLemmaSize : hits[n] \in Seq(Hits(dict.block, dict.index, n))
      BY <1>1, <2>8 DEF CachesOK
    <2>11. CachesOK(r)
      BY <2>9, <2>10 DEF CachesOK
    <2> QED BY <2>11 DEF r
  <1> QED BY <1>3, <1>4, <1>5

-----------------------------------------------------------------------------
(* The invariant. *)

Cachable(dict, f) == Kept(dict, f) /\ CachesOK(dict)

(* The ordered index is one that can be searched. *)
LEMMA KeptIndexed ==
    ASSUME NEW dict, NEW f, Kept(dict, f)
    PROVE  Indexed(dict.block, dict.index)
  <1>1. /\ Len(dict.index) \in Nat
        /\ \A k \in 1..Len(dict.index) : /\ dict.index[k] \in Entry
                                         /\ dict.block[dict.index[k].off] \in Lemmas
    BY GoodTypes DEF Kept
  <1>2. Sorted(dict.block, dict.index)
    BY DEF Kept, Orderly
  <1> QED BY <1>1, <1>2 DEF Indexed, Entry

(* A new score leaves the caches right. *)
LEMMA ScoreCaches ==
    ASSUME NEW dict, NEW f, Cachable(dict, f), NEW k \in 1..Len(dict.index), NEW score \in Score
    PROVE  CachesOK(Scored(dict, k, score))
  <1> DEFINE r == Scored(dict, k, score)
  <1>1. /\ r.block = dict.block /\ r.hits = dict.hits /\ r.misses = dict.misses
        /\ Len(r.index) = Len(dict.index)
        /\ \A j \in 1..Len(dict.index) :
              r.index[j].off = dict.index[j].off /\ r.index[j].rm = dict.index[j].rm
    BY ScoreFields DEF Cachable, Kept
  <1> HIDE DEF r
  <1>2. CachesOK(r)
    BY <1>1, CachesSame DEF Cachable
  <1> QED BY <1>2 DEF r

(* So does queueing a lemma. *)
LEMMA QueueCaches ==
    ASSUME NEW dict, NEW f, Good(dict, f), CachesOK(dict), NEW id
    PROVE  CachesOK(QueueLemmaForSync(dict, id))
  <1> DEFINE r == QueueLemmaForSync(dict, id)
  <1>1. /\ r.block = dict.block /\ r.index = dict.index
        /\ r.hits = dict.hits /\ r.misses = dict.misses
    BY QueueFields, Zenon
  <1> HIDE DEF r
  <1>2. CachesOK(r)
    BY <1>1 DEF CachesOK
  <1> QED BY <1>2 DEF r

(* update_lemma, found or not. *)
LEMMA UpdateCaches ==
    ASSUME NEW dict, NEW f, Cachable(dict, f), NEW id, NEW delta \in Nat,
           NEW selected \in BOOLEAN, NEW week \in Nat
    PROVE  CachesOK(UpdateLemma(dict, id, delta, selected, week))
  <1> DEFINE k == LocateInOffsets(dict, dict.block[dict.by_id[id]])
             r == UpdateLemma(dict, id, delta, selected, week)
  <1>1. Good(dict, f)
    BY DEF Cachable, Kept
  <1>2. Len(dict.index) \in Nat /\ k \in 0..Len(dict.index)
    BY <1>1, LocateRange, SegmentsOfIndex DEF Good
  <1>3. CASE k = 0
    BY <1>3 DEF UpdateLemma, Cachable
  <1>4. CASE k # 0
    <2>1. k \in 1..Len(dict.index)
      BY <1>2, <1>4
    <2>2. \E score \in Score : r = QueueLemmaForSync(Scored(dict, k, score), dict.index[k].id)
      BY <1>1, <2>1, UpdateQueues
    <2> HIDE DEF k, r
    <2> PICK score \in Score : r = QueueLemmaForSync(Scored(dict, k, score), dict.index[k].id)
      BY <2>2
    <2>3. CachesOK(Scored(dict, k, score))
      BY <2>1, ScoreCaches
    <2>4. Good(Scored(dict, k, score), f)
      BY <1>1, <2>1, ScoreGood
    <2>5. CachesOK(r)
      BY <2>3, <2>4, QueueCaches
    <2> QED BY <2>5 DEF r
  <1> QED BY <1>3, <1>4

(* remove_lemma, found or not. *)
LEMMA RemoveCaches ==
    ASSUME NEW dict, NEW f, Cachable(dict, f), NEW id
    PROVE  CachesOK(RemoveLemma(dict, id))
  <1> DEFINE k == LocateInOffsets(dict, dict.block[dict.by_id[id]])
             r == RemoveLemmaByOffsetIndex(dict, k)
  <1>1. Good(dict, f)
    BY DEF Cachable, Kept
  <1>2. Len(dict.index) \in Nat /\ k \in 0..Len(dict.index)
    BY <1>1, LocateRange, SegmentsOfIndex DEF Good
  <1>3. CASE k = 0
    BY <1>3 DEF RemoveLemma, Cachable
  <1>4. CASE k # 0
    <2>1. k \in 1..Len(dict.index) /\ RemoveLemma(dict, id) = r
      BY <1>2, <1>4 DEF RemoveLemma
    <2> HIDE DEF k
    <2>2. /\ r.block = dict.block /\ r.hits = dict.hits /\ r.misses = dict.misses
          /\ Len(r.index) = Len(dict.index)
          /\ \A j \in 1..Len(dict.index) :
                /\ r.index[j].off = dict.index[j].off
                /\ j = k => r.index[j].rm = TRUE
                /\ j # k => r.index[j].rm = dict.index[j].rm
      BY <1>1, <2>1, RemoveFields, Zenon
    <2> HIDE DEF r
    <2>3. \A j \in 1..Len(dict.index) :
             r.index[j].off = dict.index[j].off /\ (~r.index[j].rm => ~dict.index[j].rm)
      BY <2>2, Zenon
    <2>4. CachesOK(r)
      BY <2>2, <2>3, CachesSame DEF Cachable
    <2> QED BY <2>1, <2>4
  <1> QED BY <1>3, <1>4

(* _put_lemma: a new score, nothing, or caches that are emptied. *)
LEMMA PutCaches ==
    ASSUME NEW dict, NEW f, Cachable(dict, f), NEW w \in Lemmas, NEW count \in Nat, NEW week \in Nat
    PROVE  CachesOK(PutLemma(dict, f, w, count, week).d)
  <1> DEFINE k     == LocateInOffsets(dict, w)
             score == BuildScore(week, count)
             room  == IF NoRoom(dict) THEN FlushCache(dict, f, dict.syncs)
                                       ELSE [d |-> dict, file |-> f]
             added == AppendALemma(room.d, w, score)
             r     == PutLemma(dict, f, w, count, week)
  <1>1. score \in Score
    BY BuildScoreFits
  <1>2. Kept(dict, f) /\ Good(dict, f) /\ Len(dict.index) \in Nat /\ k \in 0..Len(dict.index)
    BY LocateRange, SegmentsOfIndex DEF Good, Kept, Cachable
  <1> HIDE DEF score, k
  <1>3. CASE k # 0
    <2>1. k \in 1..Len(dict.index)
      BY <1>2, <1>3
    <2>2. r.d = Scored(dict, k, score)
      BY <1>3 DEF PutLemma, Scored, k, score
    <2> QED BY <1>1, <2>1, <2>2, ScoreCaches
  <1>4. CASE k = 0 /\ LimitReached(dict)
    BY <1>4 DEF PutLemma, k, Cachable
  <1>5. CASE k = 0 /\ ~LimitReached(dict)
    <2>1. Good(room.d, room.file) /\ room.d.left # 0
      <3>1. CASE NoRoom(dict)
        BY <1>2, <3>1, FlushKept DEF Kept
      <3>2. CASE ~NoRoom(dict)
        BY <1>2, <3>2 DEF NoRoom
      <3> QED BY <3>1, <3>2
    <2>2. r.d = QueueLemmaForSync(added, Len(added.index))
      BY <1>5 DEF PutLemma, k, score
    <2> HIDE DEF room
    <2>3. Good(added, room.file) /\ added.hits = NoCache /\ added.misses = NoCache
      BY <1>1, <2>1, AppendGood, AppendPlaces
    <2> HIDE DEF added, r
    <2>4. CachesOK(added)
      BY <2>3, EmptyCachesOK
    <2>5. CachesOK(r.d)
      BY <2>2, <2>3, <2>4, QueueCaches
    <2> QED BY <2>5 DEF r
  <1> QED BY <1>3, <1>4, <1>5

(* load. *)
LEMMA LoadCaches ==
    ASSUME NEW f
    PROVE  CachesOK(Load(f))
  BY EmptyCachesOK DEF Load

-----------------------------------------------------------------------------
(* The specification. *)

(* The caches are right in every reachable state. *)
THEOREM CachableInductive == Spec => []Cachable(d, file)
  <1>1. Init => CachesOK(d)
    BY LoadCaches DEF Init
  <1>2. Kept(d, file) /\ CachesOK(d) /\ [Next]_vars => CachesOK(d)'
    <2> SUFFICES ASSUME Kept(d, file), CachesOK(d), [Next]_vars
                 PROVE  CachesOK(d')
      OBVIOUS
    <2> USE DEF Cachable
    <2>1. ASSUME NEW w \in Lemmas, NEW week \in Weeks, Put(w, week)
          PROVE  CachesOK(d')
      <3>1. week \in Nat /\ 1 \in Nat
        BY SizesAssumption
      <3> QED BY <2>1, <3>1, PutCaches DEF Put
    <2>2. ASSUME NEW id \in 1..Len(d.index), NEW week \in Weeks, Update(id, week)
          PROVE  CachesOK(d')
      <3>1. week \in Nat /\ 1 \in Nat /\ TRUE \in BOOLEAN
        BY SizesAssumption
      <3> QED BY <2>2, <3>1, UpdateCaches DEF Update
    <2>3. ASSUME NEW id \in 1..Len(d.index), Remove(id)
          PROVE  CachesOK(d')
      BY <2>3, RemoveCaches DEF Remove
    <2>4. ASSUME NEW q \in Queries, NEW max \in Rooms, Search(q, max)
          PROVE  CachesOK(d')
      <3>1. Good(d, file) /\ Indexed(d.block, d.index)
        BY KeptIndexed DEF Kept
      <3> QED BY <2>4, <3>1, GetLpisCaches DEF Search
    <2>5. CASE Flush
      BY <2>5, LoadCaches DEF Flush, FlushCache
    <2>6. CASE Restart
      BY <2>6, LoadCaches DEF Restart
    <2>7. CASE UNCHANGED vars
      BY <2>7 DEF vars
    <2> QED BY <2>1, <2>2, <2>3, <2>4, <2>5, <2>6, <2>7 DEF Next
  <1> QED BY <1>1, <1>2, KeptInductive, PTL DEF Spec, Cachable

(* get_lpis answers with the first lemmas in use that match the query, as many
   as the caller has room for, by a new search and from what an earlier call
   left in either cache; with fewer only from a range that was cut short. *)
THEOREM LpisCorrect == Spec => []LpisExact
  <1>1. ASSUME Cachable(d, file) PROVE LpisExact
    <2>1. Indexed(d.block, d.index) /\ CachesOK(d)
      BY <1>1, KeptIndexed DEF Cachable
    <2> QED BY <2>1, LpisExactly, Zenon DEF LpisExact, Positions, Matching
  <1> QED BY <1>1, CachableInductive, PTL

(* locate_in_offsets finds a lemma in use, unless its entries lie behind a
   cached range that was cut short, and otherwise nothing, or a longer lemma
   that begins with it. *)
THEOREM LocateCorrect == Spec => []LocateFinds
  <1>1. ASSUME Cachable(d, file) PROVE LocateFinds
    <2>1. Indexed(d.block, d.index) /\ CachesOK(d)
      BY <1>1, KeptIndexed DEF Cachable
    <2> QED BY <2>1, LocateExactly, Zenon DEF LocateFinds, Positions, LemmaAt
  <1> QED BY <1>1, CachableInductive, PTL

-----------------------------------------------------------------------------
(* An object that is not searched, as UserDictSync has it: its caches stay
   empty, so a lemma in use is always found and never stored again. *)

(* No lemma is in use twice. *)
Single(block, ix) ==
    \A i, j \in 1..Len(ix) :
        i # j /\ ~ix[i].rm /\ ~ix[j].rm => block[ix[i].off] # block[ix[j].off]

Unsearched(dict) == dict.hits = NoCache /\ dict.misses = NoCache

Exact(dict, f) ==
    /\ Kept(dict, f)
    /\ Unsearched(dict)
    /\ Single(dict.block, dict.index)
    /\ Single(f.block, f.offs)
    /\ Len(dict.index) <= MaxSlots

(* Nothing is cut short where nothing is cached. *)
LEMMA UnsearchedCaches ==
    ASSUME NEW dict, Unsearched(dict)
    PROVE  /\ CachesOK(dict)
           /\ \A w \in Lemmas : \A K : ~BehindCut(dict, Searchable(w.spl), K)
  <1>1. CachesOK(dict)
    BY EmptyCachesOK DEF Unsearched
  <1>2. ASSUME NEW w \in Lemmas
        PROVE  HitsFor(dict, Searchable(w.spl)) = {}
    <2>1. Searchable(w.spl).len \in 1..MaxLemmaSize
      BY LemmaQuery
    <2>2. dict.hits[Searchable(w.spl).len] = <<>>
      BY <2>1 DEF Unsearched, NoCache
    <2> QED BY <2>2 DEF HitsFor
  <1> QED BY <1>1, <1>2 DEF BehindCut

(* What locate_in_offsets finds in an index that holds a lemma once. *)
LEMMA LocateOnly ==
    ASSUME NEW dict, Indexed(dict.block, dict.index), Unsearched(dict),
           Single(dict.block, dict.index), NEW w \in Lemmas
    PROVE  LET k == LocateInOffsets(dict, w)
               inuse(j) == ~dict.index[j].rm /\ LemmaAt(dict.block, dict.index, j) = w
           IN  /\ (\E j \in 1..Len(dict.index) : inuse(j)) =>
                      {j \in 1..Len(dict.index) : inuse(j)} = {k}
               /\ k # 0 => /\ k \in 1..Len(dict.index) /\ ~dict.index[k].rm
                           /\ Begins(LemmaAt(dict.block, dict.index, k), w)
  <1> DEFINE k == LocateInOffsets(dict, w)
             at == {j \in 1..Len(dict.index) :
                       ~dict.index[j].rm /\ dict.block[dict.index[j].off] = w}
  <1>1. /\ k # 0 => /\ k \in 1..Len(dict.index) /\ ~dict.index[k].rm
                    /\ Begins(dict.block[dict.index[k].off], w)
        /\ at # {} => k \in at \/ BehindCut(dict, Searchable(w.spl), at)
    BY UnsearchedCaches, LocateExactly
  <1>2. ~BehindCut(dict, Searchable(w.spl), at)
    BY UnsearchedCaches
  <1> HIDE DEF k
  <1>3. ASSUME at # {} PROVE at = {k}
    <2>1. k \in at
      BY <1>1, <1>2, <1>3
    <2>2. \A j \in at : j = k
      BY <2>1 DEF Single
    <2> QED BY <2>1, <2>2
  <1> QED BY <1>1, <1>3 DEF k, LemmaAt

(* Two lists alike in offsets, of which the second has no more in use. *)
LEMMA SingleSame ==
    ASSUME NEW block, NEW ix, NEW ix2, Single(block, ix), Len(ix2) = Len(ix),
           \A k \in 1..Len(ix) : ix2[k].off = ix[k].off /\ (~ix2[k].rm => ~ix[k].rm)
    PROVE  Single(block, ix2)
  BY DEF Single

(* Scores, flags that are set, and the queue. *)
LEMMA ExactSame ==
    ASSUME NEW dict, NEW f, Exact(dict, f), NEW r, Kept(r, f),
           r.block = dict.block, r.hits = dict.hits, r.misses = dict.misses,
           Len(r.index) = Len(dict.index),
           \A k \in 1..Len(dict.index) : /\ r.index[k].off = dict.index[k].off
                                         /\ ~r.index[k].rm => ~dict.index[k].rm
    PROVE  Exact(r, f)
  <1>1. Unsearched(r)
    BY DEF Exact, Unsearched
  <1>2. Single(r.block, r.index)
    BY SingleSame DEF Exact
  <1> QED BY <1>1, <1>2 DEF Exact

(* load(): the caches start empty. *)
LEMMA LoadExact ==
    ASSUME NEW f, FileOK(f), Orderly(f.block, f.offs, f.preds), Single(f.block, f.offs),
           Len(f.offs) <= MaxSlots
    PROVE  /\ Exact(Load(f), f)
           /\ Load(f).block = f.block /\ Len(Load(f).index) = Len(f.offs)
           /\ \A k \in 1..Len(f.offs) : /\ Load(f).index[k].off = f.offs[k].off
                                        /\ Load(f).index[k].rm = f.offs[k].rm
                                        /\ Load(f).index[k].score = f.scores[k]
  <1> DEFINE r == Load(f)
             n == Len(f.offs)
  <1>1. Kept(r, f)
    BY LoadKept
  <1>2. /\ r.block = f.block /\ r.hits = NoCache /\ r.misses = NoCache
        /\ r.index = [k \in 1..n |-> [off |-> f.offs[k].off, rm |-> f.offs[k].rm,
                                      score |-> f.scores[k], id |-> k]]
    BY DEF Load
  <1> HIDE DEF r
  <1>3. Len(r.index) = n
    <2>1. n \in Nat
      BY LenProperties DEF FileOK, FileTypes
    <2>2. r.index \in Seq(Entry)
      BY <1>1, GoodTypes DEF Kept
    <2>3. DOMAIN r.index = 1..n /\ DOMAIN r.index = 1..Len(r.index) /\ Len(r.index) \in Nat
      BY <1>2, <2>2, LenProperties
    <2> QED BY <2>1, <2>3
  <1>4. \A k \in 1..n : /\ r.index[k].off = f.offs[k].off /\ r.index[k].rm = f.offs[k].rm
                        /\ r.index[k].score = f.scores[k]
    BY <1>2
  <1>5. Unsearched(r)
    BY <1>2 DEF Unsearched
  <1>6. Single(r.block, r.index)
    <2>1. Single(f.block, r.index)
      BY <1>3, <1>4, SingleSame
    <2> QED BY <1>2, <2>1
  <1>7. Exact(r, f)
    BY <1>1, <1>3, <1>5, <1>6 DEF Exact
  <1> QED BY <1>2, <1>3, <1>4, <1>7 DEF r

(* flush_cache: the lists come back as they were. *)
LEMMA FlushExact ==
    ASSUME NEW dict, NEW f, Exact(dict, f)
    PROVE  LET r == FlushCache(dict, f, dict.syncs)
           IN  /\ Exact(r.d, r.file) /\ r.d.left # 0
               /\ r.file = Image(dict)
               /\ r.d.block = dict.block /\ Len(r.d.index) = Len(dict.index)
               /\ \A k \in 1..Len(dict.index) :
                     /\ r.d.index[k].off = dict.index[k].off /\ r.d.index[k].rm = dict.index[k].rm
                     /\ r.d.index[k].score = dict.index[k].score
  <1> DEFINE r == FlushCache(dict, f, dict.syncs)
             g == Image(dict)
  <1>1. Kept(dict, f) /\ DictOK(dict) /\ Len(dict.index) <= MaxSlots /\ Single(dict.block, dict.index)
    BY DEF Exact, Kept, Good
  <1>2. /\ Kept(r.d, r.file) /\ r.d = Load(g) /\ r.file = g /\ r.d.left # 0
    BY <1>1, FlushKept, Zenon
  <1>3. FileOK(g) /\ Orderly(g.block, g.offs, g.preds)
    BY <1>1, <1>2, ImageOK DEF Kept
  <1>4. /\ g.block = dict.block /\ Len(g.offs) = Len(dict.index)
        /\ \A k \in 1..Len(dict.index) :
              /\ g.offs[k].off = dict.index[k].off /\ g.offs[k].rm = dict.index[k].rm
              /\ g.scores[k] = dict.index[k].score
    <2>1. Len(OffsetsOf(dict.index)) = Len(dict.index)
      BY <1>1, SegmentsOfIndex
    <2>2. g.block = dict.block /\ g.offs = OffsetsOf(dict.index) /\ g.scores = ScoresOf(dict.index)
      BY DEF Image
    <2> HIDE DEF g
    <2>3. \A k \in 1..Len(dict.index) :
              /\ g.offs[k].off = dict.index[k].off /\ g.offs[k].rm = dict.index[k].rm
              /\ g.scores[k] = dict.index[k].score
      BY <2>2 DEF OffsetsOf, ScoresOf
    <2> QED BY <2>1, <2>2, <2>3
  <1> HIDE DEF r, g
  <1>5. Single(g.block, g.offs)
    <2>1. Single(dict.block, g.offs)
      BY <1>1, <1>4, SingleSame
    <2> QED BY <1>4, <2>1
  <1> DEFINE l == Load(g)
  <1>6. /\ Exact(l, g) /\ l.block = g.block /\ Len(l.index) = Len(g.offs)
        /\ \A k \in 1..Len(g.offs) : /\ l.index[k].off = g.offs[k].off
                                     /\ l.index[k].rm = g.offs[k].rm
                                     /\ l.index[k].score = g.scores[k]
    <2>1. Len(g.offs) <= MaxSlots
      BY <1>1, <1>4
    <2> QED BY <1>3, <1>5, <2>1, LoadExact
  <1> HIDE DEF l
  <1>7. r.d = l
    BY <1>2 DEF l
  <1>8. /\ Exact(r.d, r.file) /\ r.d.left # 0 /\ r.file = g
        /\ r.d.block = dict.block /\ Len(r.d.index) = Len(dict.index)
    BY <1>2, <1>4, <1>6, <1>7
  <1>9. \A k \in 1..Len(dict.index) :
           /\ r.d.index[k].off = dict.index[k].off /\ r.d.index[k].rm = dict.index[k].rm
           /\ r.d.index[k].score = dict.index[k].score
    BY <1>4, <1>6, <1>7, Zenon
  <1> QED BY <1>8, <1>9, Zenon DEF r, g

-----------------------------------------------------------------------------
(* The steps. *)

(* A new score leaves the index exact. *)
LEMMA ScoreExact ==
    ASSUME NEW dict, NEW f, Exact(dict, f), NEW k \in 1..Len(dict.index), NEW score \in Score
    PROVE  Exact(Scored(dict, k, score), f)
  <1> DEFINE r == Scored(dict, k, score)
  <1>1. Kept(dict, f) /\ Good(dict, f)
    BY DEF Exact, Kept
  <1>2. Kept(r, f)
    BY <1>1, ScoreKept
  <1>3. /\ r.block = dict.block /\ r.by_id = dict.by_id /\ r.preds = dict.preds
        /\ r.hits = dict.hits /\ r.misses = dict.misses
        /\ Len(r.index) = Len(dict.index)
        /\ \A j \in 1..Len(dict.index) :
              /\ r.index[j].off = dict.index[j].off /\ r.index[j].rm = dict.index[j].rm
              /\ r.index[j].id = dict.index[j].id
              /\ j = k => r.index[j].score = score
              /\ j # k => r.index[j].score = dict.index[j].score
    BY <1>1, ScoreFields
  <1> HIDE DEF r
  <1>4. Exact(r, f)
    BY <1>2, <1>3, ExactSame
  <1> QED BY <1>4 DEF r

(* So does a removal. *)
LEMMA RemoveExact ==
    ASSUME NEW dict, NEW f, Exact(dict, f), NEW k \in 1..Len(dict.index)
    PROVE  Exact(RemoveLemmaByOffsetIndex(dict, k), f)
  <1> DEFINE r == RemoveLemmaByOffsetIndex(dict, k)
  <1>1. Kept(dict, f) /\ Good(dict, f)
    BY DEF Exact, Kept
  <1>2. Kept(r, f)
    BY <1>1, RemoveKept
  <1>3. /\ r.block = dict.block /\ r.hits = dict.hits /\ r.misses = dict.misses
        /\ Len(r.index) = Len(dict.index)
        /\ \A j \in 1..Len(dict.index) :
              /\ r.index[j].off = dict.index[j].off
              /\ j = k => r.index[j].rm = TRUE
              /\ j # k => r.index[j].rm = dict.index[j].rm
    BY <1>1, RemoveFields, Zenon
  <1> HIDE DEF r
  <1>4. ASSUME NEW j \in 1..Len(dict.index)
        PROVE  r.index[j].off = dict.index[j].off /\ (~r.index[j].rm => ~dict.index[j].rm)
    BY <1>3, Zenon
  <1>5. Exact(r, f)
    BY <1>2, <1>3, <1>4, ExactSame
  <1> QED BY <1>5 DEF r

(* A lemma that is not in use is put into the index. *)
LEMMA AppendExact ==
    ASSUME NEW dict, NEW f, Exact(dict, f), dict.left # 0, NEW w \in Lemmas, NEW score \in Score,
           Len(dict.index) < MaxSlots,
           \A k \in 1..Len(dict.index) :
               ~dict.index[k].rm => dict.block[dict.index[k].off] # w
    PROVE  Exact(AppendALemma(dict, w, score), f)
  <1> DEFINE r == AppendALemma(dict, w, score)
             n == Len(dict.index)
             at == InsertPosition(r.block, dict.index, w)
             e == [off |-> n + 1, rm |-> FALSE, score |-> score, id |-> n + 1]
             ix == dict.index
             ix2 == r.index
  <1>1. Kept(dict, f) /\ Good(dict, f) /\ Single(dict.block, ix) /\ Single(f.block, f.offs)
    BY DEF Exact, Kept
  <1>2. Kept(r, f) /\ Len(r.index) = n + 1
    BY <1>1, AppendKept, AppendGood
  <1>3. n \in Nat /\ \A k \in 1..n : ix[k].off \in 1..n
    BY <1>1, GoodTypes
  <1>4. /\ r.block[n + 1] = w /\ \A i \in 1..n : r.block[i] = dict.block[i]
        /\ Placed(ix2, ix, at, e)
        /\ r.hits = NoCache /\ r.misses = NoCache
    BY <1>1, AppendPlaces
  <1> HIDE DEF r
  <1>5. Unsearched(r)
    BY <1>4 DEF Unsearched
  <1>6. e.off = n + 1
    OBVIOUS
  <1> HIDE DEF e, at
  <1>7. /\ ix2[at] = e /\ at \in 1..n + 1
        /\ \A j \in 1..n + 1 : j # at => Old(at, j) \in 1..n /\ ix2[j] = ix[Old(at, j)]
        /\ \A i, j \in 1..n + 1 : i # at /\ j # at => (i = j <=> Old(at, i) = Old(at, j))
    <2>1. Placed(ix2, ix, at, e) /\ Len(ix) \in Nat /\ Len(ix) = n
      BY <1>3, <1>4
    <2> HIDE DEF ix, ix2, n
    <2>2. ix2[at] = e /\ at \in 1..n + 1
      BY <2>1 DEF Placed
    <2>3. /\ \A j \in 1..Len(ix) + 1 : j # at => Old(at, j) \in 1..Len(ix) /\ ix2[j] = ix[Old(at, j)]
          /\ \A i, j \in 1..Len(ix) + 1 :
                i # at /\ j # at => (i < j <=> Old(at, i) < Old(at, j))
                                    /\ (i = j <=> Old(at, i) = Old(at, j))
      BY <2>1, PlacedOld
    <2> QED BY <2>1, <2>2, <2>3
  <1> DEFINE v(j) == r.block[ix2[j].off]
  <1>8. v(at) = w
    BY <1>4, <1>6, <1>7
  <1>9. ASSUME NEW j \in 1..n + 1, j # at, ~ix2[j].rm
        PROVE  /\ Old(at, j) \in 1..n /\ v(j) = dict.block[ix[Old(at, j)].off]
               /\ ~ix[Old(at, j)].rm /\ v(j) # w
    <2>1. Old(at, j) \in 1..n /\ ix2[j] = ix[Old(at, j)]
      BY <1>7, <1>9
    <2>2. v(j) = dict.block[ix[Old(at, j)].off] /\ ~ix[Old(at, j)].rm
      BY <1>3, <1>4, <1>9, <2>1
    <2> QED BY <2>1, <2>2
  <1> HIDE DEF v, ix2
  <1>10. ASSUME NEW i \in 1..n + 1, NEW j \in 1..n + 1, i # j, ~ix2[i].rm, ~ix2[j].rm
         PROVE  v(i) # v(j)
    <2>1. CASE i = at
      BY <1>8, <1>9, <1>10, <2>1, Zenon
    <2>2. CASE j = at
      BY <1>8, <1>9, <1>10, <2>2, Zenon
    <2>3. CASE i # at /\ j # at
      <3>1. /\ Old(at, i) \in 1..n /\ v(i) = dict.block[ix[Old(at, i)].off] /\ ~ix[Old(at, i)].rm
            /\ Old(at, j) \in 1..n /\ v(j) = dict.block[ix[Old(at, j)].off] /\ ~ix[Old(at, j)].rm
        BY <1>9, <1>10, <2>3, Zenon
      <3>2. Old(at, i) # Old(at, j)
        BY <1>7, <1>10, <2>3
      <3> QED BY <1>1, <3>1, <3>2, Zenon DEF Single
    <2> QED BY <2>1, <2>2, <2>3
  <1>11. Single(r.block, r.index)
    BY <1>2, <1>10, Zenon DEF Single, v, ix2
  <1>12. Len(r.index) <= MaxSlots
    BY <1>2, <1>3, SizesAssumption
  <1> QED BY <1>1, <1>2, <1>5, <1>11, <1>12 DEF Exact, r
=============================================================================
