--------------------------- MODULE UserDictProofs ---------------------------
(***************************************************************************)
(* Proofs about UserDict: its type invariant, and that closing and loading *)
(* the dictionary gives back what was in memory.                           *)
(*                                                                         *)
(* They start with lemmas about UserDictSearch: the order of the index and *)
(* what the binary search finds in it.  The search is a recursive          *)
(* function.  That it exists is proved from the well-foundedness of <: for *)
(* every n there is exactly one function on the ranges shorter than n that *)
(* satisfies the recursion, and the union of these functions satisfies it  *)
(* on all ranges.                                                          *)
(*                                                                         *)
(* The inductive invariant Good adds to TypeOK what the dirty level means: *)
(* each segment of the file that close_dict would not rewrite at that      *)
(* level is already the one in memory, and the slots of the block that     *)
(* write_back_lemma keeps are the ones loaded from the file.               *)
(***************************************************************************)
EXTENDS UserDict, SequenceTheorems, WellFoundedInduction, TLAPS

-----------------------------------------------------------------------------
(* Sequences and minima. *)

(* A function on 1..n is a sequence of length n. *)
LEMMA FcnIsSeq ==
    ASSUME NEW S, NEW n \in Nat, NEW f \in [1..n -> S]
    PROVE  f \in Seq(S) /\ Len(f) = n
  <1>1. f \in Seq(S)
    BY SeqDef
  <1>2. Len(f) \in Nat /\ DOMAIN f = 1..Len(f)
    BY <1>1, LenProperties
  <1>3. 1..n = 1..Len(f)
    BY <1>2
  <1> QED BY <1>1, <1>2, <1>3

(* Least picks the minimum of a nonempty set of natural numbers. *)
LEMMA LeastIn ==
    ASSUME NEW S \in SUBSET Nat, S # {}
    PROVE  Least(S) \in S /\ \A y \in S : Least(S) <= y
  <1> DEFINE R == {xy \in Nat \X Nat : xy[1] < xy[2]}
  <1>1. IsWellFoundedOn(R, Nat)
    BY NatLessThanWellFounded, Zenon DEF OpToRel
  <1>2. PICK x \in S : \A y \in S : <<y, x>> \notin R
    <2> HIDE DEF R
    <2> QED BY <1>1, WFMin
  <1>3. \A y \in S : x <= y
    <2>1. TAKE y \in S
    <2>2. x \in Nat /\ y \in Nat
      BY <1>2
    <2>3. y < x => <<y, x>> \in R
      <3>1. <<y, x>> \in Nat \X Nat /\ <<y, x>>[1] = y /\ <<y, x>>[2] = x
        BY <2>2
      <3> QED BY <3>1, Zenon
    <2>4. ~(y < x)
      BY <1>2, <2>3, Zenon
    <2> QED BY <2>2, <2>4
  <1> QED BY <1>3 DEF Least

(* A least number is the only one that is not above the others. *)
LEMMA LeastIs ==
    ASSUME NEW S \in SUBSET Nat, NEW x \in S, \A y \in S : x <= y
    PROVE  Least(S) = x
  <1>1. S # {}
    OBVIOUS
  <1>2. Least(S) \in S /\ Least(S) <= x /\ x <= Least(S)
    BY <1>1, LeastIn
  <1>3. Least(S) \in Nat /\ x \in Nat
    BY <1>2
  <1>4. \A u, v \in Nat : u <= v /\ v <= u => u = v
    OBVIOUS
  <1> QED BY <1>2, <1>3, <1>4, Zenon

-----------------------------------------------------------------------------
(* The order of the index.  The key of a lemma is the sequence of its
   initials; a shorter one comes first. *)

Key(spl) == [i \in 1..Len(spl) |-> SplInitial[spl[i]]]

Below(a, b) ==
    \/ Len(a) < Len(b)
    \/ /\ Len(a) = Len(b)
       /\ \E m \in 1..Len(a) : a[m] < b[m] /\ \A k \in 1..m - 1 : a[k] = b[k]

(* What prepare_locate fills in. *)
IsSearchable(s) == s.sig \in Seq(Nat) /\ s.len = Len(s.sig)

(* The initials of spelling ids are numbers. *)
LEMMA KeyTyped ==
    ASSUME NEW spl \in Seq(DOMAIN SplInitial)
    PROVE  Key(spl) \in Seq(Nat) /\ Len(Key(spl)) = Len(spl)
  <1>1. Len(spl) \in Nat /\ \A i \in 1..Len(spl) : spl[i] \in DOMAIN SplInitial
    BY LenProperties, ElementOfSeq
  <1>2. Key(spl) \in [1..Len(spl) -> Nat]
    BY <1>1, SpellingsAssumption DEF Key
  <1> QED BY <1>1, <1>2, FcnIsSeq

(* The query of a string of ids has the key of the string. *)
LEMMA SearchableTyped ==
    ASSUME NEW q \in Seq(DOMAIN SplInitial)
    PROVE  IsSearchable(Searchable(q)) /\ Searchable(q).sig = Key(q) /\ Searchable(q).len = Len(q)
  BY KeyTyped DEF IsSearchable, Searchable, Key

(* fuzzy_compare_spell_id compares keys. *)
LEMMA CompareIsBelow ==
    ASSUME NEW spl \in Seq(DOMAIN SplInitial), NEW s, IsSearchable(s)
    PROVE  LET c == FuzzyCompare(spl, Len(spl), s)
           IN  /\ c \in {-1, 0, 1}
               /\ c = -1 => Below(Key(spl), s.sig)
               /\ c = 1 => Below(s.sig, Key(spl))
               /\ c = 0 => Key(spl) = s.sig
  <1> DEFINE n == Len(spl)
             a == Key(spl)
             differ == {i \in 1..n : SplInitial[spl[i]] # s.sig[i]}
             c == FuzzyCompare(spl, n, s)
  <1>1. /\ n \in Nat /\ a \in Seq(Nat) /\ Len(a) = n
        /\ s.sig \in Seq(Nat) /\ s.len = Len(s.sig) /\ s.len \in Nat
    BY KeyTyped, LenProperties DEF IsSearchable
  <1>2. \A i \in 1..n : a[i] = SplInitial[spl[i]]
    BY DEF Key
  <1>3. CASE n < s.len
    BY <1>1, <1>3 DEF FuzzyCompare, Below
  <1>4. CASE n > s.len
    BY <1>1, <1>4 DEF FuzzyCompare, Below
  <1>5. CASE n = s.len /\ differ = {}
    <2>1. c = 0
      BY <1>1, <1>5 DEF FuzzyCompare
    <2>2. \A i \in 1..n : a[i] = s.sig[i]
      BY <1>2, <1>5
    <2>3. a = s.sig
      BY <1>1, <1>5, <2>2, SeqEqual
    <2> QED BY <2>1, <2>3
  <1>6. CASE n = s.len /\ differ # {}
    <2> DEFINE m == Least(differ)
    <2>1. m \in differ /\ \A i \in differ : m <= i
      <3>1. differ \in SUBSET Nat
        BY <1>1
      <3> HIDE DEF differ
      <3> QED BY <1>6, <3>1, LeastIn
    <2>2. c = IF SplInitial[spl[m]] > s.sig[m] THEN 1 ELSE -1
      <3> HIDE DEF m
      <3> QED BY <1>1, <1>6 DEF FuzzyCompare, m
    <2> HIDE DEF m, c
    <2>3. m \in 1..n /\ a[m] # s.sig[m] /\ a[m] = SplInitial[spl[m]]
      BY <1>2, <2>1
    <2>4. \A k \in 1..m - 1 : a[k] = s.sig[k]
      <3>1. TAKE k \in 1..m - 1
      <3>2. k \in 1..n /\ ~(m <= k)
        BY <1>1, <2>3
      <3>3. k \notin differ
        BY <2>1, <3>2
      <3> QED BY <1>2, <3>2, <3>3
    <2>5. a[m] \in Nat /\ s.sig[m] \in Nat
      BY <1>1, <1>6, <2>3, ElementOfSeq
    <2> HIDE DEF a, n
    <2>6. CASE a[m] > s.sig[m]
      <3>1. c = 1
        BY <2>2, <2>3, <2>6
      <3>2. Below(s.sig, a)
        <4>1. s.sig[m] < a[m]
          BY <2>5, <2>6
        <4>2. /\ Len(s.sig) = Len(a) /\ m \in 1..Len(s.sig)
              /\ \A k \in 1..m - 1 : s.sig[k] = a[k]
          BY <1>1, <1>6, <2>3, <2>4, Zenon DEF n
        <4> QED BY <4>1, <4>2, Zenon DEF Below
      <3> QED BY <3>1, <3>2 DEF c, a, n
    <2>7. CASE ~(a[m] > s.sig[m])
      <3>1. c = -1
        BY <2>2, <2>3, <2>7
      <3>2. Below(a, s.sig)
        <4>1. a[m] < s.sig[m]
          BY <2>3, <2>5, <2>7
        <4>2. Len(a) = Len(s.sig) /\ m \in 1..Len(a) /\ \A k \in 1..m - 1 : a[k] = s.sig[k]
          BY <1>1, <1>6, <2>3, <2>4, Zenon DEF n
        <4> QED BY <4>1, <4>2, Zenon DEF Below
      <3> QED BY <3>1, <3>2 DEF c, a, n
    <2> QED BY <2>6, <2>7
  <1> QED BY <1>1, <1>3, <1>4, <1>5, <1>6

(* The order is one: nothing is below itself, and what is below something
   below a key is below the key. *)
LEMMA BelowIrreflexive ==
    ASSUME NEW a \in Seq(Nat)
    PROVE  ~Below(a, a)
  <1>1. Len(a) \in Nat /\ \A i \in 1..Len(a) : a[i] \in Nat
    BY LenProperties, ElementOfSeq
  <1> QED BY <1>1 DEF Below

(* The order of the keys is transitive. *)
LEMMA BelowTransitive ==
    ASSUME NEW a \in Seq(Nat), NEW b \in Seq(Nat), NEW c \in Seq(Nat), Below(a, b), Below(b, c)
    PROVE  Below(a, c)
  <1>1. /\ Len(a) \in Nat /\ Len(b) \in Nat /\ Len(c) \in Nat
        /\ \A i \in 1..Len(a) : a[i] \in Nat
        /\ \A i \in 1..Len(b) : b[i] \in Nat
        /\ \A i \in 1..Len(c) : c[i] \in Nat
    BY LenProperties, ElementOfSeq
  <1>2. CASE Len(a) < Len(b) \/ Len(b) < Len(c)
    BY <1>1, <1>2 DEF Below
  <1>3. CASE ~(Len(a) < Len(b) \/ Len(b) < Len(c))
    <2>1. Len(a) = Len(b) /\ Len(b) = Len(c)
      BY <1>1, <1>3 DEF Below
    <2>2. PICK m \in 1..Len(a) : a[m] < b[m] /\ \A k \in 1..m - 1 : a[k] = b[k]
      BY <1>1, <1>3 DEF Below
    <2>3. PICK p \in 1..Len(a) : b[p] < c[p] /\ \A k \in 1..p - 1 : b[k] = c[k]
      BY <1>1, <1>3, <2>1 DEF Below
    <2>4. CASE m < p
      <3>1. m \in 1..p - 1 /\ \A k \in 1..m - 1 : k \in 1..p - 1
        BY <1>1, <2>4
      <3>2. a[m] < c[m] /\ \A k \in 1..m - 1 : a[k] = c[k]
        BY <2>2, <2>3, <3>1
      <3> QED BY <2>1, <3>2 DEF Below
    <2>5. CASE p < m
      <3>1. p \in 1..m - 1 /\ \A k \in 1..p - 1 : k \in 1..m - 1
        BY <1>1, <2>5
      <3>2. a[p] < c[p] /\ \A k \in 1..p - 1 : a[k] = c[k]
        BY <2>2, <2>3, <3>1
      <3> QED BY <2>1, <3>2 DEF Below
    <2>6. CASE m = p
      <3>1. a[m] < c[m]
        BY <1>1, <2>1, <2>2, <2>3, <2>6
      <3>2. \A k \in 1..m - 1 : a[k] = c[k]
        BY <2>2, <2>3, <2>6
      <3> QED BY <2>1, <3>1, <3>2 DEF Below
    <2> QED BY <1>1, <2>4, <2>5, <2>6
  <1> QED BY <1>2, <1>3

(* Exactly one of the three: below, the same, above. *)
LEMMA CompareExact ==
    ASSUME NEW spl \in Seq(DOMAIN SplInitial), NEW s, IsSearchable(s)
    PROVE  LET c == FuzzyCompare(spl, Len(spl), s)
           IN  /\ c \in {-1, 0, 1}
               /\ c = -1 <=> Below(Key(spl), s.sig)
               /\ c = 1 <=> Below(s.sig, Key(spl))
               /\ c = 0 <=> Key(spl) = s.sig
  <1> DEFINE c == FuzzyCompare(spl, Len(spl), s)
             a == Key(spl)
  <1>1. /\ c \in {-1, 0, 1}
        /\ c = -1 => Below(a, s.sig)
        /\ c = 1 => Below(s.sig, a)
        /\ c = 0 => a = s.sig
    BY CompareIsBelow
  <1>2. a \in Seq(Nat) /\ s.sig \in Seq(Nat)
    BY KeyTyped DEF IsSearchable
  <1> HIDE DEF a, c
  <1>3. ~Below(a, a) /\ ~Below(s.sig, s.sig)
    BY <1>2, BelowIrreflexive
  <1>4. ~(Below(a, s.sig) /\ Below(s.sig, a))
    BY <1>2, <1>3, BelowTransitive
  <1>5. /\ c \in {-1, 0, 1}
        /\ c = -1 <=> Below(a, s.sig)
        /\ c = 1 <=> Below(s.sig, a)
        /\ c = 0 <=> a = s.sig
    BY <1>1, <1>3, <1>4
  <1> QED BY <1>5 DEF a, c

(* What is not above b, which is not above c, is not above c. *)
LEMMA NotBelowTransitive ==
    ASSUME NEW a \in Seq(DOMAIN SplInitial), NEW b \in Seq(DOMAIN SplInitial),
           NEW c \in Seq(DOMAIN SplInitial),
           ~Below(Key(b), Key(a)), ~Below(Key(c), Key(b))
    PROVE  ~Below(Key(c), Key(a))
  <1>1. Key(a) \in Seq(Nat) /\ Key(b) \in Seq(Nat) /\ Key(c) \in Seq(Nat)
    BY KeyTyped
  <1>2. /\ IsSearchable(Searchable(b)) /\ Searchable(b).sig = Key(b)
        /\ IsSearchable(Searchable(c)) /\ Searchable(c).sig = Key(c)
    BY SearchableTyped
  <1>3. Key(a) = Key(b) \/ Below(Key(a), Key(b))
    BY <1>2, CompareExact
  <1>4. Key(b) = Key(c) \/ Below(Key(b), Key(c))
    BY <1>2, CompareExact
  <1>5. ~Below(Key(c), Key(a)) \/ Below(Key(a), Key(a))
    <2>1. CASE Key(b) = Key(c)
      BY <2>1
    <2>2. CASE Below(Key(b), Key(c))
      <3>1. Below(Key(a), Key(c))
        BY <1>1, <1>3, <2>2, BelowTransitive
      <3> QED BY <1>1, <3>1, BelowTransitive
    <2> QED BY <1>4, <2>1, <2>2
  <1> QED BY <1>1, <1>5, BelowIrreflexive

-----------------------------------------------------------------------------
(* locate_first_in_offsets.  `Probe` is one turn of its recursion, for the
   range r of 0-based positions. *)

Middle(r) == (r[1] + r[2]) \div 2

Probe(block, ix, s, f, r) ==
    LET m     == Middle(r)
        below == IF CompareAt(block, ix, m + 1, s) < 0 THEN f[<<m + 1, r[2]>>]
                                                      ELSE f[<<r[1], m - 1>>]
    IN  IF r[1] > r[2] THEN 0
        ELSE IF below # 0 THEN below
        ELSE IF FuzzyPrefixAt(block, ix, m + 1, s) THEN m + 1 ELSE 0

IsSearch(block, ix, s, f) == f = [r \in Int \X Int |-> Probe(block, ix, s, f, r)]

(* The ranges of at most n positions, and the functions that satisfy the
   recursion on them. *)
Ranges(n) == {r \in Int \X Int : r[2] - r[1] < n}

SearchUpTo(block, ix, s, n, f) ==
    f \in [Ranges(n) -> Int] /\ \A r \in Ranges(n) : f[r] = Probe(block, ix, s, f, r)

(* A probe looks at shorter ranges only. *)
LEMMA ProbeShrinks ==
    ASSUME NEW r \in Int \X Int, r[1] <= r[2]
    PROVE  /\ Middle(r) \in Int /\ r[1] <= Middle(r) /\ Middle(r) <= r[2]
           /\ <<Middle(r) + 1, r[2]>> \in Ranges(r[2] - r[1])
           /\ <<r[1], Middle(r) - 1>> \in Ranges(r[2] - r[1])
  <1> DEFINE b == r[1]
             e == r[2]
             m == (b + e) \div 2
  <1>1. b \in Int /\ e \in Int /\ b <= e
    OBVIOUS
  <1> HIDE DEF b, e
  <1>2. m \in Int /\ b <= m /\ m <= e
    BY <1>1
  <1> HIDE DEF m
  <1>3. /\ <<m + 1, e>> \in Int \X Int /\ <<m + 1, e>>[1] = m + 1 /\ <<m + 1, e>>[2] = e
        /\ <<b, m - 1>> \in Int \X Int /\ <<b, m - 1>>[1] = b /\ <<b, m - 1>>[2] = m - 1
    BY <1>1, <1>2
  <1>4. e - (m + 1) < e - b /\ (m - 1) - b < e - b
    BY <1>1, <1>2
  <1>5. <<m + 1, e>> \in Ranges(e - b) /\ <<b, m - 1>> \in Ranges(e - b)
    BY <1>3, <1>4 DEF Ranges
  <1> QED BY <1>2, <1>5 DEF Middle, m, b, e

(* Functions that agree on shorter ranges give a probe the same answer. *)
LEMMA ProbeAgrees ==
    ASSUME NEW block, NEW ix, NEW s, NEW f, NEW g, NEW r \in Int \X Int,
           r[1] <= r[2] => \A q \in Ranges(r[2] - r[1]) : f[q] = g[q]
    PROVE  Probe(block, ix, s, f, r) = Probe(block, ix, s, g, r)
  <1>1. CASE r[1] > r[2]
    BY <1>1 DEF Probe
  <1>2. CASE ~(r[1] > r[2])
    <2>1. r[1] <= r[2]
      BY <1>2
    <2>2. /\ f[<<Middle(r) + 1, r[2]>>] = g[<<Middle(r) + 1, r[2]>>]
          /\ f[<<r[1], Middle(r) - 1>>] = g[<<r[1], Middle(r) - 1>>]
      BY <2>1, ProbeShrinks
    <2> QED BY <1>2, <2>2, Zenon DEF Probe
  <1> QED BY <1>1, <1>2

(* Two functions that satisfy the recursion agree where both do. *)
LEMMA SearchUnique ==
    ASSUME NEW block, NEW ix, NEW s, NEW n \in Nat, NEW p \in Nat, NEW f, NEW g,
           SearchUpTo(block, ix, s, n, f), SearchUpTo(block, ix, s, p, g)
    PROVE  \A r \in Ranges(n) \cap Ranges(p) : f[r] = g[r]
  <1> DEFINE Bad == {k \in Nat : \E r \in Ranges(n) \cap Ranges(p) : r[2] - r[1] < k /\ f[r] # g[r]}
  <1>1. SUFFICES ASSUME Bad # {} PROVE FALSE
    <2>1. ASSUME NEW r \in Ranges(n) \cap Ranges(p) PROVE f[r] = g[r]
      <3>1. r[2] - r[1] \in Int
        BY DEF Ranges
      <3>2. PICK k \in Nat : r[2] - r[1] < k
        <4>1. r[2] - r[1] < n
          BY DEF Ranges
        <4> QED BY <4>1
      <3>3. k \notin Bad
        BY <1>1
      <3> QED BY <3>2, <3>3
    <2> QED BY <2>1
  <1>2. PICK k \in Bad : \A j \in Bad : k <= j
    <2>1. Bad \in SUBSET Nat
      OBVIOUS
    <2> HIDE DEF Bad
    <2> QED BY <1>1, <2>1, LeastIn
  <1>3. PICK r \in Ranges(n) \cap Ranges(p) : r[2] - r[1] < k /\ f[r] # g[r]
    BY <1>2
  <1>4. r \in Int \X Int /\ r[2] - r[1] < n /\ r[2] - r[1] < p /\ k \in Nat
    BY <1>2 DEF Ranges
  <1>5. ASSUME r[1] <= r[2] PROVE \A q \in Ranges(r[2] - r[1]) : f[q] = g[q]
    <2>1. TAKE q \in Ranges(r[2] - r[1])
    <2>2. r[1] \in Int /\ r[2] \in Int /\ q \in Int \X Int /\ q[2] - q[1] < r[2] - r[1]
      BY <1>4 DEF Ranges
    <2> DEFINE x == r[2] - r[1]
               y == q[2] - q[1]
    <2>3. x \in Int /\ y \in Int /\ y < x /\ x < k /\ x < n /\ x < p /\ 0 <= x
      BY <1>3, <1>4, <1>5, <2>2
    <2>4. q \in Ranges(n) \cap Ranges(p)
      <3>1. y < n /\ y < p
        BY <2>3
      <3> QED BY <2>2, <3>1 DEF Ranges
    <2>5. x \in Nat /\ ~(k <= x)
      BY <1>4, <2>3
    <2>6. x \notin Bad
      <3> HIDE DEF Bad, x
      <3> QED BY <1>2, <2>5
    <2> QED BY <2>3, <2>4, <2>5, <2>6
  <1>6. Probe(block, ix, s, f, r) = Probe(block, ix, s, g, r)
    BY <1>4, <1>5, ProbeAgrees
  <1>7. f[r] = Probe(block, ix, s, f, r) /\ g[r] = Probe(block, ix, s, g, r)
    BY Zenon DEF SearchUpTo
  <1> QED BY <1>3, <1>6, <1>7

(* For every n there is a function that satisfies the recursion up to n. *)
LEMMA SearchUpToExists ==
    ASSUME NEW block, NEW ix, NEW s
    PROVE  \A n \in Nat : \E f : SearchUpTo(block, ix, s, n, f)
  <1> DEFINE Bad == {n \in Nat : ~\E f : SearchUpTo(block, ix, s, n, f)}
  <1>1. SUFFICES ASSUME Bad # {} PROVE FALSE
    BY Zenon
  <1>2. PICK n \in Bad : \A j \in Bad : n <= j
    <2>1. Bad \in SUBSET Nat
      OBVIOUS
    <2> HIDE DEF Bad
    <2> QED BY <1>1, <2>1, LeastIn
  <1>3. n \in Nat /\ ~\E f : SearchUpTo(block, ix, s, n, f)
    BY <1>2
  <1>4. CASE n = 0
    <2> DEFINE f == [r \in Ranges(n) |-> 0]
    <2>1. f \in [Ranges(n) -> Int]
      OBVIOUS
    <2>2. ASSUME NEW r \in Ranges(n) PROVE f[r] = Probe(block, ix, s, f, r)
      <3>1. r[1] \in Int /\ r[2] \in Int /\ r[1] > r[2]
        BY <1>4 DEF Ranges
      <3> QED BY <3>1 DEF Probe
    <2>3. SearchUpTo(block, ix, s, n, f)
      <3> HIDE DEF f
      <3> QED BY <2>1, <2>2, Zenon DEF SearchUpTo
    <2> QED BY <1>3, <2>3, Zenon
  <1>5. CASE n # 0
    <2>1. n - 1 \in Nat /\ ~(n <= n - 1)
      BY <1>3, <1>5
    <2>2. n - 1 \notin Bad
      <3> HIDE DEF Bad
      <3> QED BY <1>2, <2>1
    <2>3. PICK f : SearchUpTo(block, ix, s, n - 1, f)
      BY <2>1, <2>2
    <2> DEFINE g == [r \in Ranges(n) |-> Probe(block, ix, s, f, r)]
    <2>4. ASSUME NEW r \in Ranges(n) PROVE g[r] = Probe(block, ix, s, g, r)
      <3>1. r \in Int \X Int /\ r[2] - r[1] < n
        BY DEF Ranges
      <3>2. ASSUME NEW q \in Ranges(r[2] - r[1]), r[1] <= r[2] PROVE f[q] = g[q]
        <4>1. q \in Ranges(n - 1) /\ q \in Ranges(n)
          <5> DEFINE x == r[2] - r[1]
                     y == q[2] - q[1]
          <5>1. q \in Int \X Int /\ y \in Int /\ x \in Int /\ y < x /\ x < n
            BY <3>1 DEF Ranges
          <5>2. y < n - 1 /\ y < n
            BY <1>3, <5>1
          <5> QED BY <5>1, <5>2 DEF Ranges
        <4>2. f[q] = Probe(block, ix, s, f, q)
          BY <2>3, <4>1, Zenon DEF SearchUpTo
        <4> QED BY <4>1, <4>2
      <3> HIDE DEF g
      <3>3. Probe(block, ix, s, f, r) = Probe(block, ix, s, g, r)
        BY <3>1, <3>2, ProbeAgrees
      <3> QED BY <3>3 DEF g
    <2>5. ASSUME NEW r \in Ranges(n) PROVE g[r] \in Int
      <3>1. r \in Int \X Int /\ r[2] - r[1] < n
        BY DEF Ranges
      <3>2. CASE r[1] > r[2]
        BY <3>2 DEF Probe
      <3>3. CASE ~(r[1] > r[2])
        <4> DEFINE x == r[2] - r[1]
        <4>1. r[1] <= r[2]
          BY <3>1, <3>3
        <4>2. x \in Int /\ x <= n - 1
          BY <1>3, <3>1
        <4>3. \A q \in Ranges(x) : q \in Ranges(n - 1)
          <5> HIDE DEF x
          <5> QED BY <1>3, <4>2 DEF Ranges
        <4>4. /\ Middle(r) \in Int
              /\ <<Middle(r) + 1, r[2]>> \in Ranges(n - 1)
              /\ <<r[1], Middle(r) - 1>> \in Ranges(n - 1)
          BY <3>1, <4>1, <4>3, ProbeShrinks
        <4>5. f[<<Middle(r) + 1, r[2]>>] \in Int /\ f[<<r[1], Middle(r) - 1>>] \in Int
          BY <2>3, <4>4 DEF SearchUpTo
        <4>6. 0 \in Int /\ Middle(r) + 1 \in Int
          BY <4>4
        <4>7. Probe(block, ix, s, f, r) \in Int
          BY <4>5, <4>6, Zenon DEF Probe
        <4> QED BY <4>7
      <3> QED BY <3>2, <3>3
    <2>6. g \in [Ranges(n) -> Int]
      BY <2>5
    <2>7. SearchUpTo(block, ix, s, n, g)
      <3> HIDE DEF g
      <3> QED BY <2>4, <2>6, Zenon DEF SearchUpTo
    <2> QED BY <1>3, <2>7, Zenon
  <1> QED BY <1>4, <1>5

(* The function the search is defined by exists. *)
LEMMA SearchExists ==
    ASSUME NEW block, NEW ix, NEW s
    PROVE  \E f : IsSearch(block, ix, s, f)
  <1> DEFINE Size(r) == IF r[1] > r[2] THEN 0 ELSE r[2] - r[1] + 1
             F(n) == CHOOSE f : SearchUpTo(block, ix, s, n, f)
             h == [r \in Int \X Int |-> F(Size(r))[r]]
  <1>1. \A n \in Nat : SearchUpTo(block, ix, s, n, F(n))
    BY SearchUpToExists, Zenon
  <1>2. \A r \in Int \X Int : Size(r) \in Nat /\ r \in Ranges(Size(r))
    <2>1. TAKE r \in Int \X Int
    <2>2. r[1] \in Int /\ r[2] \in Int
      OBVIOUS
    <2> QED BY <2>2 DEF Ranges
  <1> HIDE DEF Size, F
  <1>3. ASSUME NEW r \in Int \X Int PROVE h[r] = Probe(block, ix, s, h, r)
    <2>1. SearchUpTo(block, ix, s, Size(r), F(Size(r))) /\ r \in Ranges(Size(r)) /\ Size(r) \in Nat
      BY <1>1, <1>2
    <2>2. F(Size(r))[r] = Probe(block, ix, s, F(Size(r)), r)
      BY <2>1, Zenon DEF SearchUpTo
    <2>3. ASSUME r[1] <= r[2], NEW q \in Ranges(r[2] - r[1])
          PROVE  F(Size(r))[q] = h[q]
      <3>1. q \in Int \X Int /\ q[2] - q[1] < r[2] - r[1]
        BY DEF Ranges
      <3>2. q \in Ranges(Size(r))
        <4>1. r[1] \in Int /\ r[2] \in Int /\ q[1] \in Int /\ q[2] \in Int
          BY <3>1
        <4>2. Size(r) = r[2] - r[1] + 1
          BY <2>3, <4>1 DEF Size
        <4>3. q[2] - q[1] < Size(r)
          BY <3>1, <4>1, <4>2
        <4> QED BY <3>1, <4>3 DEF Ranges
      <3>3. /\ SearchUpTo(block, ix, s, Size(q), F(Size(q)))
            /\ q \in Ranges(Size(q)) /\ Size(q) \in Nat
        BY <1>1, <1>2, <3>1
      <3>4. F(Size(r))[q] = F(Size(q))[q]
        BY <2>1, <3>2, <3>3, SearchUnique
      <3> QED BY <3>1, <3>4
    <2> HIDE DEF h
    <2>4. Probe(block, ix, s, F(Size(r)), r) = Probe(block, ix, s, h, r)
      BY <2>3, ProbeAgrees
    <2> QED BY <2>2, <2>4 DEF h
  <1>4. h = [r \in Int \X Int |-> Probe(block, ix, s, h, r)]
    <2>1. h = [r \in Int \X Int |-> h[r]]
      OBVIOUS
    <2> HIDE DEF h
    <2> QED BY <1>3, <2>1
  <1> QED BY <1>4, Zenon DEF IsSearch

(* The answer of the search, by its recursion. *)
LEMMA SearchEquation ==
    ASSUME NEW block, NEW ix, NEW s
    PROVE  \E f : /\ LocateFirst(block, ix, s) = f[<<0, Len(ix) - 1>>]
                  /\ \A r \in Int \X Int : f[r] = Probe(block, ix, s, f, r)
  <1> DEFINE S == CHOOSE f : IsSearch(block, ix, s, f)
  <1>1. LocateFirst(block, ix, s) = S[<<0, Len(ix) - 1>>]
    BY DEF LocateFirst, IsSearch, Probe, Middle
  <1>2. IsSearch(block, ix, s, S)
    BY SearchExists, Zenon
  <1> HIDE DEF S
  <1>3. \A r \in Int \X Int : S[r] = Probe(block, ix, s, S, r)
    BY <1>2 DEF IsSearch
  <1> QED BY <1>1, <1>3, Zenon

(* The search answers with a position that has the initials of the query as
   a prefix, or none. *)
LEMMA LocateFirstRange ==
    ASSUME NEW block, NEW ix, NEW s, Len(ix) \in Nat
    PROVE  LET k == LocateFirst(block, ix, s)
           IN  k = 0 \/ (k \in 1..Len(ix) /\ FuzzyPrefixAt(block, ix, k, s))
  <1>1. PICK f : /\ LocateFirst(block, ix, s) = f[<<0, Len(ix) - 1>>]
                 /\ \A r \in Int \X Int : f[r] = Probe(block, ix, s, f, r)
    BY SearchEquation
  <1> DEFINE Right(r) == \/ f[r] = 0
                         \/ /\ f[r] \in Int /\ r[1] + 1 <= f[r] /\ f[r] <= r[2] + 1
                            /\ FuzzyPrefixAt(block, ix, f[r], s)
             Bad == {n \in Nat : \E r \in Int \X Int : r[2] - r[1] < n /\ ~Right(r)}
  <1>2. Bad = {}
    <2>1. SUFFICES ASSUME Bad # {} PROVE FALSE
      BY Zenon
    <2>2. PICK n \in Bad : \A j \in Bad : n <= j
      <3>1. Bad \in SUBSET Nat
        OBVIOUS
      <3> HIDE DEF Bad
      <3> QED BY <2>1, <3>1, LeastIn
    <2>3. PICK r \in Int \X Int : r[2] - r[1] < n /\ ~Right(r)
      BY <2>2
    <2>4. n \in Nat /\ r[1] \in Int /\ r[2] \in Int
      BY <2>2, <2>3
    <2>5. r[1] <= r[2]
      <3>1. r[1] > r[2] => f[r] = 0
        BY <1>1, <2>3, Zenon DEF Probe
      <3> QED BY <2>3, <2>4, <3>1
    <2>6. /\ Middle(r) \in Int /\ r[1] <= Middle(r) /\ Middle(r) <= r[2]
          /\ <<Middle(r) + 1, r[2]>> \in Ranges(r[2] - r[1])
          /\ <<r[1], Middle(r) - 1>> \in Ranges(r[2] - r[1])
      BY <2>3, <2>5, ProbeShrinks
    <2>7. \A q \in Ranges(r[2] - r[1]) : Right(q)
      <3> DEFINE x == r[2] - r[1]
      <3>1. x \in Nat /\ ~(n <= x)
        BY <2>3, <2>4, <2>5
      <3>2. x \notin Bad
        <4> HIDE DEF Bad, x
        <4> QED BY <2>2, <3>1
      <3>3. \A q \in Int \X Int : q[2] - q[1] < x => Right(q)
        <4> HIDE DEF Right
        <4> QED BY <3>1, <3>2
      <3> HIDE DEF Right, Bad
      <3> QED BY <3>3 DEF Ranges
    <2> DEFINE m == Middle(r)
               q1 == <<m + 1, r[2]>>
               q2 == <<r[1], m - 1>>
    <2>8. Right(q1) /\ Right(q2)
      <3> HIDE DEF Right
      <3> QED BY <2>6, <2>7
    <2>9. /\ f[q1] = 0 \/ (f[q1] \in Int /\ m + 2 <= f[q1] /\ f[q1] <= r[2] + 1
                           /\ FuzzyPrefixAt(block, ix, f[q1], s))
          /\ f[q2] = 0 \/ (f[q2] \in Int /\ r[1] + 1 <= f[q2] /\ f[q2] <= m
                           /\ FuzzyPrefixAt(block, ix, f[q2], s))
      BY <2>4, <2>6, <2>8, SMTT(30)
    <2>10. /\ \/ f[r] = f[q1] /\ f[q1] # 0
              \/ f[r] = f[q2] /\ f[q2] # 0
              \/ f[r] = m + 1 /\ FuzzyPrefixAt(block, ix, m + 1, s)
              \/ f[r] = 0
      <3>1. f[r] = Probe(block, ix, s, f, r)
        BY <1>1, <2>3
      <3> HIDE DEF Right
      <3> QED BY <3>1, Zenon DEF Probe
    <2> HIDE DEF q1, q2
    <2>11. Right(r)
      <3> HIDE DEF m
      <3>1. m \in Int /\ r[1] <= m /\ m <= r[2]
        BY <2>6 DEF m
      <3>2. CASE f[r] = f[q1] /\ f[q1] # 0
        BY <2>4, <2>9, <3>1, <3>2
      <3>3. CASE f[r] = f[q2] /\ f[q2] # 0
        BY <2>4, <2>9, <3>1, <3>3
      <3>4. CASE f[r] = m + 1 /\ FuzzyPrefixAt(block, ix, m + 1, s)
        BY <2>4, <3>1, <3>4
      <3> QED BY <2>10, <3>2, <3>3, <3>4
    <2> HIDE DEF Right
    <2> QED BY <2>3, <2>11
  <1> DEFINE r0 == <<0, Len(ix) - 1>>
  <1>3. r0 \in Int \X Int /\ r0[1] = 0 /\ r0[2] = Len(ix) - 1
    OBVIOUS
  <1> HIDE DEF r0
  <1>4. Right(r0)
    <2>1. Len(ix) \in Nat /\ Len(ix) \notin Bad
      BY <1>2
    <2>2. r0[2] - r0[1] < Len(ix)
      BY <1>3
    <2> HIDE DEF Right
    <2> QED BY <1>3, <2>1, <2>2
  <1>5. CASE f[r0] = 0
    BY <1>1, <1>5 DEF r0
  <1>6. CASE /\ f[r0] \in Int /\ r0[1] + 1 <= f[r0] /\ f[r0] <= r0[2] + 1
             /\ FuzzyPrefixAt(block, ix, f[r0], s)
    <2>1. f[r0] \in 1..Len(ix)
      BY <1>3, <1>6
    <2>2. LocateFirst(block, ix, s) = f[r0]
      BY <1>1 DEF r0
    <2> QED BY <1>6, <2>1, <2>2
  <1> QED BY <1>4, <1>5, <1>6

(* If p is the first position that is not below the query, what is behind it
   is not below it either, and p has the initials of the query as a prefix
   while nothing before it has, then the search answers p. *)
LEMMA LocateFirstFinds ==
    ASSUME NEW block, NEW ix, NEW s, Len(ix) \in Nat, NEW p \in 1..Len(ix),
           \A j \in 1..p - 1 : CompareAt(block, ix, j, s) < 0 /\ ~FuzzyPrefixAt(block, ix, j, s),
           \A j \in p..Len(ix) : ~(CompareAt(block, ix, j, s) < 0),
           FuzzyPrefixAt(block, ix, p, s)
    PROVE  LocateFirst(block, ix, s) = p
  <1> DEFINE N == Len(ix)
  <1>1. PICK f : /\ LocateFirst(block, ix, s) = f[<<0, Len(ix) - 1>>]
                 /\ \A r \in Int \X Int : f[r] = Probe(block, ix, s, f, r)
    BY SearchEquation
  <1> DEFINE In(r) == 0 <= r[1] /\ r[2] <= N - 1
             Right(r) == /\ In(r) /\ r[2] + 1 < p => f[r] = 0
                         /\ In(r) /\ r[1] + 1 <= p /\ p <= r[2] + 1 => f[r] = p
             Bad == {n \in Nat : \E r \in Int \X Int : r[2] - r[1] < n /\ ~Right(r)}
  <1>2. Bad = {}
    <2>1. SUFFICES ASSUME Bad # {} PROVE FALSE
      BY Zenon
    <2>2. PICK n \in Bad : \A j \in Bad : n <= j
      <3>1. Bad \in SUBSET Nat
        OBVIOUS
      <3> HIDE DEF Bad
      <3> QED BY <2>1, <3>1, LeastIn
    <2>3. PICK r \in Int \X Int : r[2] - r[1] < n /\ ~Right(r)
      BY <2>2
    <2>4. n \in Nat /\ r[1] \in Int /\ r[2] \in Int
      BY <2>2, <2>3
    <2>5. f[r] = Probe(block, ix, s, f, r)
      BY <1>1, <2>3
    <2>6. CASE r[1] > r[2]
      <3>1. f[r] = 0
        BY <2>5, <2>6 DEF Probe
      <3>2. ~(r[1] + 1 <= p /\ p <= r[2] + 1)
        BY <2>4, <2>6
      <3> QED BY <2>3, <3>1, <3>2
    <2>7. CASE ~(r[1] > r[2])
      <3> DEFINE m == Middle(r)
                 q1 == <<m + 1, r[2]>>
                 q2 == <<r[1], m - 1>>
                 x == r[2] - r[1]
      <3>1. r[1] <= r[2]
        BY <2>4, <2>7
      <3>2. /\ m \in Int /\ r[1] <= m /\ m <= r[2]
            /\ q1 \in Ranges(x) /\ q2 \in Ranges(x)
        BY <2>3, <3>1, ProbeShrinks
      <3>3. Right(q1) /\ Right(q2)
        <4>1. x \in Nat /\ ~(n <= x)
          BY <2>3, <2>4, <3>1
        <4>2. x \notin Bad
          <5> HIDE DEF Bad, x
          <5> QED BY <2>2, <4>1
        <4>3. \A q \in Int \X Int : q[2] - q[1] < x => Right(q)
          <5> HIDE DEF Right
          <5> QED BY <4>1, <4>2
        <4> HIDE DEF Right, Bad, q1, q2
        <4> QED BY <3>2, <4>3 DEF Ranges
      <3>4. q1[1] = m + 1 /\ q1[2] = r[2] /\ q2[1] = r[1] /\ q2[2] = m - 1
        OBVIOUS
      <3>5. /\ CompareAt(block, ix, m + 1, s) < 0 /\ f[q1] # 0 => f[r] = f[q1]
            /\ ~(CompareAt(block, ix, m + 1, s) < 0) /\ f[q2] # 0 => f[r] = f[q2]
            /\ CompareAt(block, ix, m + 1, s) < 0 /\ f[q1] = 0
                  => f[r] = IF FuzzyPrefixAt(block, ix, m + 1, s) THEN m + 1 ELSE 0
            /\ ~(CompareAt(block, ix, m + 1, s) < 0) /\ f[q2] = 0
                  => f[r] = IF FuzzyPrefixAt(block, ix, m + 1, s) THEN m + 1 ELSE 0
        <4> HIDE DEF Right
        <4> QED BY <2>5, <2>7, Zenon DEF Probe
      <3> HIDE DEF q1, q2, m
      <3>6. ASSUME In(r), r[2] + 1 < p PROVE f[r] = 0
        <4>1. m + 1 \in 1..p - 1
          BY <2>4, <3>2, <3>6
        <4>2. In(q1) /\ q1[2] + 1 < p
          BY <2>4, <3>2, <3>4, <3>6
        <4> QED BY <3>3, <3>5, <4>1, <4>2
      <3>7. ASSUME In(r), r[1] + 1 <= p, p <= r[2] + 1 PROVE f[r] = p
        <4>0. p # 0 /\ N \in Nat
          OBVIOUS
        <4>1. CASE m + 1 < p
          <5>1. m + 1 \in 1..p - 1
            BY <2>4, <3>2, <3>7, <4>1, SMTT(30)
          <5>2. In(q1) /\ q1[1] + 1 <= p /\ p <= q1[2] + 1
            BY <2>4, <3>2, <3>4, <3>7, <4>1
          <5>3. f[q1] = p
            BY <3>3, <5>2
          <5> QED BY <3>5, <4>0, <5>1, <5>3
        <4>2. CASE m + 1 = p
          <5>1. m + 1 \in p..N
            BY <4>0, <4>2
          <5>2. In(q2) /\ q2[2] + 1 < p
            BY <2>4, <3>2, <3>4, <3>7, <4>2
          <5>3. f[q2] = 0
            BY <3>3, <5>2
          <5> QED BY <3>5, <4>2, <5>1, <5>3
        <4>3. CASE m + 1 > p
          <5>1. m + 1 \in p..N
            BY <2>4, <3>2, <3>7, <4>0, <4>3, SMTT(30)
          <5>2. In(q2) /\ q2[1] + 1 <= p /\ p <= q2[2] + 1
            BY <2>4, <3>2, <3>4, <3>7, <4>3
          <5>3. f[q2] = p
            BY <3>3, <5>2
          <5> QED BY <3>5, <4>0, <5>1, <5>3
        <4> QED BY <3>2, <4>1, <4>2, <4>3, SMTT(30)
      <3> QED BY <2>3, <3>6, <3>7
    <2> QED BY <2>6, <2>7
  <1> DEFINE r0 == <<0, Len(ix) - 1>>
  <1>3. r0 \in Int \X Int /\ r0[1] = 0 /\ r0[2] = Len(ix) - 1
    OBVIOUS
  <1> HIDE DEF r0
  <1>4. Right(r0)
    <2>1. Len(ix) \in Nat /\ Len(ix) \notin Bad
      BY <1>2
    <2>2. r0[2] - r0[1] < Len(ix)
      BY <1>3
    <2> HIDE DEF Right
    <2> QED BY <1>3, <2>1, <2>2
  <1>5. In(r0) /\ r0[1] + 1 <= p /\ p <= r0[2] + 1
    BY <1>3
  <1> QED BY <1>1, <1>4, <1>5 DEF r0

USE SizesAssumption DEF SYNC, SYNC_DIRTY, SCORE_DIRTY, OFFSET_DIRTY, LEMMA_DIRTY, DEFRAGMENTED

-----------------------------------------------------------------------------
(* Lists. *)

(* InsertAt makes the list one longer and keeps every element. *)
LEMMA InsertAtProperties ==
    ASSUME NEW S, NEW s \in Seq(S), NEW k, NEW e \in S
    PROVE  /\ InsertAt(s, k, e) \in Seq(S)
           /\ Len(InsertAt(s, k, e)) = Len(s) + 1
           /\ \A j \in 1..Len(s) + 1 :
                 InsertAt(s, k, e)[j] = e \/ \E i \in 1..Len(s) : InsertAt(s, k, e)[j] = s[i]
  <1>0. Len(s) \in Nat /\ \A i \in 1..Len(s) : s[i] \in S
    BY LenProperties, ElementOfSeq
  <1>1. CASE k \in 1..Len(s)
    <2> DEFINE f == [j \in 1..Len(s) + 1 |-> IF j < k THEN s[j] ELSE IF j = k THEN e ELSE s[j - 1]]
    <2>1. \A j \in 1..Len(s) + 1 : f[j] = e \/ \E i \in 1..Len(s) : f[j] = s[i]
      BY <1>0, <1>1
    <2>2. f \in [1..Len(s) + 1 -> S]
      BY <1>0, <1>1
    <2>3. f \in Seq(S) /\ Len(f) = Len(s) + 1
      <3> HIDE DEF f
      <3> QED BY <2>2, <1>0, FcnIsSeq
    <2> QED BY <2>1, <2>3, <1>1 DEF InsertAt
  <1>2. CASE k \notin 1..Len(s)
    <2>1. InsertAt(s, k, e) = Append(s, e)
      BY <1>2 DEF InsertAt
    <2> QED BY <2>1, <1>0, AppendProperties
  <1> QED BY <1>1, <1>2

-----------------------------------------------------------------------------
(* The invariant. *)

FileTypes ==
    [block : Seq(Lemmas), offs : Seq(Flagged), preds : Seq(Flagged), scores : Seq(Score),
     syncs : Seq(Nat),
     info : [lemmas : Nat, count : Nat, syncs : Nat, free_count : Nat,
             limit : [count : Nat, ratio : Nat]]]

FileOK(f) ==
    /\ f \in FileTypes
    /\ Validate(f)
    /\ Len(f.block) = Len(f.offs)
    /\ \A k \in 1..Len(f.offs) : /\ f.offs[k].off \in 1..Len(f.block)
                                 /\ f.preds[k].off \in 1..Len(f.block)
    /\ \A i \in 1..Len(f.syncs) : f.syncs[i] \in 1..Len(f.block)

DictOK(dict) == dict \in DictTypes(dict) /\ InRange(dict)

(* The file is up to date below the dirty level. *)
Covers(dict, f) ==
    /\ dict.state <= LEMMA_DIRTY
    /\ dict.limit = f.info.limit
    /\ dict.state < SYNC_DIRTY => f.syncs = dict.syncs /\ f.info.free_count = dict.free_count
    /\ dict.state < SCORE_DIRTY => f.scores = ScoresOf(dict.index)
    /\ dict.state < OFFSET_DIRTY => f.offs = OffsetsOf(dict.index) /\ f.preds = dict.preds
    /\ dict.state < LEMMA_DIRTY => f.block = dict.block
    /\ Len(f.block) = Len(dict.block) - (PreAlloc - dict.left)
    /\ \A i \in 1..Len(f.block) : f.block[i] = dict.block[i]

Good(dict, f) == DictOK(dict) /\ FileOK(f) /\ Covers(dict, f)

(* What the file holds when every segment is written. *)
Image(dict) ==
    [block |-> dict.block, offs |-> OffsetsOf(dict.index), preds |-> dict.preds,
     scores |-> ScoresOf(dict.index), syncs |-> dict.syncs, info |-> InfoOf(dict)]

-----------------------------------------------------------------------------
(* The segments made of the index are sequences as long as the index. *)
LEMMA SegmentsOfIndex ==
    ASSUME NEW dict, DictOK(dict)
    PROVE  /\ Len(dict.index) \in Nat
           /\ OffsetsOf(dict.index) \in Seq(Flagged) /\ ScoresOf(dict.index) \in Seq(Score)
           /\ Len(OffsetsOf(dict.index)) = Len(dict.index)
           /\ Len(ScoresOf(dict.index)) = Len(dict.index)
  <1> DEFINE n == Len(dict.index)
             E == [off : Nat, rm : BOOLEAN, score : Score, id : Nat]
  <1>1. dict.index \in Seq(E)
    BY DEF DictOK, DictTypes
  <1>2. n \in Nat /\ \A k \in 1..n : dict.index[k] \in E
    BY <1>1, LenProperties, ElementOfSeq
  <1>3. OffsetsOf(dict.index) \in [1..n -> Flagged]
    BY <1>2 DEF OffsetsOf, Flagged
  <1>4. ScoresOf(dict.index) \in [1..n -> Score]
    BY <1>2 DEF ScoresOf
  <1> HIDE DEF n
  <1>5. OffsetsOf(dict.index) \in Seq(Flagged) /\ Len(OffsetsOf(dict.index)) = n
    BY <1>2, <1>3, FcnIsSeq
  <1>6. ScoresOf(dict.index) \in Seq(Score) /\ Len(ScoresOf(dict.index)) = n
    BY <1>2, <1>4, FcnIsSeq
  <1> QED BY <1>2, <1>5, <1>6 DEF n

(* The image of a dictionary is a file load_dict accepts. *)
LEMMA ImageOK ==
    ASSUME NEW dict, DictOK(dict)
    PROVE  FileOK(Image(dict))
  <1>1. /\ Len(dict.index) \in Nat
        /\ OffsetsOf(dict.index) \in Seq(Flagged) /\ ScoresOf(dict.index) \in Seq(Score)
        /\ Len(OffsetsOf(dict.index)) = Len(dict.index)
        /\ Len(ScoresOf(dict.index)) = Len(dict.index)
    BY SegmentsOfIndex
  <1>2. /\ dict.block \in Seq(Lemmas) /\ dict.preds \in Seq(Flagged) /\ dict.syncs \in Seq(Nat)
        /\ dict.limit \in [count : Nat, ratio : Nat] /\ dict.free_count \in Nat
    BY DEF DictOK, DictTypes
  <1>3. Len(dict.block) \in Nat /\ Len(dict.syncs) \in Nat
    BY <1>2, LenProperties
  <1>4. Image(dict) \in FileTypes
    BY <1>1, <1>2, <1>3 DEF Image, InfoOf, FileTypes
  <1>5. Validate(Image(dict))
    BY <1>1 DEF Validate, Image, InfoOf, DictOK, InRange
  <1>6. \A k \in 1..Len(dict.index) : OffsetsOf(dict.index)[k].off = dict.index[k].off
    BY <1>1 DEF OffsetsOf
  <1> QED BY <1>1, <1>4, <1>5, <1>6 DEF FileOK, Image, DictOK, InRange

(* write_back leaves the whole image in the file, whatever the dirty level. *)
LEMMA WriteBackIsImage ==
    ASSUME NEW dict, NEW f, Good(dict, f)
    PROVE  WriteBack(dict, f, dict.syncs) = Image(dict)
  <1> DEFINE kept == Len(dict.block) - (PreAlloc - dict.left)
  <1>1. /\ dict.block \in Seq(Lemmas) /\ f.block \in Seq(Lemmas)
        /\ dict.left \in 0..PreAlloc /\ dict.state \in SYNC..LEMMA_DIRTY
    BY DEF Good, DictOK, DictTypes, FileOK, FileTypes, Covers
  <1>2. /\ Len(dict.block) \in Nat /\ Len(f.block) \in Nat
        /\ kept = Len(f.block) /\ kept <= Len(dict.block)
    <2>1. Len(dict.block) \in Nat /\ Len(f.block) \in Nat
      BY <1>1, LenProperties
    <2>2. kept = Len(f.block)
      BY DEF Good, Covers
    <2>3. PreAlloc - dict.left \in Nat
      BY <1>1
    <2> QED BY <2>1, <2>2, <2>3
  <1>3. f = [block |-> f.block, offs |-> f.offs, preds |-> f.preds, scores |-> f.scores,
             syncs |-> f.syncs, info |-> f.info]
    BY DEF Good, FileOK, FileTypes
  <1>4. SubSeq(f.block, 1, kept) \o SubSeq(dict.block, kept + 1, Len(dict.block)) = dict.block
    <2> DEFINE n == Len(dict.block)
               s1 == SubSeq(f.block, 1, kept)
               s2 == SubSeq(dict.block, kept + 1, n)
    <2> HIDE DEF kept, n
    <2>1. n \in Nat /\ kept \in 0..n
      BY <1>2 DEF n
    <2>2. \A i \in 1..kept : f.block[i] \in Lemmas /\ f.block[i] = dict.block[i]
      BY <1>1, <1>2, ElementOfSeq DEF Good, Covers
    <2>3. \A i \in kept + 1..n : dict.block[i] \in Lemmas
      BY <1>1, <2>1, ElementOfSeq DEF n
    <2>4. /\ s1 \in Seq(Lemmas) /\ Len(s1) = kept
          /\ \A i \in 1..kept : s1[i] = f.block[i]
      BY <2>1, <2>2, SubSeqProperties
    <2>5. /\ s2 \in Seq(Lemmas) /\ Len(s2) = n - kept
          /\ \A i \in 1..n - kept : s2[i] = dict.block[kept + i]
      BY <2>1, <2>3, SubSeqProperties
    <2> HIDE DEF s1, s2
    <2>6. /\ s1 \o s2 \in Seq(Lemmas) /\ Len(s1 \o s2) = n
          /\ \A i \in 1..n : (s1 \o s2)[i] = IF i <= kept THEN s1[i] ELSE s2[i - kept]
      <3>1. /\ s1 \o s2 \in Seq(Lemmas) /\ Len(s1 \o s2) = Len(s1) + Len(s2)
            /\ \A i \in 1..Len(s1) + Len(s2) :
                  (s1 \o s2)[i] = IF i <= Len(s1) THEN s1[i] ELSE s2[i - Len(s1)]
        BY <2>4, <2>5, ConcatProperties
      <3>2. Len(s1) = kept /\ Len(s1) + Len(s2) = n
        BY <2>1, <2>4, <2>5
      <3> QED BY <3>1, <3>2
    <2>7. ASSUME NEW i \in 1..n PROVE (s1 \o s2)[i] = dict.block[i]
      <3>1. CASE i <= kept
        BY <2>1, <2>2, <2>4, <2>6, <3>1
      <3>2. CASE ~(i <= kept)
        <4>1. i - kept \in 1..n - kept /\ kept + (i - kept) = i
          BY <2>1, <3>2
        <4> QED BY <2>5, <2>6, <3>2, <4>1
      <3> QED BY <3>1, <3>2
    <2>8. s1 \o s2 = dict.block
      BY <1>1, <2>6, <2>7, SeqEqual DEF n
    <2> QED BY <2>8 DEF s1, s2, n
  <1>5. CASE dict.state = SYNC
    <2>1. /\ f.syncs = dict.syncs /\ f.scores = ScoresOf(dict.index)
          /\ f.offs = OffsetsOf(dict.index) /\ f.preds = dict.preds /\ f.block = dict.block
          /\ f.info.free_count = dict.free_count /\ f.info.limit = dict.limit
      BY <1>5 DEF Good, Covers
    <2>2. f.info = InfoOf(dict)
      <3>1. f.info \in [lemmas : Nat, count : Nat, syncs : Nat, free_count : Nat,
                        limit : [count : Nat, ratio : Nat]]
        BY DEF Good, FileOK, FileTypes
      <3>2. f.info.lemmas = Len(dict.block) /\ f.info.syncs = Len(dict.syncs)
        BY <2>1 DEF Good, FileOK, Validate
      <3>3. f.info.count = Len(dict.index)
        BY <2>1, SegmentsOfIndex DEF Good, FileOK, Validate
      <3> QED BY <2>1, <3>1, <3>2, <3>3 DEF InfoOf
    <2>3. WriteBack(dict, f, dict.syncs) = f
      BY <1>5 DEF WriteBack
    <2> QED BY <1>3, <2>1, <2>2, <2>3 DEF Image
  <1>6. CASE dict.state = SYNC_DIRTY
    <2>1. WriteBack(dict, f, dict.syncs) = [f EXCEPT !.syncs = dict.syncs, !.info = InfoOf(dict)]
      BY <1>6 DEF WriteBack
    <2>2. /\ f.scores = ScoresOf(dict.index)
          /\ f.offs = OffsetsOf(dict.index) /\ f.preds = dict.preds /\ f.block = dict.block
      BY <1>6 DEF Good, Covers
    <2> QED BY <1>3, <2>1, <2>2 DEF Image
  <1>7. CASE dict.state = SCORE_DIRTY
    <2>1. WriteBack(dict, f, dict.syncs) =
              [f EXCEPT !.syncs = dict.syncs, !.info = InfoOf(dict),
                        !.scores = ScoresOf(dict.index)]
      BY <1>7 DEF WriteBack
    <2>2. f.offs = OffsetsOf(dict.index) /\ f.preds = dict.preds /\ f.block = dict.block
      BY <1>7 DEF Good, Covers
    <2> QED BY <1>3, <2>1, <2>2 DEF Image
  <1>8. CASE dict.state = OFFSET_DIRTY
    <2>1. WriteBack(dict, f, dict.syncs) =
              [f EXCEPT !.syncs = dict.syncs, !.info = InfoOf(dict),
                        !.scores = ScoresOf(dict.index),
                        !.offs = OffsetsOf(dict.index), !.preds = dict.preds]
      BY <1>8 DEF WriteBack
    <2>2. f.block = dict.block
      BY <1>8 DEF Good, Covers
    <2> QED BY <1>3, <2>1, <2>2 DEF Image
  <1>9. CASE dict.state = LEMMA_DIRTY
    <2>1. WriteBack(dict, f, dict.syncs) =
              [f EXCEPT !.syncs = dict.syncs, !.info = InfoOf(dict),
                        !.scores = ScoresOf(dict.index),
                        !.offs = OffsetsOf(dict.index), !.preds = dict.preds,
                        !.block = SubSeq(f.block, 1, kept)
                                  \o SubSeq(dict.block, kept + 1, Len(dict.block))]
      BY <1>9 DEF WriteBack
    <2> QED BY <1>3, <1>4, <2>1 DEF Image
  <1> QED BY <1>1, <1>5, <1>6, <1>7, <1>8, <1>9

(* Loading a file that is in order gives an object that it covers. *)
LEMMA LoadGood ==
    ASSUME NEW f, FileOK(f)
    PROVE  Good(Load(f), f) /\ Load(f).left = PreAlloc
  <1> DEFINE n == Len(f.offs)
             E == [off : Nat, rm : BOOLEAN, score : Score, id : Nat]
             index == [k \in 1..n |-> [off |-> f.offs[k].off, rm |-> f.offs[k].rm,
                                       score |-> f.scores[k], id |-> k]]
             by_id == [k \in 1..n |-> f.offs[k].off]
  <1>1. /\ f.offs \in Seq(Flagged) /\ f.scores \in Seq(Score) /\ f.block \in Seq(Lemmas)
        /\ f.preds \in Seq(Flagged) /\ f.syncs \in Seq(Nat)
        /\ f.info \in [lemmas : Nat, count : Nat, syncs : Nat, free_count : Nat,
                       limit : [count : Nat, ratio : Nat]]
    BY DEF FileOK, FileTypes
  <1>2. n \in Nat /\ Len(f.scores) = n /\ Len(f.preds) = n /\ Len(f.block) = n
    BY <1>1, LenProperties DEF FileOK, Validate
  <1>3. \A k \in 1..n : f.offs[k] \in Flagged /\ f.scores[k] \in Score
    BY <1>1, <1>2, ElementOfSeq
  <1>4. index \in [1..n -> E] /\ by_id \in [1..n -> Nat]
    BY <1>2, <1>3 DEF Flagged
  <1>5. \A k \in 1..n : /\ index[k].off = f.offs[k].off /\ index[k].rm = f.offs[k].rm
                        /\ index[k].score = f.scores[k] /\ index[k].id = k
                        /\ by_id[k] = f.offs[k].off
    OBVIOUS
  <1> HIDE DEF n, E, index, by_id
  <1>6. index \in Seq(E) /\ Len(index) = n /\ by_id \in Seq(Nat) /\ Len(by_id) = n
    BY <1>2, <1>4, FcnIsSeq
  <1>7. Load(f) = [state |-> SYNC, block |-> f.block, index |-> index, by_id |-> by_id,
                   preds |-> f.preds, syncs |-> f.syncs, left |-> PreAlloc,
                   limit |-> f.info.limit, free_count |-> f.info.free_count,
                   hits |-> NoCache, misses |-> NoCache]
    BY DEF Load, n, index, by_id
  <1>8. Load(f) \in DictTypes(Load(f))
    BY <1>1, <1>6, <1>7, SMTT(30) DEF DictTypes, E
  <1>9. InRange(Load(f))
    <2>1. \A k \in 1..n : f.offs[k].off \in 1..n /\ f.preds[k].off \in 1..n
      BY <1>2 DEF FileOK, n
    <2>2. \A i \in 1..Len(f.syncs) : f.syncs[i] \in 1..n
      BY <1>2 DEF FileOK
    <2>3. /\ Load(f).block = f.block /\ Load(f).index = index /\ Load(f).by_id = by_id
          /\ Load(f).preds = f.preds /\ Load(f).syncs = f.syncs
      BY <1>7
    <2>4. \A k \in 1..n : index[k].off \in 1..n /\ index[k].id \in 1..n /\ by_id[k] \in 1..n
      BY <1>5, <2>1
    <2> QED BY <1>2, <1>6, <2>1, <2>2, <2>3, <2>4 DEF InRange
  <1>10. f.scores = ScoresOf(index) /\ f.offs = OffsetsOf(index)
    <2>1. ScoresOf(index) = [k \in 1..n |-> f.scores[k]]
      BY <1>5, <1>6 DEF ScoresOf
    <2>2. OffsetsOf(index) = [k \in 1..n |-> [off |-> f.offs[k].off, rm |-> f.offs[k].rm]]
      BY <1>5, <1>6 DEF OffsetsOf
    <2>3. \A k \in 1..n : f.offs[k] = [off |-> f.offs[k].off, rm |-> f.offs[k].rm]
      BY <1>3 DEF Flagged
    <2>4. f.scores \in [1..n -> Score] /\ f.offs \in [1..n -> Flagged]
      BY <1>1, <1>2, LenProperties DEF n
    <2> QED BY <2>1, <2>2, <2>3, <2>4
  <1>11. Covers(Load(f), f)
    <2>1. Len(f.block) = Len(f.block) - (PreAlloc - PreAlloc)
      BY <1>2
    <2> QED BY <1>7, <1>10, <2>1 DEF Covers
  <1> QED BY <1>7, <1>8, <1>9, <1>11 DEF Good, DictOK

(* flush_cache keeps the invariant; what it loads is what was in memory. *)
LEMMA FlushGood ==
    ASSUME NEW dict, NEW f, Good(dict, f)
    PROVE  LET r == FlushCache(dict, f, dict.syncs)
           IN  /\ Good(r.d, r.file)
               /\ r.d = Load(Image(dict))
               /\ r.d.left = PreAlloc
  <1>1. FileOK(Image(dict))
    BY ImageOK DEF Good
  <1>2. Accepted(WriteBack(dict, f, dict.syncs)) = Image(dict)
    BY <1>1, WriteBackIsImage DEF Accepted, FileOK
  <1> QED BY <1>1, <1>2, LoadGood DEF FlushCache

-----------------------------------------------------------------------------
(* The functions of the class, one lemma each. *)

(* locate_in_offsets answers with a position of the index, or none. *)
LEMMA LocateRange ==
    ASSUME NEW dict, DictOK(dict), NEW w
    PROVE  LocateInOffsets(dict, w) \in 0..Len(dict.index)
  <1>1. Len(dict.index) \in Nat
    BY SegmentsOfIndex
  <1>2. ASSUME NEW first, NEW last, NEW cached
        PROVE  ScanFor(dict.block, dict.index, w, first, last, cached) \in 0..Len(dict.index)
    <2> DEFINE s == Searchable(w.spl)
               n == Len(w.spl)
               inuse == {k \in 1..Len(dict.index) : first <= k /\ k <= last /\ ~dict.index[k].rm}
               same == {k \in inuse :
                          /\ EqualSpell(LemmaAt(dict.block, dict.index, k).spl, n, s)
                          /\ \A i \in 1..n : LemmaAt(dict.block, dict.index, k).str[i] = w.str[i]}
               stop == {k \in inuse : ~cached
                          /\ FuzzyCompare(LemmaAt(dict.block, dict.index, k).spl, n, s) # 0}
               found == {k \in same : \A j \in stop : k < j}
    <2>1. found \subseteq 1..Len(dict.index)
      OBVIOUS
    <2>2. ScanFor(dict.block, dict.index, w, first, last, cached)
              = IF found = {} THEN 0 ELSE Least(found)
      BY DEF ScanFor
    <2> HIDE DEF found
    <2>3. found \subseteq Nat
      BY <1>1, <2>1
    <2>4. found # {} => Least(found) \in found
      BY <2>3, LeastIn
    <2>5. found # {} => Least(found) \in 0..Len(dict.index)
      <3>1. found # {} => Least(found) \in 1..Len(dict.index)
        BY <2>1, <2>4, Zenon
      <3>2. \A k \in 1..Len(dict.index) : k \in 0..Len(dict.index)
        BY <1>1
      <3> QED BY <3>1, <3>2, Zenon
    <2>6. 0 \in 0..Len(dict.index)
      BY <1>1
    <2> QED BY <2>2, <2>5, <2>6
  <1>3. 0 \in 0..Len(dict.index)
    BY <1>1
  <1> QED BY <1>2, <1>3, Zenon DEF LocateInOffsets

(* A score that build_score makes is one that fits. *)
LEMMA BuildScoreFits ==
    ASSUME NEW week \in Nat, NEW freq \in Nat
    PROVE  BuildScore(week, freq) \in Score
  <1> DEFINE a == week % WeekRange
             b == freq % FreqRange
  <1>1. a \in 0..WeekRange - 1 /\ b \in 0..FreqRange - 1
    OBVIOUS
  <1> HIDE DEF a, b
  <1>2. a * FreqRange + b <= (WeekRange - 1) * FreqRange + (FreqRange - 1)
    <2>1. a * FreqRange <= (WeekRange - 1) * FreqRange
      BY <1>1
    <2> QED BY <1>1, <2>1
  <1>3. (WeekRange - 1) * FreqRange + (FreqRange - 1) = WeekRange * FreqRange - 1
    OBVIOUS
  <1>4. a * FreqRange + b \in Nat
    BY <1>1
  <1> QED BY <1>2, <1>3, <1>4 DEF BuildScore, Score, a, b

(* Only defragment goes beyond LEMMA_DIRTY. *)
LEMMA StateRange ==
    ASSUME NEW dict, NEW f, Good(dict, f)
    PROVE  dict.state \in SYNC..LEMMA_DIRTY
  <1>1. dict.state \in SYNC..DEFRAGMENTED
    BY DEF Good, DictOK, DictTypes
  <1>2. dict.state <= LEMMA_DIRTY
    BY DEF Good, Covers
  <1> QED BY <1>1, <1>2

(* The object with a new score for one entry. *)
Scored(dict, k, score) ==
    [dict EXCEPT !.index[k].score = score, !.state = Dirty(dict, SCORE_DIRTY)]

(* Setting the score of one entry. *)
LEMMA ScoreGood ==
    ASSUME NEW dict, NEW f, Good(dict, f), NEW k \in 1..Len(dict.index), NEW score \in Score
    PROVE  LET r == Scored(dict, k, score)
           IN  /\ Good(r, f)
               /\ r.state >= SYNC_DIRTY
               /\ Len(r.index) = Len(dict.index)
  <1> DEFINE E == [off : Nat, rm : BOOLEAN, score : Score, id : Nat]
             e == [dict.index[k] EXCEPT !.score = score]
             index == [dict.index EXCEPT ![k] = e]
             r == Scored(dict, k, score)
  <1>1. dict \in DictTypes(dict) /\ dict.index \in Seq(E) /\ dict.state \in SYNC..LEMMA_DIRTY
    BY DEF Good, DictOK, DictTypes, Covers
  <1>2. dict.index[k] \in E
    BY <1>1, ElementOfSeq
  <1>3. e \in E /\ e.off = dict.index[k].off /\ e.id = dict.index[k].id /\ e.rm = dict.index[k].rm
    BY <1>2
  <1>4. r = [dict EXCEPT !.index = index, !.state = Dirty(dict, SCORE_DIRTY)]
    BY DEF Scored
  <1> HIDE DEF e
  <1>5. /\ index \in Seq(E) /\ Len(index) = Len(dict.index)
        /\ \A j \in 1..Len(dict.index) : index[j] = IF j = k THEN e ELSE dict.index[j]
    BY <1>1, <1>3, ExceptSeq, SMTT(30)
  <1> HIDE DEF index
  <1>6. Dirty(dict, SCORE_DIRTY) \in SCORE_DIRTY..LEMMA_DIRTY
        /\ (Dirty(dict, SCORE_DIRTY) < OFFSET_DIRTY => dict.state < OFFSET_DIRTY)
        /\ (Dirty(dict, SCORE_DIRTY) < LEMMA_DIRTY => dict.state < LEMMA_DIRTY)
    BY <1>1 DEF Dirty
  <1> HIDE DEF r
  <1>7. r = [state |-> Dirty(dict, SCORE_DIRTY), block |-> dict.block, index |-> index,
             by_id |-> dict.by_id, preds |-> dict.preds, syncs |-> dict.syncs,
             left |-> dict.left, limit |-> dict.limit, free_count |-> dict.free_count,
             hits |-> dict.hits, misses |-> dict.misses]
    BY <1>1, <1>4 DEF DictTypes
  <1>8. r \in DictTypes(r)
    BY <1>1, <1>5, <1>6, <1>7 DEF DictTypes, E
  <1>9. InRange(r)
    <2>1. \A j \in 1..Len(index) : index[j].off = dict.index[j].off /\ index[j].id = dict.index[j].id
      BY <1>3, <1>5
    <2>2. InRange(dict)
      BY DEF Good, DictOK
    <2> QED BY <1>5, <1>7, <2>1, <2>2 DEF InRange
  <1>10. OffsetsOf(r.index) = OffsetsOf(dict.index)
    BY <1>3, <1>5, <1>7 DEF OffsetsOf
  <1>11. Covers(r, f)
    BY <1>6, <1>7, <1>10 DEF Good, Covers
  <1>12. FileOK(f)
    BY DEF Good
  <1>13. Good(r, f) /\ r.state >= SYNC_DIRTY /\ Len(r.index) = Len(dict.index)
    BY <1>5, <1>6, <1>7, <1>8, <1>9, <1>11, <1>12 DEF Good, DictOK
  <1> QED BY <1>13 DEF r

(* queue_lemma_for_sync: the dirty level of the caller covers the queue. *)
LEMMA QueueGood ==
    ASSUME NEW dict, NEW f, Good(dict, f), dict.state >= SYNC_DIRTY,
           NEW id \in 1..Len(dict.index)
    PROVE  Good(QueueLemmaForSync(dict, id), f)
  <1> DEFINE syncs == Append(dict.syncs, dict.by_id[id])
             r == QueueLemmaForSync(dict, id)
  <1>0. dict.state \in SYNC_DIRTY..LEMMA_DIRTY
    BY StateRange
  <1>1. dict \in DictTypes(dict) /\ dict.syncs \in Seq(Nat) /\ dict.by_id \in Seq(Nat)
    BY DEF Good, DictOK, DictTypes
  <1>2. InRange(dict) /\ Covers(dict, f) /\ FileOK(f)
    BY DEF Good, DictOK
  <1>3. dict.by_id[id] \in Nat /\ dict.by_id[id] \in 1..Len(dict.block)
    BY <1>1, <1>2, ElementOfSeq DEF InRange
  <1>4. Len(dict.syncs) \in Nat
    BY <1>1, LenProperties
  <1>5. /\ syncs \in Seq(Nat) /\ Len(syncs) = Len(dict.syncs) + 1
        /\ \A i \in 1..Len(dict.syncs) : syncs[i] = dict.syncs[i]
        /\ syncs[Len(dict.syncs) + 1] = dict.by_id[id]
    BY <1>1, <1>3, AppendProperties
  <1>6. r = [state |-> dict.state, block |-> dict.block, index |-> dict.index,
             by_id |-> dict.by_id, preds |-> dict.preds, syncs |-> syncs,
             left |-> dict.left, limit |-> dict.limit, free_count |-> dict.free_count,
             hits |-> dict.hits, misses |-> dict.misses]
    <2>1. r = [dict EXCEPT !.syncs = syncs]
      BY DEF QueueLemmaForSync
    <2> HIDE DEF syncs, r
    <2> QED BY <1>1, <2>1 DEF DictTypes
  <1> HIDE DEF syncs, r
  <1>7. r \in DictTypes(r)
    BY <1>1, <1>5, <1>6 DEF DictTypes
  <1>8. InRange(r)
    <2>1. \A i \in 1..Len(syncs) : i \in 1..Len(dict.syncs) \/ i = Len(dict.syncs) + 1
      BY <1>4, <1>5
    <2>2. \A i \in 1..Len(syncs) : syncs[i] \in 1..Len(dict.block)
      BY <1>2, <1>3, <1>5, <2>1 DEF InRange
    <2> QED BY <1>2, <1>6, <2>2 DEF InRange
  <1>9. Covers(r, f)
    <2>1. ~(r.state < SYNC_DIRTY)
      BY <1>0, <1>6
    <2>2. /\ r.state = dict.state /\ r.block = dict.block /\ r.index = dict.index
          /\ r.preds = dict.preds /\ r.left = dict.left /\ r.limit = dict.limit
      BY <1>6
    <2> QED BY <1>2, <2>1, <2>2, Zenon DEF Covers
  <1>10. Good(r, f)
    BY <1>2, <1>7, <1>8, <1>9 DEF Good, DictOK
  <1> QED BY <1>10 DEF r

(* append_a_lemma on an object with room. *)
LEMMA AppendGood ==
    ASSUME NEW dict, NEW f, Good(dict, f), dict.left # 0,
           NEW w \in Lemmas, NEW score \in Score
    PROVE  LET r == AppendALemma(dict, w, score)
           IN  /\ Good(r, f)
               /\ r.state = LEMMA_DIRTY
               /\ Len(r.index) = Len(dict.index) + 1
  <1> DEFINE E     == [off : Nat, rm : BOOLEAN, score : Score, id : Nat]
             n     == Len(dict.index)
             block == Append(dict.block, w)
             e     == [off |-> Len(dict.block) + 1, rm |-> FALSE, score |-> score, id |-> NewId(dict)]
             at    == InsertPosition(block, dict.index, w)
             index == InsertAt(dict.index, at, e)
             p     == [off |-> Len(dict.block) + 1, rm |-> FALSE]
             pat   == PredictInsertPoint(block, index, w.str) + 1
             preds == InsertAt(dict.preds, pat, p)
             by_id == Append(dict.by_id, Len(dict.block) + 1)
             r     == AppendALemma(dict, w, score)
  <1>1. /\ dict \in DictTypes(dict) /\ dict.block \in Seq(Lemmas) /\ dict.index \in Seq(E)
        /\ dict.by_id \in Seq(Nat) /\ dict.preds \in Seq(Flagged)
    BY DEF Good, DictOK, DictTypes
  <1>0. dict.state \in SYNC..LEMMA_DIRTY /\ dict.left - 1 \in 0..PreAlloc
    <2>1. dict.left \in 0..PreAlloc
      BY <1>1 DEF DictTypes
    <2> QED BY <2>1, StateRange
  <1>2. InRange(dict) /\ Covers(dict, f) /\ FileOK(f)
    BY DEF Good, DictOK
  <1>3. n \in Nat /\ Len(dict.block) = n /\ Len(dict.preds) = n /\ Len(dict.by_id) = n
    BY <1>1, <1>2, LenProperties DEF InRange
  <1>4. /\ e \in E /\ e.off = n + 1 /\ e.id = n + 1
        /\ p \in Flagged /\ p.off = n + 1
    BY <1>3 DEF NewId, Flagged
  <1> HIDE DEF E, e, p
  <1>5. /\ block \in Seq(Lemmas) /\ Len(block) = n + 1
        /\ \A i \in 1..n : block[i] = dict.block[i]
    <2>1. /\ block \in Seq(Lemmas) /\ Len(block) = Len(dict.block) + 1
          /\ \A i \in 1..Len(dict.block) : block[i] = dict.block[i]
      BY <1>1, AppendProperties
    <2> HIDE DEF n, block
    <2> QED BY <1>3, <2>1
  <1>6. /\ by_id \in Seq(Nat) /\ Len(by_id) = n + 1
        /\ \A i \in 1..n : by_id[i] = dict.by_id[i]
        /\ by_id[n + 1] = n + 1
    <2> DEFINE x == Len(dict.block) + 1
    <2>1. x \in Nat /\ x = n + 1
      BY <1>3
    <2> HIDE DEF x
    <2>2. /\ Append(dict.by_id, x) \in Seq(Nat)
          /\ Len(Append(dict.by_id, x)) = Len(dict.by_id) + 1
          /\ \A i \in 1..Len(dict.by_id) : Append(dict.by_id, x)[i] = dict.by_id[i]
          /\ Append(dict.by_id, x)[Len(dict.by_id) + 1] = x
      BY <1>1, <2>1, AppendProperties
    <2>3. by_id = Append(dict.by_id, x)
      BY DEF x
    <2> HIDE DEF n, by_id
    <2> QED BY <1>3, <2>1, <2>2, <2>3
  <1>7. /\ index \in Seq(E) /\ Len(index) = n + 1
        /\ \A j \in 1..n + 1 : index[j] = e \/ \E i \in 1..n : index[j] = dict.index[i]
    <2> HIDE DEF at
    <2> QED BY <1>1, <1>4, InsertAtProperties
  <1>8. /\ preds \in Seq(Flagged) /\ Len(preds) = n + 1
        /\ \A j \in 1..n + 1 : preds[j] = p \/ \E i \in 1..n : preds[j] = dict.preds[i]
    <2> HIDE DEF pat
    <2>1. /\ preds \in Seq(Flagged) /\ Len(preds) = Len(dict.preds) + 1
          /\ \A j \in 1..Len(dict.preds) + 1 :
                preds[j] = p \/ \E i \in 1..Len(dict.preds) : preds[j] = dict.preds[i]
      BY <1>1, <1>4, InsertAtProperties
    <2> HIDE DEF preds
    <2> QED BY <1>3, <2>1
  <1>9. r = [state |-> LEMMA_DIRTY, block |-> block, index |-> index,
             by_id |-> by_id, preds |-> preds, syncs |-> dict.syncs,
             left |-> dict.left - 1, limit |-> dict.limit, free_count |-> dict.free_count,
             hits |-> NoCache, misses |-> NoCache]
    <2>1. Dirty(dict, LEMMA_DIRTY) = LEMMA_DIRTY
      BY <1>0 DEF Dirty
    <2>2. r = [dict EXCEPT !.block = block, !.index = index, !.by_id = by_id, !.preds = preds,
                           !.left = @ - 1, !.state = LEMMA_DIRTY,
                           !.hits = NoCache, !.misses = NoCache]
      BY <2>1 DEF AppendALemma, CacheInit, e, p
    <2> HIDE DEF block, index, by_id, preds, r
    <2> QED BY <1>1, <2>2 DEF DictTypes
  <1> HIDE DEF n, block, index, by_id, preds, r
  <1>10. r \in DictTypes(r)
    <2>1. dict.syncs \in Seq(Nat) /\ dict.free_count \in Nat /\ dict.limit \in [count : Nat, ratio : Nat]
      BY <1>1 DEF DictTypes
    <2> QED BY <1>0, <1>5, <1>6, <1>7, <1>8, <1>9, <2>1 DEF DictTypes, E
  <1>11. InRange(r)
    <2>0. /\ \A i \in 1..n : /\ dict.index[i].off \in 1..n /\ dict.index[i].id \in 1..n
                            /\ dict.by_id[i] \in 1..n /\ dict.preds[i].off \in 1..n
          /\ \A i \in 1..Len(dict.syncs) : dict.syncs[i] \in 1..n
      BY <1>2, <1>3 DEF InRange, n
    <2>a. n + 1 \in 1..n + 1 /\ \A i \in 1..n : i \in 1..n + 1
      BY <1>3
    <2>1. ASSUME NEW j \in 1..n + 1
          PROVE  index[j].off \in 1..n + 1 /\ index[j].id \in 1..n + 1
      BY <1>4, <1>7, <2>0, <2>a, Zenon
    <2>2. ASSUME NEW j \in 1..n + 1 PROVE preds[j].off \in 1..n + 1
      BY <1>4, <1>8, <2>0, <2>a, Zenon
    <2>3. ASSUME NEW j \in 1..n + 1 PROVE by_id[j] \in 1..n + 1
      <3>1. j \in 1..n \/ j = n + 1
        BY <1>3
      <3> QED BY <1>6, <2>0, <2>a, <3>1, Zenon
    <2>4. \A i \in 1..Len(dict.syncs) : dict.syncs[i] \in 1..n + 1
      BY <2>0, <2>a, Zenon
    <2> QED BY <1>5, <1>6, <1>7, <1>8, <1>9, <2>1, <2>2, <2>3, <2>4 DEF InRange
  <1>12. Covers(r, f)
    <2>1. /\ f.block \in Seq(Lemmas) /\ Len(f.block) \in Nat
      BY <1>2, LenProperties DEF FileOK, FileTypes
    <2>2. Len(f.block) = (n + 1) - (PreAlloc - (dict.left - 1)) /\ Len(f.block) <= n
      <3>1. Len(f.block) = n - (PreAlloc - dict.left)
        BY <1>2, <1>3 DEF Covers
      <3>2. dict.left \in 0..PreAlloc
        BY <1>1 DEF DictTypes
      <3> QED BY <1>3, <3>1, <3>2
    <2>3. \A i \in 1..Len(f.block) : f.block[i] = block[i]
      BY <1>2, <1>3, <1>5, <2>1, <2>2 DEF Covers
    <2>4. r.limit = f.info.limit
      BY <1>2, <1>9 DEF Covers
    <2> QED BY <1>5, <1>9, <2>2, <2>3, <2>4 DEF Covers
  <1>13. Good(r, f) /\ r.state = LEMMA_DIRTY /\ Len(r.index) = n + 1
    BY <1>2, <1>7, <1>9, <1>10, <1>11, <1>12 DEF Good, DictOK
  <1> QED BY <1>13 DEF r, n

(* remove_lemma_from_sync_list leaves offsets that were there. *)
LEMMA RemoveFromSyncListTyped ==
    ASSUME NEW S \in SUBSET Nat, NEW syncs \in Seq(Nat),
           \A i \in 1..Len(syncs) : syncs[i] \in S, NEW slot
    PROVE  LET r == RemoveFromSyncList(syncs, slot)
           IN  r \in Seq(Nat) /\ \A i \in 1..Len(r) : r[i] \in S
  <1> DEFINE at == {i \in 1..Len(syncs) : syncs[i] = slot}
             m  == Len(syncs)
             f  == [j \in 1..m - 1 |-> IF j = Least(at) THEN syncs[m] ELSE syncs[j]]
             r  == RemoveFromSyncList(syncs, slot)
  <1>1. m \in Nat
    BY LenProperties
  <1>2. CASE at = {}
    BY <1>2 DEF RemoveFromSyncList
  <1>3. CASE at # {}
    <2>1. m - 1 \in Nat /\ m \in 1..m /\ \A j \in 1..m - 1 : j \in 1..m
      <3>1. m # 0
        BY <1>1, <1>3
      <3> QED BY <1>1, <3>1
    <2>2. r = f
      BY <1>3 DEF RemoveFromSyncList
    <2> HIDE DEF at, r
    <2>3. f \in [1..m - 1 -> S]
      BY <2>1
    <2> HIDE DEF f, m
    <2>4. f \in Seq(S) /\ Len(f) = m - 1
      BY <2>1, <2>3, FcnIsSeq
    <2>5. f \in [1..m - 1 -> Nat] /\ \A j \in 1..m - 1 : f[j] \in S
      BY <2>3
    <2>6. f \in Seq(Nat)
      BY <2>1, <2>5, FcnIsSeq
    <2>7. r \in Seq(Nat) /\ \A i \in 1..Len(r) : r[i] \in S
      BY <2>2, <2>4, <2>5, <2>6
    <2> QED BY <2>7 DEF r
  <1> QED BY <1>2, <1>3

(* remove_lemma_from_predict_list changes flags only. *)
LEMMA RemoveFromPredictListTyped ==
    ASSUME NEW preds \in Seq(Flagged), NEW slot
    PROVE  LET r == RemoveFromPredictList(preds, slot)
           IN  /\ r \in Seq(Flagged)
               /\ Len(r) = Len(preds)
               /\ \A i \in 1..Len(preds) : r[i].off = preds[i].off
  <1> DEFINE m == Len(preds)
             r == RemoveFromPredictList(preds, slot)
  <1>1. m \in Nat /\ \A i \in 1..m : preds[i] \in Flagged
    BY LenProperties, ElementOfSeq
  <1>2. /\ r \in [1..m -> Flagged]
        /\ \A i \in 1..m : r[i].off = preds[i].off
    BY <1>1 DEF RemoveFromPredictList, Flagged
  <1> HIDE DEF m, r
  <1>3. r \in Seq(Flagged) /\ Len(r) = m
    BY <1>1, <1>2, FcnIsSeq
  <1> QED BY <1>2, <1>3 DEF m, r

(* remove_lemma_by_offset_index: block and scores stay as they are. *)
LEMMA RemoveGood ==
    ASSUME NEW dict, NEW f, Good(dict, f), NEW k \in 1..Len(dict.index)
    PROVE  Good(RemoveLemmaByOffsetIndex(dict, k), f)
  <1> DEFINE E == [off : Nat, rm : BOOLEAN, score : Score, id : Nat]
             e == [dict.index[k] EXCEPT !.rm = TRUE]
             index == [dict.index EXCEPT ![k] = e]
             slot  == dict.index[k].off
             syncs == RemoveFromSyncList(dict.syncs, slot)
             preds == RemoveFromPredictList(dict.preds, slot)
             level == Dirty(dict, OFFSET_DIRTY)
             r == RemoveLemmaByOffsetIndex(dict, k)
  <1>1. /\ dict \in DictTypes(dict) /\ dict.index \in Seq(E) /\ dict.syncs \in Seq(Nat)
        /\ dict.preds \in Seq(Flagged) /\ dict.free_count \in Nat
    BY DEF Good, DictOK, DictTypes
  <1>2. InRange(dict) /\ Covers(dict, f) /\ FileOK(f)
    BY DEF Good, DictOK
  <1>3. dict.index[k] \in E
    BY <1>1, ElementOfSeq
  <1>4. /\ e \in E /\ e.off = dict.index[k].off /\ e.id = dict.index[k].id
        /\ e.score = dict.index[k].score
    BY <1>3
  <1>5. level \in OFFSET_DIRTY..LEMMA_DIRTY /\ (level < LEMMA_DIRTY => dict.state < LEMMA_DIRTY)
    BY StateRange DEF Dirty
  <1>6. r = [dict EXCEPT !.index = index, !.syncs = syncs, !.preds = preds,
                         !.free_count = @ + 1, !.state = level]
    BY DEF RemoveLemmaByOffsetIndex
  <1> HIDE DEF e, r, syncs, preds, level, slot
  <1>7. /\ index \in Seq(E) /\ Len(index) = Len(dict.index)
        /\ \A j \in 1..Len(dict.index) : index[j] = IF j = k THEN e ELSE dict.index[j]
    BY <1>1, <1>4, ExceptSeq, SMTT(30)
  <1> HIDE DEF index
  <1>8. r = [state |-> level, block |-> dict.block, index |-> index,
             by_id |-> dict.by_id, preds |-> preds, syncs |-> syncs,
             left |-> dict.left, limit |-> dict.limit, free_count |-> dict.free_count + 1,
             hits |-> dict.hits, misses |-> dict.misses]
    BY <1>1, <1>6 DEF DictTypes
  <1>9. Len(dict.block) \in Nat /\ Len(dict.block) = Len(dict.index)
    BY <1>1, <1>2, LenProperties DEF InRange, DictTypes
  <1>10. syncs \in Seq(Nat) /\ \A i \in 1..Len(syncs) : syncs[i] \in 1..Len(dict.block)
    <2> DEFINE S == 1..Len(dict.block)
    <2>1. S \in SUBSET Nat /\ \A i \in 1..Len(dict.syncs) : dict.syncs[i] \in S
      BY <1>2, <1>9 DEF InRange
    <2> HIDE DEF S
    <2>2. syncs \in Seq(Nat) /\ \A i \in 1..Len(syncs) : syncs[i] \in S
      BY <1>1, <2>1, RemoveFromSyncListTyped DEF syncs
    <2> QED BY <2>2 DEF S
  <1>11. /\ preds \in Seq(Flagged) /\ Len(preds) = Len(dict.preds)
         /\ \A i \in 1..Len(dict.preds) : preds[i].off = dict.preds[i].off
    BY <1>1, RemoveFromPredictListTyped DEF preds
  <1>12. r \in DictTypes(r)
    <2>1. level \in SYNC..DEFRAGMENTED /\ dict.free_count + 1 \in Nat
      BY <1>1, <1>5
    <2>2. /\ dict.block \in Seq(Lemmas) /\ dict.by_id \in Seq(Nat) /\ dict.left \in 0..PreAlloc
          /\ dict.limit \in [count : Nat, ratio : Nat]
      BY <1>1 DEF DictTypes
    <2> HIDE DEF E
    <2> QED BY <1>7, <1>8, <1>10, <1>11, <2>1, <2>2, Zenon DEF DictTypes, E
  <1>13. InRange(r)
    <2>1. \A j \in 1..Len(index) : index[j].off = dict.index[j].off /\ index[j].id = dict.index[j].id
      BY <1>4, <1>7
    <2> QED BY <1>2, <1>7, <1>8, <1>10, <1>11, <2>1, ZenonT(40) DEF InRange
  <1>14. ScoresOf(r.index) = ScoresOf(dict.index)
    BY <1>4, <1>7, <1>8 DEF ScoresOf
  <1>15. Covers(r, f)
    <2>1. /\ ~(r.state < OFFSET_DIRTY) /\ ~(r.state < SCORE_DIRTY) /\ ~(r.state < SYNC_DIRTY)
          /\ r.state <= LEMMA_DIRTY
          /\ (r.state < LEMMA_DIRTY => dict.state < LEMMA_DIRTY)
      BY <1>5, <1>8
    <2>2. r.block = dict.block /\ r.left = dict.left /\ r.limit = dict.limit
      BY <1>8
    <2> QED BY <1>2, <2>1, <2>2, Zenon DEF Covers
  <1>16. Good(r, f)
    BY <1>2, <1>12, <1>13, <1>15 DEF Good, DictOK
  <1> QED BY <1>16 DEF r

(* get_lpis touches the caches only, whose contents Good says nothing of. *)
LEMMA GetLpisGood ==
    ASSUME NEW dict, NEW f, Good(dict, f), NEW q, NEW max
    PROVE  Good(GetLpis(dict, q, max), f)
  <1> DEFINE r == GetLpis(dict, q, max)
  <1>1. dict \in DictTypes(dict)
    BY DEF Good, DictOK
  <1>2. PICK hits, misses : r = [dict EXCEPT !.hits = hits, !.misses = misses]
    <2>1. \/ r = dict
          \/ \E hits : r = [dict EXCEPT !.hits = hits]
          \/ \E misses : r = [dict EXCEPT !.misses = misses]
      BY DEF GetLpis
    <2> HIDE DEF r
    <2>2. CASE r = dict
      <3>1. dict = [dict EXCEPT !.hits = dict.hits, !.misses = dict.misses]
        BY <1>1 DEF DictTypes
      <3> QED BY <2>2, <3>1
    <2>3. ASSUME NEW hits, r = [dict EXCEPT !.hits = hits]
          PROVE  r = [dict EXCEPT !.hits = hits, !.misses = dict.misses]
      BY <1>1, <2>3 DEF DictTypes
    <2>4. ASSUME NEW misses, r = [dict EXCEPT !.misses = misses]
          PROVE  r = [dict EXCEPT !.hits = dict.hits, !.misses = misses]
      BY <1>1, <2>4 DEF DictTypes
    <2> QED BY <2>1, <2>2, <2>3, <2>4
  <1> HIDE DEF r
  <1>3. r = [state |-> dict.state, block |-> dict.block, index |-> dict.index,
             by_id |-> dict.by_id, preds |-> dict.preds, syncs |-> dict.syncs,
             left |-> dict.left, limit |-> dict.limit, free_count |-> dict.free_count,
             hits |-> hits, misses |-> misses]
    BY <1>1, <1>2 DEF DictTypes
  <1>4. r \in DictTypes(r)
    BY <1>1, <1>3 DEF DictTypes
  <1>5. InRange(r)
    BY <1>3 DEF Good, DictOK, InRange
  <1>6. Covers(r, f)
    BY <1>3 DEF Good, Covers
  <1>7. Good(r, f)
    BY <1>4, <1>5, <1>6 DEF Good, DictOK
  <1> QED BY <1>7 DEF r


(* What update_lemma does to a lemma it finds: a new score for the entry, and
   the lemma queued for sync. *)
LEMMA UpdateScore ==
    ASSUME NEW dict, NEW f, Good(dict, f), NEW id, NEW delta \in Nat,
           NEW selected \in BOOLEAN, NEW week \in Nat,
           NEW k \in 1..Len(dict.index),
           k = LocateInOffsets(dict, dict.block[dict.by_id[id]])
    PROVE  \E score \in Score :
              UpdateLemma(dict, id, delta, selected, week) =
                  QueueLemmaForSync(Scored(dict, k, score),
                                    dict.index[k].id)
  <1> DEFINE old   == dict.index[k].score
             count == UpdatedCount(ExtractFreq(old), delta)
             wk    == IF selected THEN week ELSE ExtractWeek(old)
             score == BuildScore(wk, count)
  <1>1. DictOK(dict) /\ Len(dict.index) \in Nat
    BY SegmentsOfIndex DEF Good
  <1>2. dict.index[k] \in [off : Nat, rm : BOOLEAN, score : Score, id : Nat]
    BY <1>1, ElementOfSeq DEF DictOK, DictTypes
  <1>3. old \in Nat
    BY <1>2 DEF Score
  <1> HIDE DEF old
  <1>4. ExtractFreq(old) \in Nat /\ ExtractWeek(old) \in Nat
    BY <1>3 DEF ExtractFreq, ExtractWeek
  <1>5. count \in Nat /\ wk \in Nat
    BY <1>4 DEF UpdatedCount, MaxFrequency
  <1> HIDE DEF count, wk
  <1>6. score \in Score
    BY <1>5, BuildScoreFits
  <1>7. k # 0
    BY <1>1
  <1>8. UpdateLemma(dict, id, delta, selected, week) =
            QueueLemmaForSync(Scored(dict, k, score),
                              dict.index[k].id)
    BY <1>7 DEF UpdateLemma, Scored, score, count, wk, old
  <1> HIDE DEF score
  <1> QED BY <1>6, <1>8

(* update_lemma. *)
LEMMA UpdateGood ==
    ASSUME NEW dict, NEW f, Good(dict, f), NEW id, NEW delta \in Nat,
           NEW selected \in BOOLEAN, NEW week \in Nat
    PROVE  Good(UpdateLemma(dict, id, delta, selected, week), f)
  <1> DEFINE k == LocateInOffsets(dict, dict.block[dict.by_id[id]])
  <1>1. Len(dict.index) \in Nat /\ k \in 0..Len(dict.index)
    BY LocateRange, SegmentsOfIndex DEF Good
  <1>2. CASE k = 0
    BY <1>2 DEF UpdateLemma
  <1>3. CASE k # 0
    <2>1. k \in 1..Len(dict.index)
      BY <1>1, <1>3
    <2> DEFINE u == UpdateLemma(dict, id, delta, selected, week)
    <2>2. \E score \in Score : u = QueueLemmaForSync(Scored(dict, k, score), dict.index[k].id)
      BY <2>1, UpdateScore, SMTT(30)
    <2> HIDE DEF k, u
    <2> PICK score \in Score : u = QueueLemmaForSync(Scored(dict, k, score), dict.index[k].id)
      BY <2>2
    <2> DEFINE r == Scored(dict, k, score)
    <2>3. Good(r, f) /\ r.state >= SYNC_DIRTY /\ Len(r.index) = Len(dict.index)
      BY <2>1, ScoreGood
    <2>4. dict.index[k].id \in 1..Len(dict.index)
      BY <2>1 DEF Good, DictOK, InRange
    <2> HIDE DEF r
    <2>5. Good(QueueLemmaForSync(r, dict.index[k].id), f)
      BY <2>3, <2>4, QueueGood
    <2> QED BY <2>5 DEF r, u
  <1> QED BY <1>2, <1>3

(* remove_lemma. *)
LEMMA RemoveLemmaGood ==
    ASSUME NEW dict, NEW f, Good(dict, f), NEW id
    PROVE  Good(RemoveLemma(dict, id), f)
  <1> DEFINE k == LocateInOffsets(dict, dict.block[dict.by_id[id]])
  <1>1. Len(dict.index) \in Nat /\ k \in 0..Len(dict.index)
    BY LocateRange, SegmentsOfIndex DEF Good
  <1>2. CASE k = 0
    BY <1>2 DEF RemoveLemma
  <1>3. CASE k # 0
    <2> HIDE DEF k
    <2>1. k \in 1..Len(dict.index)
      BY <1>1, <1>3
    <2>2. RemoveLemma(dict, id) = RemoveLemmaByOffsetIndex(dict, k)
      BY <1>3 DEF RemoveLemma, k
    <2> QED BY <2>1, <2>2, RemoveGood
  <1> QED BY <1>2, <1>3

(* _put_lemma, with the flush that makes room. *)
LEMMA PutGood ==
    ASSUME NEW dict, NEW f, Good(dict, f), NEW w \in Lemmas, NEW count \in Nat, NEW week \in Nat
    PROVE  LET r == PutLemma(dict, f, w, count, week) IN Good(r.d, r.file)
  <1> DEFINE k     == LocateInOffsets(dict, w)
             score == BuildScore(week, count)
             room  == IF NoRoom(dict) THEN FlushCache(dict, f, dict.syncs)
                                       ELSE [d |-> dict, file |-> f]
             added == AppendALemma(room.d, w, score)
             r     == PutLemma(dict, f, w, count, week)
  <1>1. score \in Score
    BY BuildScoreFits
  <1>2. Len(dict.index) \in Nat /\ k \in 0..Len(dict.index)
    BY LocateRange, SegmentsOfIndex DEF Good
  <1> HIDE DEF score, k
  <1>3. CASE k # 0
    <2>1. k \in 1..Len(dict.index)
      BY <1>2, <1>3
    <2>2. r = [d |-> Scored(dict, k, score),
               file |-> f]
      BY <1>3 DEF PutLemma, Scored, k, score
    <2>3. Good(Scored(dict, k, score), f)
      BY <1>1, <2>1, ScoreGood
    <2> QED BY <2>2, <2>3
  <1>4. CASE k = 0 /\ LimitReached(dict)
    BY <1>4 DEF PutLemma, k
  <1>5. CASE k = 0 /\ ~LimitReached(dict)
    <2>1. Good(room.d, room.file) /\ room.d.left # 0
      <3>1. CASE NoRoom(dict)
        <4>1. PreAlloc # 0
          OBVIOUS
        <4> QED BY <3>1, <4>1, FlushGood
      <3>2. CASE ~NoRoom(dict)
        BY <3>2 DEF NoRoom
      <3> QED BY <3>1, <3>2
    <2>2. r = [d |-> QueueLemmaForSync(added, Len(added.index)), file |-> room.file]
      BY <1>5 DEF PutLemma, k, score
    <2> HIDE DEF room
    <2>3. /\ Good(added, room.file)
          /\ added.state = LEMMA_DIRTY
          /\ Len(added.index) = Len(room.d.index) + 1
      BY <1>1, <2>1, AppendGood
    <2>4. Len(room.d.index) \in Nat
      BY <2>1, SegmentsOfIndex DEF Good
    <2> HIDE DEF added, r
    <2>5. added.state >= SYNC_DIRTY /\ Len(added.index) \in 1..Len(added.index)
      BY <2>3, <2>4
    <2>6. Good(QueueLemmaForSync(added, Len(added.index)), room.file)
      BY <2>3, <2>5, QueueGood
    <2> QED BY <2>2, <2>6 DEF r
  <1> QED BY <1>3, <1>4, <1>5

-----------------------------------------------------------------------------
(* The specification. *)

(* reset() writes a file that load_dict accepts. *)
LEMMA EmptyFileOK == FileOK(EmptyFile)
  <1>1. <<>> \in Seq(Lemmas) /\ <<>> \in Seq(Flagged) /\ <<>> \in Seq(Score) /\ <<>> \in Seq(Nat)
    OBVIOUS
  <1>2. NoLimit \in [count : Nat, ratio : Nat]
    BY DEF NoLimit
  <1>3. EmptyFile \in FileTypes
    BY <1>1, <1>2 DEF EmptyFile, FileTypes
  <1> QED BY <1>3 DEF EmptyFile, FileOK, Validate

(* Good is inductive. *)
THEOREM GoodInductive == Spec => []Good(d, file)
  <1>1. Init => Good(d, file)
    BY EmptyFileOK, LoadGood DEF Init
  <1>2. Good(d, file) /\ [Next]_vars => Good(d, file)'
    <2> SUFFICES ASSUME Good(d, file), [Next]_vars
                 PROVE  Good(d', file')
      OBVIOUS
    <2>1. ASSUME NEW w \in Lemmas, NEW week \in Weeks, Put(w, week)
          PROVE  Good(d', file')
      <3>1. week \in Nat /\ 1 \in Nat
        OBVIOUS
      <3> QED BY <2>1, <3>1, PutGood DEF Put
    <2>2. ASSUME NEW id \in 1..Len(d.index), NEW week \in Weeks, Update(id, week)
          PROVE  Good(d', file')
      <3>1. week \in Nat /\ 1 \in Nat /\ TRUE \in BOOLEAN
        OBVIOUS
      <3> QED BY <2>2, <3>1, UpdateGood DEF Update
    <2>3. ASSUME NEW id \in 1..Len(d.index), Remove(id)
          PROVE  Good(d', file')
      BY <2>3, RemoveLemmaGood DEF Remove
    <2>4. ASSUME NEW q \in Queries, NEW max \in Rooms, Search(q, max)
          PROVE  Good(d', file')
      BY <2>4, GetLpisGood DEF Search
    <2>5. CASE Flush
      BY <2>5, FlushGood DEF Flush
    <2>6. CASE Restart
      <3>1. FileOK(file)
        BY DEF Good
      <3>2. Accepted(file) = file
        BY <3>1 DEF Accepted, FileOK
      <3> QED BY <2>6, <3>1, <3>2, LoadGood DEF Restart
    <2>7. CASE UNCHANGED vars
      BY <2>7 DEF vars
    <2> QED BY <2>1, <2>2, <2>3, <2>4, <2>5, <2>6, <2>7 DEF Next
  <1> QED BY <1>1, <1>2, PTL DEF Spec

(* The parallel arrays of the object stay of one length and every offset and
   id within the array it points into. *)
THEOREM TypeCorrect == Spec => []TypeOK
  <1>1. Good(d, file) => TypeOK
    BY DEF Good, DictOK, TypeOK
  <1> QED BY <1>1, GoodInductive, PTL

(* Closing and loading the dictionary gives back what was in memory: the
   dirty level never claims that a segment of the file is up to date when it
   is not. *)
THEOREM ReloadCorrect == Spec => []ReloadRestores
  <1>1. ASSUME Good(d, file) PROVE ReloadRestores
    <2> DEFINE r == FlushCache(d, file, d.syncs).d
               n == Len(d.index)
    <2>1. r = Load(Image(d))
      BY <1>1, FlushGood
    <2>2. /\ DictOK(d) /\ n \in Nat
          /\ OffsetsOf(d.index) = [k \in 1..n |-> [off |-> d.index[k].off, rm |-> d.index[k].rm]]
          /\ Len(OffsetsOf(d.index)) = n
      BY <1>1, SegmentsOfIndex DEF Good, OffsetsOf
    <2> HIDE DEF r
    <2>3. /\ r.block = d.block /\ r.preds = d.preds /\ r.syncs = d.syncs
          /\ r.free_count = d.free_count
          /\ r.index = [k \in 1..n |-> [off |-> d.index[k].off, rm |-> d.index[k].rm,
                                        score |-> d.index[k].score, id |-> k]]
      <3>1. ScoresOf(d.index) = [k \in 1..n |-> d.index[k].score]
        BY DEF ScoresOf
      <3> QED BY <2>1, <2>2, <3>1 DEF Load, Image, InfoOf
    <2> DEFINE E == [off : Nat, rm : BOOLEAN, score : Score, id : Nat]
    <2>4. \A k \in 1..n : d.index[k] \in E
      BY <2>2, ElementOfSeq DEF DictOK, DictTypes
    <2>5. r.index \in [1..n -> E]
      BY <2>2, <2>3, <2>4
    <2>6. Len(r.index) = n
      <3> HIDE DEF n, E
      <3> QED BY <2>2, <2>5, FcnIsSeq
    <2>7. OffsetsOf(r.index) = OffsetsOf(d.index)
      BY <2>2, <2>3, <2>6 DEF OffsetsOf
    <2>8. ScoresOf(r.index) = ScoresOf(d.index)
      BY <2>3, <2>6 DEF ScoresOf
    <2> QED BY <2>3, <2>7, <2>8 DEF ReloadRestores, r
  <1> QED BY <1>1, GoodInductive, PTL


=============================================================================
