--------------------------- MODULE UserDictSearch ---------------------------
(***************************************************************************)
(* How the user dictionary finds a lemma (share/userdict.cpp).             *)
(*                                                                         *)
(* The lemma block is an append-only sequence: the k-th lemma of the block *)
(* is its slot k, which stands for the byte offset the code stores.  The   *)
(* index offsets_ holds one entry per lemma, removed ones included, sorted *)
(* by number of syllables and then by initial letters.  Pure operators:    *)
(* a block and an index come in, a position of the index comes out.        *)
(* Positions are 1-based here; 0 stands for the code's -1.                 *)
(***************************************************************************)
EXTENDS Integers, Sequences, FiniteSets

CONSTANTS
    Lemmas,      \* the lemmas that can be stored: [spl: full ids, str: Hanzi]
    SplInitial,  \* spelling id (full or half) -> its first letter, a number
    HalfToFull   \* half id -> the set of full ids it stands for

ASSUME SpellingsAssumption ==
    /\ SplInitial \in [DOMAIN SplInitial -> Nat]
    /\ \A h \in DOMAIN HalfToFull : \A s \in HalfToFull[h] :
          s \in DOMAIN SplInitial /\ SplInitial[s] = SplInitial[h]

Least(S) == CHOOSE x \in S : \A y \in S : x <= y

(* The record prepare_locate fills: one range of full ids and one initial
   per syllable of the query. *)
Searchable(q) ==
    [len   |-> Len(q),
     range |-> [i \in 1..Len(q) |->
                   IF q[i] \in DOMAIN HalfToFull THEN HalfToFull[q[i]] ELSE {q[i]}],
     sig   |-> [i \in 1..Len(q) |-> SplInitial[q[i]]]]

(* The order of the index: length first, then initials.  `n` is the length
   the caller passes, which locate_in_offsets does not take from the lemma. *)
FuzzyCompare(spl, n, s) ==
    LET differ == {i \in 1..n : SplInitial[spl[i]] # s.sig[i]}
    IN  IF n < s.len THEN -1
        ELSE IF n > s.len THEN 1
        ELSE IF differ = {} THEN 0
        ELSE LET i == Least(differ)
             IN  IF SplInitial[spl[i]] > s.sig[i] THEN 1 ELSE -1

IsFuzzyPrefix(spl, n, s) ==
    n >= s.len /\ \A i \in 1..s.len : SplInitial[spl[i]] = s.sig[i]

IsPrefix(spl, n, s) ==
    n >= s.len /\ \A i \in 1..s.len : spl[i] \in s.range[i]

EqualSpell(spl, n, s) ==
    n = s.len /\ \A i \in 1..n : spl[i] \in s.range[i]

LemmaAt(block, ix, k) == block[ix[k].off]

CompareAt(block, ix, k, s) ==
    LET w == LemmaAt(block, ix, k) IN FuzzyCompare(w.spl, Len(w.spl), s)

FuzzyPrefixAt(block, ix, k, s) ==
    LET w == LemmaAt(block, ix, k) IN IsFuzzyPrefix(w.spl, Len(w.spl), s)

PrefixAt(block, ix, k, s) ==
    LET w == LemmaAt(block, ix, k) IN IsPrefix(w.spl, Len(w.spl), s)

EqualAt(block, ix, k, s) ==
    LET w == LemmaAt(block, ix, k) IN EqualSpell(w.spl, Len(w.spl), s)

-----------------------------------------------------------------------------
(* A variant with a bug: it keeps going right on equality. *)
LocateFirstRightmost(block, ix, s) ==
    LET search[r \in Int \X Int] ==
            LET b     == r[1]
                e     == r[2]
                m     == (b + e) \div 2
                below == IF CompareAt(block, ix, m + 1, s) <= 0
                         THEN search[<<m + 1, e>>]
                         ELSE search[<<b, m - 1>>]
            IN  IF b > e THEN 0
                ELSE IF below # 0 THEN below
                ELSE IF FuzzyPrefixAt(block, ix, m + 1, s) THEN m + 1 ELSE 0
    IN  search[<<0, Len(ix) - 1>>]

(* locate_first_in_offsets: the answer is the LAST probe of the binary
   search that has the query's initials as a prefix, so the search below a
   probe overrides the probe itself. *)
LocateFirst(block, ix, s) ==
    LET search[r \in Int \X Int] ==
            LET b     == r[1]
                e     == r[2]
                m     == (b + e) \div 2
                below == IF CompareAt(block, ix, m + 1, s) < 0
                         THEN search[<<m + 1, e>>]
                         ELSE search[<<b, m - 1>>]
            IN  IF b > e THEN 0
                ELSE IF below # 0 THEN below
                ELSE IF FuzzyPrefixAt(block, ix, m + 1, s) THEN m + 1 ELSE 0
    IN  search[<<0, Len(ix) - 1>>]

(* The scan of locate_in_offsets over positions first..last.  An entry
   matches when its first Len(w.spl) syllables and Hanzi are those of w: the
   code compares lemma_len of them, whatever the entry's own length is.  The
   scan of a range that comes from the cache skips the fuzzy comparison. *)
ScanFor(block, ix, w, first, last, cached) ==
    LET s == Searchable(w.spl)
        n == Len(w.spl)
        inuse == {k \in 1..Len(ix) : first <= k /\ k <= last /\ ~ix[k].rm}
        same == {k \in inuse :
                    /\ EqualSpell(LemmaAt(block, ix, k).spl, n, s)
                    /\ \A i \in 1..n : LemmaAt(block, ix, k).str[i] = w.str[i]}
        stop == {k \in inuse : ~cached /\ FuzzyCompare(LemmaAt(block, ix, k).spl, n, s) # 0}
        found == {k \in same : \A j \in stop : k < j}
    IN  IF found = {} THEN 0 ELSE Least(found)

InsertPositionStrict(block, ix, w) ==      \* variant: the comparison is turned
    LET s == Searchable(w.spl)
        smaller == {k \in 1..Len(ix) : CompareAt(block, ix, k, s) < 0}
    IN  IF smaller = {} THEN 1 ELSE Least(smaller)

(* append_a_lemma inserts before the first entry that is not smaller. *)
InsertPosition(block, ix, w) ==
    LET s == Searchable(w.spl)
        notsmaller == {k \in 1..Len(ix) : CompareAt(block, ix, k, s) >= 0}
    IN  IF notsmaller = {} THEN Len(ix) + 1 ELSE Least(notsmaller)

-----------------------------------------------------------------------------
(* Order of two Hanzi strings: element by element, then by length. *)
CompareWords(a, b) ==
    LET minl   == IF Len(a) < Len(b) THEN Len(a) ELSE Len(b)
        differ == {i \in 1..minl : a[i] # b[i]}
    IN  IF differ # {}
        THEN IF a[Least(differ)] < b[Least(differ)] THEN -1 ELSE 1
        ELSE IF Len(a) < Len(b) THEN -1 ELSE IF Len(a) > Len(b) THEN 1 ELSE 0

(* locate_where_to_insert_in_predicts: 0-based insertion point in the list
   ordered by word, found by a binary search that probes offsets_ (`ix`, with
   the new lemma already in it), not the list that is searched. *)
PredictInsertPoint(block, ix, str) ==
    LET search[b \in Int, e \in Int, last \in Int] ==
            IF b > e THEN last
            ELSE LET m == (b + e) \div 2
                     c == CompareWords(LemmaAt(block, ix, m + 1).str, str)
                 IN  IF c < 0 THEN search[m + 1, e, m]
                     ELSE IF c > 0 THEN search[b, m - 1, last]
                     ELSE search[b, m - 1, m]
    IN  search[0, Len(ix) - 1, Len(ix) - 1]
=============================================================================
