-------------------------- MODULE PinyinImeProofs --------------------------
(***************************************************************************)
(* Theorems about PinyinIme, for strings, pages and candidates of any      *)
(* size and for a decoder that answers anything at all.                    *)
(***************************************************************************)
EXTENDS PinyinIme, SequenceTheorems, FiniteSetTheorems, WellFoundedInduction, TLAPS

(* info is a record with the two fields the proof looks at. *)
HasFields(i) == "len" \in DOMAIN i /\ "cursor" \in DOMAIN i

(* StatusMatchesState with what it needs to be inductive. *)
ViewOK ==
    /\ state \in {"IDLE", "INPUT", "COMPOSING"}
    /\ HasFields(info)
    /\ StatusMatchesState

-----------------------------------------------------------------------------
(* The operators of DecodingInfo keep the fields. *)

(* The edits change the fields of the record, never its shape. *)
LEMMA EditKeepsFields ==
    ASSUME NEW i, HasFields(i)
    PROVE  /\ HasFields(AddSplChar(i)) /\ HasFields(AddFirstSplChar(i))
           /\ HasFields(PrepareDeleteBeforeCursor(i))
           /\ HasFields(PrepareDeleteAfterCursor(i))
           /\ HasFields(MoveLeft(i)) /\ HasFields(MoveRight(i))
  <1>1. HasFields(AddSplChar(i)) /\ HasFields(AddFirstSplChar(i))
    BY DEF HasFields, AddSplChar, AddFirstSplChar
  <1>2. ASSUME NEW pos PROVE HasFields(PrepareDelete(i, pos))
    BY DEF HasFields, PrepareDelete, MarkSpelling, MarkChar
  <1>3. HasFields(PrepareDeleteBeforeCursor(i)) /\ HasFields(PrepareDeleteAfterCursor(i))
    BY <1>2 DEF PrepareDeleteBeforeCursor, PrepareDeleteAfterCursor
  <1>4. HasFields(MoveLeft(i)) /\ HasFields(MoveRight(i))
    BY DEF HasFields, MoveLeft, MoveRight
  <1> QED
    BY <1>1, <1>3, <1>4

(* Nor does what a search answers. *)
LEMMA UpdateKeepsFields ==
    ASSUME NEW i, NEW d, HasFields(i)
    PROVE  HasFields(UpdateForSearch(i, d))
  BY DEF HasFields, UpdateForSearch

(* show_candidate_window brings view and state together, whatever they were. *)
LEMMA ShowOK ==
    ASSUME NEW s \in {"INPUT", "COMPOSING"}, NEW i, NEW c, HasFields(i),
           ShowCandidateWindow(s, i, c)
    PROVE  ViewOK'
  <1>1. state' = s /\ status' = StatusFor(s) /\ info' = Edge(i, s)
    BY DEF ShowCandidateWindow
  <1>2. HasFields(info')
    BY <1>1 DEF HasFields, Edge
  <1>3. s = "INPUT" => info'.cursor = info'.len
    BY <1>1 DEF HasFields, Edge
  <1> QED
    BY <1>1, <1>2, <1>3 DEF ViewOK, StatusMatchesState, StatusFor, HasFields

(* Every way back to idle does. *)
LEMMA IdleOK ==
    ASSUME NEW i, ResetToIdleState(i)
    PROVE  ViewOK'
  BY DEF ResetToIdleState, ResetInfo, Blank, ViewOK, StatusMatchesState, HasFields

(* choose_and_update ends in the idle state or in a shown window. *)
LEMMA ChooseOK ==
    ASSUME ViewOK, NEW i, NEW answers, NEW chosen, HasFields(i),
           ChooseAndUpdate(i, answers, chosen)
    PROVE  ViewOK'
  <1>1. PICK d \in answers : \E after \in {UpdateForSearch(i, d)} :
            \/ ResetToIdleState(after)
            \/ ShowCandidateWindow(NextState(after), after, Offer(cands, d, after.finish))
    BY Zenon DEF ChooseAndUpdate
  <1>2. CASE ResetToIdleState(UpdateForSearch(i, d))
    BY <1>2, IdleOK
  <1>3. CASE ShowCandidateWindow(NextState(UpdateForSearch(i, d)), UpdateForSearch(i, d),
                                 Offer(cands, d, UpdateForSearch(i, d).finish))
    <2>1. NextState(UpdateForSearch(i, d)) \in {"INPUT", "COMPOSING"}
      BY DEF NextState, ViewOK
    <2> QED
      BY <1>3, <2>1, UpdateKeepsFields, ShowOK
  <1> QED
    BY <1>1, <1>2, <1>3

-----------------------------------------------------------------------------
(* A new input method is idle, and says so. *)
LEMMA InitViewOK == Init => ViewOK
  BY DEF Init, Blank, ViewOK, StatusMatchesState, HasFields

(* Every call leaves view and state in step. *)
LEMMA NextViewOK == ViewOK /\ [Next]_vars => ViewOK'
  <1> SUFFICES ASSUME ViewOK, [Next]_vars PROVE ViewOK'
    OBVIOUS
  <1> HasFields(info)
    BY DEF ViewOK
  <1>1. CASE Edit
    <2>1. CASE IdleLetter
      BY <2>1, EditKeepsFields, ChooseOK DEF IdleLetter
    <2>2. CASE Insert
      BY <2>2, EditKeepsFields, ChooseOK DEF Insert, SearchOrDelete
    <2>3. CASE Backspace
      BY <2>3, EditKeepsFields, ChooseOK DEF Backspace, SearchOrDelete
    <2>4. CASE Delete
      BY <2>4, EditKeepsFields, ChooseOK DEF Delete, SearchOrDelete
    <2> QED
      BY <1>1, <2>1, <2>2, <2>3, <2>4 DEF Edit
  <1>2. CASE Choosing
    BY <1>2, ChooseOK DEF Choosing, ChooseCandidate, ChooseCandidateInPage
  <1>3. CASE Moving
    <2>1. ASSUME NEW i, HasFields(i), EditComposing(i) PROVE ViewOK'
      BY <2>1 DEF EditComposing, StatusFor, ViewOK, StatusMatchesState
    <2>2. HasFields(Edge(info, "COMPOSING")) /\ HasFields([info EXCEPT !.cursor = 0])
          /\ HasFields([info EXCEPT !.cursor = info.len])
      BY DEF HasFields, Edge
    <2>3. CASE InputLeft \/ InputHome
      BY <2>1, <2>2, <2>3 DEF InputLeft, InputHome
    <2>4. CASE ComposeDown
      BY <2>4, ShowOK DEF ComposeDown
    <2>5. ASSUME NEW i, HasFields(i), ComposeMove(i) PROVE ViewOK'
      BY <2>5 DEF ComposeMove, ViewOK, StatusMatchesState
    <2>6. CASE ComposeLeft \/ ComposeRight \/ ComposeHome \/ ComposeEnd
      BY <2>2, <2>5, <2>6, EditKeepsFields
      DEF ComposeLeft, ComposeRight, ComposeHome, ComposeEnd
    <2> QED
      BY <1>3, <2>3, <2>4, <2>6 DEF Moving
  <1>4. CASE Turning
    <2>1. ASSUME NEW c, TurnCandidates(c) PROVE ViewOK'
      BY <2>1 DEF TurnCandidates, ViewOK, StatusMatchesState
    <2> QED
      BY <1>4, <2>1 DEF Turning, CandidateUp, CandidateDown, CandidatePageUp,
                        CandidatePageDown, SetCandidatePageSize
  <1>5. CASE Leaving
    <2>1. CASE Return
      BY <2>1, IdleOK DEF Return
    <2>2. CASE InputCommaPeriod
      BY <2>2 DEF InputCommaPeriod, ViewOK, StatusMatchesState
    <2>3. CASE Reset
      BY <2>3, IdleOK DEF Reset, ViewOK, StatusMatchesState
    <2> QED
      BY <1>5, <2>1, <2>2, <2>3 DEF Leaving, Escape, EngineReset, TriggerInputMode
  <1>6. CASE UNCHANGED vars
    BY <1>6 DEF vars, ViewOK, StatusMatchesState
  <1> QED
    BY <1>1, <1>2, <1>3, <1>4, <1>5, <1>6 DEF Next

(* The composing view edits exactly in the composing state, and the cursor is
   at the end while candidates are offered, as composing_view.h:71 describes:
   for every length of the string and whatever the decoder answers. *)
THEOREM ViewMatchesState == Spec => []StatusMatchesState
  <1>1. ViewOK => StatusMatchesState
    BY DEF ViewOK
  <1> QED
    BY InitViewOK, NextViewOK, <1>1, PTL DEF Spec

-----------------------------------------------------------------------------
(* Sequences. *)

(* A function on 1..n is a sequence of length n. *)
LEMMA FcnIsSeq ==
    ASSUME NEW S, NEW n \in Nat, NEW f \in [1..n -> S]
    PROVE  f \in Seq(S) /\ Len(f) = n
  <1>1. f \in Seq(S)
    BY SeqDef
  <1>2. Len(f) \in Nat /\ DOMAIN f = 1..Len(f)
    BY <1>1, LenProperties
  <1>3. 1..n = 1..Len(f)
    BY <1>2
  <1> QED BY <1>1, <1>2, <1>3

(* A sequence of one behind another one. *)
LEMMA OneMore ==
    ASSUME NEW S, NEW s \in Seq(S), NEW t \in Seq(S), Len(t) = 1
    PROVE  /\ s \o t \in Seq(S) /\ Len(s \o t) = Len(s) + 1
           /\ \A i \in 1..Len(s) : (s \o t)[i] = s[i]
           /\ (s \o t)[Len(s) + 1] = t[1]
  <1>1. Len(s) \in Nat
    BY LenProperties
  <1>2. s \o t \in Seq(S) /\ Len(s \o t) = Len(s) + Len(t)
    BY ConcatProperties
  <1>3. \A i \in 1..Len(s) + Len(t) : (s \o t)[i] = IF i <= Len(s) THEN s[i] ELSE t[i - Len(s)]
    BY ConcatProperties
  <1> QED BY <1>1, <1>2, <1>3

-----------------------------------------------------------------------------
(* The candidate window. *)

(* The page sizes in use. *)
Sizes == PageSizes \cup {TableSize}

(* Where pages may start, when so many candidates have been fetched. *)
StartsOK(s, cached) ==
    /\ s \in Seq(Nat) /\ Len(s) >= 1
    /\ \A p \in 1..Len(s) : s[p] <= cached
    /\ \A p \in 1..Len(s) - 1 : s[p] <= s[p + 1]

(* The table's pages are whole ones, so turning back ends at its begin. *)
TableOK(table, lit) == table \in Nat /\ lit \in Nat /\ table <= lit
                         /\ \E m \in Nat : table = m * TableSize

CandsOK(c) ==
    /\ c \in [total : Nat, cached : Nat, start : Seq(Nat), page : Nat \cup {-1}, cand : Int,
              size : Sizes, table : Nat, lit : Nat]
    /\ c.cached <= c.total
    /\ StartsOK(c.start, c.cached)
    /\ TableOK(c.table, c.lit)

(* Every page but the last one is as long as some page size. *)
Full(c) ==
    \A p \in 1..Len(c.start) - 1 :
        c.start[p + 1] < c.total => c.start[p + 1] - c.start[p] \in Sizes

(* Page p is known, or there is enough for it. *)
Ready(c, p) ==
    Len(c.start) = p + 1 => c.cached = c.total \/ c.cached - c.start[p + 1] >= FetchMax

(* No page size exceeds what is fetched at a time. *)
LEMMA SizesFetched == \A n \in Sizes : n \in Nat /\ 0 < n /\ n <= FetchMax
  BY ImeAssumption, PagesAssumption DEF Sizes

(* The range that calculate_page adds, when page p is known. *)
LEMMA NothingMissing ==
    ASSUME NEW n \in Nat, NEW p \in Nat, n >= p + 2
    PROVE  1..(p + 2 - n) = {}
  OBVIOUS

(* calculate_page adds no page or one. *)
LEMMA CalculatePageIs ==
    ASSUME NEW c, CandsOK(c), NEW p \in Nat, Len(c.start) >= p + 1
    PROVE  \E s \in Seq(Nat) :
              /\ CalculatePage(c, p) = [c EXCEPT !.start = s]
              /\ Len(c.start) >= p + 2 => s = c.start
              /\ Len(c.start) = p + 1 =>
                    /\ Len(s) = p + 2
                    /\ \A i \in 1..p + 1 : s[i] = c.start[i]
                    /\ s[p + 2] = Smaller(c.start[p + 1] + c.size, c.cached)
  <1> DEFINE n == Len(c.start)
             e(k) == Smaller(c.start[n] + k * c.size, c.cached)
             m == p + 2 - n
             f == [k \in 1..m |-> e(k)]
             s == c.start \o f
  <1>1. /\ c.start \in Seq(Nat) /\ n \in Nat /\ n >= 1 /\ c.start[n] \in Nat
        /\ c.size \in Nat /\ c.cached \in Nat
    <2>1. c.start \in Seq(Nat) /\ c.size \in Sizes /\ c.cached \in Nat /\ Len(c.start) >= 1
      BY DEF CandsOK, StartsOK
    <2>2. n \in Nat
      BY <2>1, LenProperties
    <2> QED BY <2>1, <2>2, ElementOfSeq, SizesFetched
  <1>2. CalculatePage(c, p) = [c EXCEPT !.start = s]
    BY DEF CalculatePage
  <1>3. CASE n >= p + 2
    <2>1. 1..m = {}
      BY <1>1, <1>3, NothingMissing
    <2> HIDE DEF m, e
    <2>3. f = <<>>
      BY <2>1
    <2>4. s = c.start
      BY <1>1, <2>3, ConcatEmptySeq
    <2>5. n # p + 1
      BY <1>1, <1>3
    <2> QED BY <1>1, <1>2, <2>4, <2>5
  <1>4. CASE n = p + 1
    <2>1. m = 1
      BY <1>1, <1>4
    <2>2. e(1) = Smaller(c.start[p + 1] + c.size, c.cached) /\ e(1) \in Nat
      BY <1>1, <1>4 DEF Smaller
    <2> HIDE DEF m, e, s
    <2>3. f \in [1..1 -> Nat] /\ f[1] = e(1)
      BY <2>1, <2>2
    <2>4. f \in Seq(Nat) /\ Len(f) = 1
      BY <2>3, FcnIsSeq
    <2>5. /\ c.start \o f \in Seq(Nat) /\ Len(c.start \o f) = n + 1
          /\ \A i \in 1..n : (c.start \o f)[i] = c.start[i]
          /\ (c.start \o f)[n + 1] = f[1]
      <3> HIDE DEF f
      <3> QED BY <1>1, <2>4, OneMore
    <2>6. /\ s \in Seq(Nat) /\ Len(s) = n + 1
          /\ s[n + 1] = e(1) /\ \A i \in 1..n : s[i] = c.start[i]
      <3> HIDE DEF n, f
      <3> QED BY <2>3, <2>5 DEF s
    <2> HIDE DEF f
    <2>7. n + 1 = p + 2 /\ ~(n >= p + 2)
      BY <1>1, <1>4
    <2> HIDE DEF n
    <2> QED BY <1>2, <1>4, <2>2, <2>6, <2>7 DEF n
  <1> QED BY <1>1, <1>3, <1>4

(* The page added is no shorter than the one before it, and nothing is shown
   that was not fetched. *)
LEMMA StartsGrow ==
    ASSUME NEW cached \in Nat, NEW t, StartsOK(t, cached), NEW n \in Nat, n = Len(t),
           NEW size \in Nat, NEW s \in Seq(Nat), Len(s) = n + 1,
           \A i \in 1..n : s[i] = t[i], s[n + 1] = Smaller(t[n] + size, cached)
    PROVE  StartsOK(s, cached)
  <1>1. /\ t \in Seq(Nat) /\ n >= 1
        /\ \A p \in 1..n : t[p] <= cached
        /\ \A p \in 1..n - 1 : t[p] <= t[p + 1]
    BY DEF StartsOK
  <1>2. t[n] \in Nat /\ t[n] <= cached
    BY <1>1, ElementOfSeq
  <1>3. s[n + 1] <= cached /\ t[n] <= s[n + 1]
    BY <1>2 DEF Smaller
  <1>4. \A p \in 1..n + 1 : s[p] <= cached
    <2> TAKE p \in 1..n + 1
    <2>1. CASE p \in 1..n
      BY <1>1, <2>1
    <2>2. CASE p = n + 1
      BY <1>3, <2>2
    <2> QED BY <2>1, <2>2
  <1>5. \A p \in 1..n : s[p] <= s[p + 1]
    <2> TAKE p \in 1..n
    <2>1. CASE p \in 1..n - 1
      <3>1. p + 1 \in 1..n
        BY <2>1
      <3> QED BY <1>1, <2>1, <3>1
    <2>2. CASE p = n
      BY <1>3, <2>2
    <2> QED BY <2>1, <2>2
  <1> QED BY <1>1, <1>4, <1>5 DEF StartsOK

(* An added page that does not end the candidates is a whole one. *)
LEMMA FullGrows ==
    ASSUME NEW c, NEW d, Full(c), NEW n \in Nat, n = Len(c.start), n >= 1,
           Len(d.start) = n + 1, d.total = c.total,
           c.total \in Nat, c.cached \in Nat, c.start[n] \in Nat,
           c.size \in Sizes, c.size \in Nat,
           \A i \in 1..n : d.start[i] = c.start[i],
           d.start[n + 1] = Smaller(c.start[n] + c.size, c.cached),
           c.cached = c.total \/ c.cached - c.start[n] >= c.size
    PROVE  Full(d)
  <1> SUFFICES ASSUME NEW p \in 1..n, d.start[p + 1] < d.total
               PROVE  d.start[p + 1] - d.start[p] \in Sizes
    BY DEF Full
  <1>1. CASE p \in 1..n - 1
    <2>1. p + 1 \in 1..n
      BY <1>1
    <2>2. d.start[p + 1] = c.start[p + 1] /\ d.start[p] = c.start[p]
      BY <2>1
    <2> QED BY <1>1, <2>2 DEF Full
  <1>2. CASE p = n
    <2>1. d.start[n] = c.start[n] /\ d.start[n + 1] < c.total
      BY <1>2
    <2>2. d.start[n + 1] = c.start[n] + c.size
      <3>1. \A a, b, k, t \in Nat :
               (k = t \/ k - a >= b) /\ Smaller(a + b, k) < t => Smaller(a + b, k) = a + b
        BY DEF Smaller
      <3>2. Smaller(c.start[n] + c.size, c.cached) < c.total
        BY <2>1, Zenon
      <3> QED BY <3>1, <3>2, ZenonT(40)
    <2>3. (c.start[n] + c.size) - c.start[n] = c.size
      <3>1. \A a, b \in Nat : (a + b) - a = b
        OBVIOUS
      <3> QED BY <3>1, Zenon
    <2>4. d.start[n + 1] - d.start[n] = c.size
      BY <2>1, <2>2, <2>3, Zenon
    <2> QED BY <1>2, <2>4
  <1> QED BY <1>1, <1>2

(* What the record of the candidate window keeps when pages are added and the
   cursor is placed. *)
LEMMA CandsStart ==
    ASSUME NEW c, CandsOK(c), NEW s, StartsOK(s, c.cached), NEW p \in Nat, NEW cand \in Int
    PROVE  CandsOK([[c EXCEPT !.start = s] EXCEPT !.page = p, !.cand = cand])
  BY DEF CandsOK, StartsOK

(* show_page, of a known page or the one after the last known. *)
LEMMA ShowPageIs ==
    ASSUME NEW c, CandsOK(c), NEW p \in Nat, Len(c.start) >= p + 1, NEW cand \in Int
    PROVE  LET r == ShowPage(c, p, cand)
           IN  /\ CandsOK(r)
               /\ r.page = p /\ Len(r.start) >= p + 2
               /\ r.total = c.total /\ r.cached = c.cached /\ r.table = c.table /\ r.lit = c.lit
               /\ Full(c) /\ Ready(c, p) => Full(r)
  <1> DEFINE r == ShowPage(c, p, cand)
             n == Len(c.start)
  <1>1. /\ c.start \in Seq(Nat) /\ n \in Nat /\ c.start[n] \in Nat /\ n >= 1
        /\ c.size \in Sizes /\ c.size \in Nat /\ c.size <= FetchMax
        /\ c.cached \in Nat /\ c.total \in Nat /\ StartsOK(c.start, c.cached)
        /\ FetchMax \in Nat
    <2>1. c.start \in Seq(Nat) /\ c.size \in Sizes /\ n >= 1 /\ StartsOK(c.start, c.cached)
          /\ c.cached \in Nat /\ c.total \in Nat
      BY DEF CandsOK, StartsOK
    <2>2. n \in Nat
      BY <2>1, LenProperties
    <2> QED BY <2>1, <2>2, ElementOfSeq, SizesFetched, PagesAssumption
  <1>2. PICK s \in Seq(Nat) :
              /\ CalculatePage(c, p) = [c EXCEPT !.start = s]
              /\ n >= p + 2 => s = c.start
              /\ n = p + 1 =>
                    /\ Len(s) = p + 2
                    /\ \A i \in 1..p + 1 : s[i] = c.start[i]
                    /\ s[p + 2] = Smaller(c.start[p + 1] + c.size, c.cached)
    BY CalculatePageIs
  <1>3. n >= p + 2 \/ n = p + 1
    <2>1. n \in Nat /\ n >= p + 1
      BY <1>1
    <2> HIDE DEF n
    <2> QED BY <2>1
  <1>4. StartsOK(s, c.cached) /\ Len(s) >= p + 2
    <2>1. CASE n >= p + 2
      BY <1>1, <1>2, <2>1
    <2>2. CASE n = p + 1
      <3>1. Len(s) = n + 1 /\ p + 2 = n + 1 /\ \A i \in 1..n : s[i] = c.start[i]
        BY <1>2, <2>2
      <3>2. s[n + 1] = Smaller(c.start[n] + c.size, c.cached)
        BY <1>2, <2>2, <3>1
      <3>3. StartsOK(s, c.cached)
        <4> HIDE DEF n
        <4> QED BY <1>1, <3>1, <3>2, StartsGrow, ZenonT(40) DEF n
      <3> QED BY <1>1, <3>1, <3>3
    <2> QED BY <1>3, <2>1, <2>2
  <1>5. \E q \in Int : r = [[c EXCEPT !.start = s] EXCEPT !.page = p, !.cand = q]
    <2>1. CalculatePage(c, p) = [c EXCEPT !.start = s]
      BY <1>2
    <2>2. CurrentPageSize([c EXCEPT !.start = s], p) \in Int
      <3>1. [c EXCEPT !.start = s].start = s
        BY DEF CandsOK
      <3>2. \A i \in 1..Len(s) : s[i] \in Nat
        BY <1>4, ElementOfSeq
      <3>3. Len(s) > p + 1 => p + 1 \in 1..Len(s) /\ p + 2 \in 1..Len(s)
        BY <1>4, LenProperties
      <3>4. Len(s) > p + 1 => s[p + 2] - s[p + 1] \in Int
        BY <3>2, <3>3
      <3> QED BY <3>1, <3>4 DEF CurrentPageSize, PageReady
    <2>3. r = [[c EXCEPT !.start = s] EXCEPT !.page = p,
                 !.cand = IF CurrentPageSize([c EXCEPT !.start = s], p) < cand
                          THEN CurrentPageSize([c EXCEPT !.start = s], p) - 1 ELSE cand]
      BY <2>1 DEF ShowPage
    <2>4. (IF CurrentPageSize([c EXCEPT !.start = s], p) < cand
           THEN CurrentPageSize([c EXCEPT !.start = s], p) - 1 ELSE cand) \in Int
      BY <2>2
    <2> QED BY <2>3, <2>4
  <1>6. PICK q \in Int : r = [[c EXCEPT !.start = s] EXCEPT !.page = p, !.cand = q]
    BY <1>5
  <1> HIDE DEF r
  <1>7. CandsOK(r)
    BY <1>4, <1>6, CandsStart
  <1>8. /\ r.page = p /\ r.start = s /\ r.total = c.total /\ r.cached = c.cached
        /\ r.table = c.table /\ r.lit = c.lit
    BY <1>6 DEF CandsOK
  <1>9. ASSUME Full(c), Ready(c, p) PROVE Full(r)
    <2>1. CASE n >= p + 2
      BY <1>2, <1>8, <1>9, <2>1 DEF Full
    <2>2. CASE n = p + 1
      <3>1. Len(r.start) = n + 1 /\ \A i \in 1..n : r.start[i] = c.start[i]
        BY <1>2, <1>8, <2>2
      <3>2. r.start[n + 1] = Smaller(c.start[n] + c.size, c.cached)
        <4>1. p + 2 = n + 1
          BY <2>2
        <4> QED BY <1>2, <1>8, <2>2, <4>1
      <3>3. c.cached = c.total \/ c.cached - c.start[n] >= c.size
        <4>1. c.cached = c.total \/ c.cached - c.start[n] >= FetchMax
          BY <1>9, <2>2 DEF Ready
        <4> QED BY <1>1, <4>1, SMTT(30)
      <3> HIDE DEF n
      <3> QED BY <1>1, <1>8, <1>9, <3>1, <3>2, <3>3, FullGrows DEF n
    <2> QED BY <1>3, <2>1, <2>2
  <1> QED BY <1>4, <1>7, <1>8, <1>9 DEF r

(* What page turns and cursor moves leave alone. *)
SamePages(c, d) ==
    /\ d.start = c.start /\ d.total = c.total /\ d.cached = c.cached /\ d.page = c.page

-----------------------------------------------------------------------------
(* SCIM's table. *)

(* The first row is a page's, and so are the rows a page away from one. *)
LEMMA WholePages ==
    /\ TableOK(0, 0)
    /\ \A t, l : TableOK(t, l) => TableOK(t + TableSize, l + TableSize)
    /\ \A t, l : TableOK(t, l) /\ t > 0 => TableOK(t - TableSize, l - TableSize)
  <1> TableSize \in Nat /\ TableSize > 0
    BY PagesAssumption
  <1>1. TableOK(0, 0)
    <2>1. 0 = 0 * TableSize
      OBVIOUS
    <2> QED BY <2>1 DEF TableOK
  <1>2. ASSUME NEW t, NEW l, TableOK(t, l) PROVE TableOK(t + TableSize, l + TableSize)
    <2>1. t \in Nat /\ l \in Nat /\ t <= l
      BY <1>2 DEF TableOK
    <2>2. PICK m \in Nat : t = m * TableSize
      BY <1>2 DEF TableOK
    <2>3. t + TableSize = (m + 1) * TableSize /\ m + 1 \in Nat
      BY <2>2
    <2>4. t + TableSize \in Nat /\ l + TableSize \in Nat /\ t + TableSize <= l + TableSize
      BY <2>1
    <2> QED BY <2>3, <2>4 DEF TableOK
  <1>3. ASSUME NEW t, NEW l, TableOK(t, l), t > 0 PROVE TableOK(t - TableSize, l - TableSize)
    <2>1. t \in Nat /\ l \in Nat /\ t <= l
      BY <1>3 DEF TableOK
    <2>2. PICK m \in Nat : t = m * TableSize
      BY <1>3 DEF TableOK
    <2>3. m # 0
      BY <1>3, <2>2
    <2>4. t - TableSize = (m - 1) * TableSize /\ m - 1 \in Nat
      BY <2>2, <2>3
    <2>5. \A a, b \in Nat : a * b \in Nat
      OBVIOUS
    <2>6. t - TableSize \in Nat
      BY <2>4, <2>5
    <2>7. l - TableSize \in Nat /\ t - TableSize <= l - TableSize
      BY <2>1, <2>6
    <2> QED BY <2>4, <2>6, <2>7 DEF TableOK
  <1> QED BY <1>1, <1>2, <1>3

(* Moving the table's page alone changes no candidate. *)
LEMMA CandsTable ==
    ASSUME NEW c, CandsOK(c), NEW t, NEW l, TableOK(t, l)
    PROVE  LET d == [c EXCEPT !.table = t, !.lit = l] IN CandsOK(d) /\ SamePages(c, d)
  BY DEF CandsOK, TableOK, SamePages

(* A call of the table moves its page by whole ones, its cursor inside of it. *)
LEMMA TableMoves ==
    ASSUME NEW c, CandsOK(c),
           NEW d \in {TablePageDown(c), TablePageUp(c), TableCursorUp(c), TableCursorDown(c),
                      TableClear(c)}
    PROVE  CandsOK(d) /\ SamePages(c, d)
  <1> SUFFICES \/ d = c
               \/ \E t, l : TableOK(t, l) /\ d = [c EXCEPT !.table = t, !.lit = l]
    <2>1. CandsOK(c) /\ SamePages(c, c)
      BY DEF SamePages
    <2>2. ASSUME NEW t, NEW l, TableOK(t, l), d = [c EXCEPT !.table = t, !.lit = l]
          PROVE  CandsOK(d) /\ SamePages(c, d)
      BY <2>2, CandsTable
    <2> QED BY <2>1, <2>2, Zenon
  <1>1. /\ TableOK(c.table, c.lit) /\ c.table \in Nat /\ c.lit \in Nat /\ c.table <= c.lit
        /\ c.total \in Nat /\ TableSize \in Nat /\ TableSize > 0
    BY PagesAssumption DEF CandsOK, TableOK
  <1>2. CASE d = TableClear(c)
    BY <1>2, WholePages DEF TableClear
  <1>3. CASE d = TablePageUp(c)
    BY <1>1, <1>3, WholePages DEF TablePageUp
  <1>4. CASE d = TablePageDown(c)
    <2>1. CASE c.table + TableSize < c.total
      <3> DEFINE l == Smaller(c.lit + TableSize, c.total - 1)
      <3>1. l \in Nat /\ c.table + TableSize <= l
        BY <1>1, <2>1 DEF Smaller
      <3>2. TableOK(c.table + TableSize, l)
        BY <1>1, <3>1, WholePages DEF TableOK
      <3>3. d = [c EXCEPT !.table = c.table + TableSize, !.lit = l]
        BY <1>4, <2>1 DEF TablePageDown
      <3> QED BY <3>2, <3>3
    <2> QED BY <1>4, <2>1 DEF TablePageDown
  <1>5. CASE d = TableCursorUp(c)
    <2>1. CASE c.lit # 0
      <3>1. CASE c.lit = c.table
        <4>1. TableOK(c.table - TableSize, c.lit - TableSize)
          BY <1>1, <2>1, <3>1, WholePages
        <4>2. TableOK(c.table - TableSize, c.lit - 1)
          <5>1. c.table - TableSize \in Nat /\ \E m \in Nat : c.table - TableSize = m * TableSize
            BY <4>1 DEF TableOK
          <5>2. c.lit - 1 \in Nat /\ c.table - TableSize <= c.lit - 1
            BY <1>1, <2>1
          <5> QED BY <5>1, <5>2 DEF TableOK
        <4>3. d = [c EXCEPT !.table = c.table - TableSize, !.lit = c.lit - 1]
          BY <1>5, <2>1, <3>1 DEF TableCursorUp, CandsOK
        <4> QED BY <4>2, <4>3
      <3>2. CASE c.lit # c.table
        <4>1. TableOK(c.table, c.lit - 1)
          BY <1>1, <2>1, <3>2 DEF TableOK
        <4>2. d = [c EXCEPT !.table = c.table, !.lit = c.lit - 1]
          BY <1>5, <2>1, <3>2 DEF TableCursorUp, CandsOK
        <4> QED BY <4>1, <4>2
      <3> QED BY <3>1, <3>2
    <2> QED BY <1>5, <2>1 DEF TableCursorUp
  <1>6. CASE d = TableCursorDown(c)
    <2>1. CASE c.lit + 1 < c.total
      <3>1. CASE c.lit + 1 = c.table + TableSize
        <4>1. TableOK(c.table + TableSize, c.lit + 1)
          BY <1>1, <3>1, WholePages DEF TableOK
        <4>2. ~(c.lit + 1 >= c.total)
          BY <1>1, <2>1
        <4> QED BY <1>6, <3>1, <4>1, <4>2 DEF TableCursorDown
      <3>2. CASE c.lit + 1 # c.table + TableSize
        <4>1. TableOK(c.table, c.lit + 1)
          BY <1>1 DEF TableOK
        <4>2. ~(c.lit + 1 >= c.total)
          BY <1>1, <2>1
        <4>3. d = [c EXCEPT !.table = c.table, !.lit = c.lit + 1]
          BY <1>6, <3>2, <4>2 DEF TableCursorDown, CandsOK
        <4> QED BY <4>1, <4>3
      <3> QED BY <3>1, <3>2
    <2>2. CASE ~(c.lit + 1 < c.total)
      <3>1. c.lit + 1 >= c.total
        BY <1>1, <2>2
      <3> QED BY <1>6, <3>1 DEF TableCursorDown
    <2> QED BY <2>1, <2>2
  <1> QED BY <1>2, <1>3, <1>4, <1>5, <1>6

-----------------------------------------------------------------------------
(* prepare_page fetches enough for a page, and changes nothing else. *)
LEMMA PreparePageIs ==
    ASSUME NEW c, CandsOK(c), NEW p \in Nat, Len(c.start) >= p + 1
    PROVE  LET r == PreparePage(c, p)
           IN  /\ CandsOK(r) /\ Ready(r, p)
               /\ r.start = c.start /\ r.total = c.total /\ r.page = c.page /\ r.cand = c.cand
               /\ c.cached <= r.cached
               /\ Len(c.start) = p + 1 /\ c.start[p + 1] < c.total => c.start[p + 1] < r.cached
               /\ Full(c) => Full(r)
  <1> DEFINE r == PreparePage(c, p)
             g == GetCandidatesForCache(c)
             k == c.cached + Smaller(c.total - c.cached, FetchMax)
  <1>1. /\ c.start \in Seq(Nat) /\ c.cached \in Nat /\ c.total \in Nat /\ c.cached <= c.total
        /\ FetchMax \in Nat /\ FetchMax > 0 /\ StartsOK(c.start, c.cached)
    BY PagesAssumption DEF CandsOK, StartsOK
  <1>2. k \in Nat /\ c.cached <= k /\ k <= c.total /\ (k = c.total \/ k = c.cached + FetchMax)
    BY <1>1 DEF Smaller
  <1>3. StartsOK(c.start, k)
    <2>1. \A q \in 1..Len(c.start) : c.start[q] \in Nat /\ c.start[q] <= c.cached
      BY <1>1, ElementOfSeq DEF StartsOK
    <2>2. \A q \in 1..Len(c.start) : c.start[q] <= k
      <3> HIDE DEF k
      <3> QED BY <1>1, <1>2, <2>1
    <2> QED BY <1>1, <2>2 DEF StartsOK
  <1>4. g = [c EXCEPT !.cached = k]
    BY DEF GetCandidatesForCache
  <1>5. g.cached = k /\ g.start = c.start /\ g.total = c.total /\ g.page = c.page /\ g.cand = c.cand
    <2> HIDE DEF g, k
    <2> QED BY <1>4 DEF CandsOK
  <1>6. CandsOK(g)
    <2> HIDE DEF g, k
    <2> QED BY <1>2, <1>3, <1>4 DEF CandsOK
  <1>7. Full(c) => Full(g)
    <2> HIDE DEF g
    <2> QED BY <1>5 DEF Full
  <1>8. Len(c.start) = p + 1 => c.start[p + 1] \in Nat /\ c.start[p + 1] <= c.cached
    BY <1>1, ElementOfSeq DEF StartsOK
  <1>9. CASE Len(c.start) = p + 1 /\ c.cached - c.start[p + 1] < FetchMax
    <2>1. r = g
      BY <1>9 DEF PreparePage
    <2>2. k = c.total \/ k - c.start[p + 1] >= FetchMax
      <3> HIDE DEF k
      <3> QED BY <1>1, <1>2, <1>8, <1>9
    <2>3. c.start[p + 1] < c.total => c.start[p + 1] < k
      <3> HIDE DEF k
      <3> QED BY <1>1, <1>2, <1>8, <1>9
    <2> HIDE DEF g, k, r
    <2> QED BY <1>2, <1>5, <1>6, <1>7, <1>9, <2>1, <2>2, <2>3 DEF Ready, r
  <1>10. CASE ~(Len(c.start) = p + 1 /\ c.cached - c.start[p + 1] < FetchMax)
    <2>1. r = c
      BY <1>10 DEF PreparePage
    <2>2. Len(c.start) = p + 1 => c.cached - c.start[p + 1] >= FetchMax /\ c.start[p + 1] < c.cached
      BY <1>1, <1>8, <1>10
    <2> HIDE DEF r
    <2> QED BY <1>1, <2>1, <2>2 DEF Ready, r
  <1> QED BY <1>9, <1>10

-----------------------------------------------------------------------------
(* Turning the pages. *)

(* A page is on show, and its end is known. *)
ShownOK(c) == CandsOK(c) /\ c.page \in Nat /\ Len(c.start) >= c.page + 2

(* What a turn from c to d may change. *)
Turned(c, d) ==
    ShownOK(d) /\ d.total = c.total /\ c.cached <= d.cached /\ (Full(c) => Full(d))

(* Pages with the same candidates are as full and as ready as each other. *)
LEMMA SameFull ==
    ASSUME NEW c, NEW d, SamePages(c, d)
    PROVE  /\ Full(c) => Full(d)
           /\ \A p : Ready(c, p) => Ready(d, p)
  BY DEF SamePages, Full, Ready

(* show_page, and then a call of the table. *)
LEMMA ShowThenTable ==
    ASSUME NEW c, CandsOK(c), NEW p \in Nat, Len(c.start) >= p + 1, Ready(c, p), NEW cand \in Int,
           NEW s, s = ShowPage(c, p, cand),
           NEW d \in {TablePageDown(s), TablePageUp(s), TableCursorUp(s), TableCursorDown(s),
                      TableClear(s)}
    PROVE  Turned(c, d) /\ d.page = p
  <1>1. /\ CandsOK(s) /\ s.page = p /\ Len(s.start) >= p + 2
        /\ s.total = c.total /\ s.cached = c.cached /\ (Full(c) => Full(s))
    BY ShowPageIs
  <1>2. CandsOK(d) /\ SamePages(s, d)
    BY <1>1, TableMoves
  <1>3. Full(s) => Full(d)
    BY <1>2, SameFull
  <1>4. d.cached = c.cached /\ c.cached \in Nat
    BY <1>1, <1>2 DEF SamePages, CandsOK
  <1> QED BY <1>1, <1>2, <1>3, <1>4 DEF Turned, ShownOK, SamePages

(* page_up turns to a page that is there. *)
LEMMA PageUpIs ==
    ASSUME NEW c, ShownOK(c)
    PROVE  Turned(c, PageUp(c))
  <1>1. CASE c.page = 0
    BY <1>1 DEF PageUp, Turned, ShownOK, CandsOK
  <1>2. CASE c.page # 0
    <2> DEFINE p == c.page - 1
    <2>1. p \in Nat /\ Len(c.start) >= p + 1 /\ Len(c.start) # p + 1 /\ c.cand \in Int
      BY <1>2 DEF ShownOK, CandsOK
    <2>2. Ready(c, p)
      BY <2>1 DEF Ready
    <2>3. PageUp(c) = TablePageUp(ShowPage(c, p, c.cand))
      BY <1>2 DEF PageUp
    <2>4. CandsOK(c)
      BY DEF ShownOK
    <2> HIDE DEF p
    <2> QED BY <2>1, <2>2, <2>3, <2>4, ShowThenTable
  <1> QED BY <1>1, <1>2

(* page_down turns to a page that is there, the next one if there are
   candidates left. *)
LEMMA PageDownIs ==
    ASSUME NEW c, ShownOK(c)
    PROVE  /\ Turned(c, PageDown(c))
           /\ CurrentPageStart(c, c.page + 1) < c.total => PageDown(c).page = c.page + 1
  <1> DEFINE p == c.page + 1
             ready == PreparePage(c, p)
  <1>1. CandsOK(c) /\ p \in Nat /\ Len(c.start) >= p + 1 /\ c.cand \in Int /\ p >= 0
        /\ Len(c.start) \in Nat
    BY LenProperties DEF ShownOK, CandsOK
  <1>2. /\ CandsOK(ready) /\ Ready(ready, p)
        /\ ready.start = c.start /\ ready.total = c.total /\ ready.page = c.page
        /\ ready.cand = c.cand /\ c.cached <= ready.cached
        /\ Len(c.start) = p + 1 /\ c.start[p + 1] < c.total => c.start[p + 1] < ready.cached
        /\ Full(c) => Full(ready)
    <2> HIDE DEF p
    <2> QED BY <1>1, PreparePageIs
  <1>3. CASE HasPage(c, p)
    <2>1. PageDown(c) = TablePageDown(ShowPage(ready, p, ready.cand))
      BY <1>2, <1>3 DEF PageDown
    <2>2. Turned(ready, PageDown(c)) /\ PageDown(c).page = p
      <3> HIDE DEF ready, p
      <3> QED BY <1>1, <1>2, <2>1, ShowThenTable
    <2>3. c.cached \in Nat /\ ready.cached \in Nat /\ PageDown(c).cached \in Nat
      BY <1>1, <1>2, <2>2 DEF CandsOK, Turned, ShownOK
    <2> HIDE DEF ready
    <2> QED BY <1>2, <2>2, <2>3 DEF Turned
  <1>4. CASE ~HasPage(c, p)
    <2>1. PageDown(c) = ready
      BY <1>4 DEF PageDown
    <2>2. ~(CurrentPageStart(c, p) < c.total)
      <3>1. Len(c.start) > p /\ ~(Len(c.start) < p + 1)
        <4> HIDE DEF p
        <4> QED BY <1>1
      <3>2. ~PageReady(c, p) /\ ~(c.start[p + 1] < ready.cached)
        BY <1>4, <3>1 DEF HasPage
      <3>3. Len(c.start) = p + 1
        <4> HIDE DEF p
        <4> QED BY <1>1, <3>2 DEF PageReady
      <3> QED BY <1>2, <3>1, <3>2, <3>3 DEF CurrentPageStart
    <2>3. Turned(c, ready)
      <3>1. c.page \in Nat /\ Len(c.start) >= c.page + 2
        BY DEF ShownOK
      <3> HIDE DEF ready
      <3> QED BY <1>2, <3>1 DEF Turned, ShownOK
    <2> QED BY <2>1, <2>2, <2>3
  <1> QED BY <1>3, <1>4

(* The cursor keys turn to a page that is there. *)
LEMMA CursorIs ==
    ASSUME NEW c, ShownOK(c)
    PROVE  Turned(c, CursorLeft(c)) /\ Turned(c, CursorRight(c))
  <1>1. /\ CandsOK(c) /\ c.page \in Nat /\ Len(c.start) >= c.page + 1 /\ Len(c.start) # c.page + 1
        /\ c.cand - 1 \in Int /\ c.cand + 1 \in Int
    BY SMTT(30) DEF ShownOK, CandsOK
  <1>2. Ready(c, c.page)
    BY <1>1 DEF Ready
  <1>3. Turned(c, TableCursorUp(ShowPage(c, c.page, c.cand - 1)))
    BY <1>1, <1>2, ShowThenTable
  <1>4. Turned(c, TableCursorDown(ShowPage(c, c.page, c.cand + 1)))
    BY <1>1, <1>2, ShowThenTable
  <1> QED BY <1>3, <1>4, PageUpIs, PageDownIs DEF CursorLeft, CursorRight

(* candidate_view's refresh: page 0, and the table at its begin. *)
LEMMA ShowCandidatesIs ==
    ASSUME NEW c, CandsOK(c)
    PROVE  LET d == ShowCandidates(c)
           IN  /\ ShownOK(d) /\ d.total = c.total /\ d.cached = c.cached
               /\ Full(c) /\ Ready(c, 0) => Full(d)
  <1> DEFINE t == TableClear(c)
  <1>1. CandsOK(t) /\ SamePages(c, t)
    BY TableMoves
  <1>2. Len(t.start) >= 0 + 1
    BY <1>1 DEF CandsOK, StartsOK
  <1>3. (Full(c) => Full(t)) /\ (Ready(c, 0) => Ready(t, 0))
    <2> HIDE DEF t
    <2> QED BY <1>1, SameFull
  <1> HIDE DEF t
  <1>4. LET r == ShowPage(t, 0, 0)
        IN  /\ CandsOK(r) /\ r.page = 0 /\ Len(r.start) >= 0 + 2
            /\ r.total = t.total /\ r.cached = t.cached
            /\ Full(t) /\ Ready(t, 0) => Full(r)
    BY <1>1, <1>2, ShowPageIs
  <1> QED BY <1>1, <1>3, <1>4 DEF ShowCandidates, ShownOK, SamePages, t

(* d is c with its pages reset and t candidates announced. *)
IsReset(c, d, t) == d = [c EXCEPT !.total = t, !.cached = 0, !.start = <<0>>]

(* After a reset of the candidates only the first page has a start. *)
LEMMA CandsReset ==
    ASSUME NEW c, CandsOK(c), NEW t \in Nat, NEW d, IsReset(c, d, t)
    PROVE  CandsOK(d) /\ d.total = t /\ d.cached = 0 /\ d.start = <<0>> /\ Full(d)
  <1>1. StartsOK(<<0>>, 0) /\ <<0>> \in Seq(Nat) /\ 0 \in Nat /\ 0 <= t
    BY DEF StartsOK
  <1>2. ASSUME NEW s \in Seq(Nat), StartsOK(s, 0), d = [c EXCEPT !.total = t, !.cached = 0, !.start = s]
        PROVE  CandsOK(d) /\ d.total = t /\ d.cached = 0 /\ d.start = s
    BY <1>1, <1>2 DEF CandsOK
  <1>3. CandsOK(d) /\ d.total = t /\ d.cached = 0 /\ d.start = <<0>>
    BY <1>1, <1>2, Zenon DEF IsReset
  <1>4. Len(d.start) - 1 = 0
    BY <1>3
  <1> QED BY <1>3, <1>4 DEF Full

(* reset_candidates leaves nothing to show. *)
LEMMA ResetCandidatesIs ==
    ASSUME NEW c, CandsOK(c), NEW t \in Nat
    PROVE  LET d == [ResetCandidates(c) EXCEPT !.total = t]
           IN  /\ CandsOK(d) /\ d.total = t /\ d.cached = 0 /\ d.start = <<0>> /\ Full(d)
               /\ CandsOK(ResetCandidates(c)) /\ ResetCandidates(c).total = 0
               /\ Full(ResetCandidates(c))
  <1> DEFINE d == [ResetCandidates(c) EXCEPT !.total = t]
  <1>1. IsReset(c, ResetCandidates(c), 0) /\ IsReset(c, d, t)
    BY DEF ResetCandidates, CandsOK, IsReset
  <1> HIDE DEF d
  <1>2. CandsOK(ResetCandidates(c)) /\ ResetCandidates(c).total = 0 /\ Full(ResetCandidates(c))
    BY <1>1, CandsReset
  <1>3. CandsOK(d) /\ d.total = t /\ d.cached = 0 /\ d.start = <<0>> /\ Full(d)
    BY <1>1, CandsReset
  <1> QED BY <1>2, <1>3 DEF d

(* What Offer leaves for the candidate view to show. *)
LEMMA OfferIs ==
    ASSUME NEW c, CandsOK(c), NEW d, d.total \in Nat, NEW finish \in BOOLEAN
    PROVE  LET o == Offer(c, d, finish)
           IN  /\ CandsOK(o) /\ o.total = d.total
               /\ ~finish => Full(o) /\ Ready(o, 0) /\ (d.total # 0 => o.cached # 0)
  <1> DEFINE fresh == [ResetCandidates(c) EXCEPT !.total = d.total]
             r == PreparePage(fresh, 0)
  <1>1. /\ CandsOK(fresh) /\ fresh.total = d.total /\ fresh.cached = 0 /\ fresh.start = <<0>>
        /\ Full(fresh)
    BY ResetCandidatesIs
  <1>2. Offer(c, d, finish) = IF finish THEN fresh ELSE r
    BY DEF Offer
  <1>3. Len(fresh.start) = 0 + 1 /\ fresh.start[0 + 1] = 0
    BY <1>1
  <1>4. /\ CandsOK(r) /\ Ready(r, 0) /\ r.total = fresh.total
        /\ Len(fresh.start) = 0 + 1 /\ fresh.start[0 + 1] < fresh.total
              => fresh.start[0 + 1] < r.cached
        /\ Full(fresh) => Full(r)
    <2>1. 0 \in Nat /\ 0 + 1 >= 0 + 1
      OBVIOUS
    <2> HIDE DEF fresh
    <2> QED BY <1>1, <1>3, <2>1, PreparePageIs
  <1>5. d.total # 0 => r.cached # 0
    <2> HIDE DEF r, fresh
    <2> QED BY <1>1, <1>3, <1>4
  <1> HIDE DEF r, fresh
  <1> QED BY <1>1, <1>2, <1>4, <1>5

-----------------------------------------------------------------------------
(* Segmentations. *)

SegOK(s) == s \in Seq(Nat) /\ Len(s) >= 1 /\ s[1] = 0 /\ Increasing(s)

(* The starts the decoder may answer ascend from 0. *)
LEMMA StartsAre == \A s \in AllStarts : SegOK(s)
  <1> SUFFICES ASSUME NEW t \in SeqOf(1..PyMax, PyMax), Increasing(t)
               PROVE  SegOK(<<0>> \o t)
    BY DEF AllStarts
  <1> DEFINE s == <<0>> \o t
  <1>1. PICK m \in 0..PyMax : t \in [1..m -> 1..PyMax]
    BY DEF SeqOf
  <1>2. m \in Nat /\ PyMax \in Nat
    BY <1>1, ImeAssumption
  <1>3. t \in Seq(1..PyMax)
    BY <1>1, <1>2, FcnIsSeq
  <1>4. t \in Seq(Nat) /\ <<0>> \in Seq(Nat) /\ Len(<<0>>) = 1 /\ <<0>>[1] = 0
    BY <1>2, <1>3
  <1>5. Len(t) \in Nat /\ \A i \in 1..Len(t) : t[i] \in Nat /\ t[i] > 0
    BY <1>2, <1>3, ElementOfSeq, LenProperties
  <1>6. /\ s \in Seq(Nat) /\ Len(s) = 1 + Len(t)
        /\ \A i \in 1..1 + Len(t) : s[i] = IF i <= 1 THEN <<0>>[i] ELSE t[i - 1]
    <2>1. /\ <<0>> \o t \in Seq(Nat) /\ Len(<<0>> \o t) = Len(<<0>>) + Len(t)
          /\ \A i \in 1..Len(<<0>>) + Len(t) : (<<0>> \o t)[i] =
                IF i <= Len(<<0>>) THEN <<0>>[i] ELSE t[i - Len(<<0>>)]
      BY <1>4, ConcatProperties
    <2> QED BY <1>4, <2>1
  <1> HIDE DEF s
  <1>7. s[1] = 0 /\ Len(s) >= 1
    BY <1>4, <1>5, <1>6
  <1>8. \A i \in 2..Len(s) : i - 1 \in 1..Len(t) /\ s[i] = t[i - 1]
    BY <1>5, <1>6
  <1>9. ASSUME NEW i \in 1..Len(s), NEW j \in 1..Len(s), i < j PROVE s[i] < s[j]
    <2>1. j \in 2..Len(s) /\ s[j] = t[j - 1] /\ j - 1 \in 1..Len(t)
      BY <1>5, <1>6, <1>8, <1>9
    <2>2. CASE i = 1
      BY <1>5, <1>7, <2>1, <2>2
    <2>3. CASE i # 1
      <3>1. i \in 2..Len(s) /\ s[i] = t[i - 1] /\ i - 1 \in 1..Len(t) /\ i - 1 < j - 1
        BY <1>5, <1>6, <1>8, <1>9, <2>3
      <3> QED BY <2>1, <3>1 DEF Increasing
    <2> QED BY <2>2, <2>3
  <1> QED BY <1>6, <1>7, <1>9 DEF SegOK, Increasing, s

(* The last element bounds a segmentation, and tells the empty one. *)
LEMMA Within ==
    ASSUME NEW s, SegOK(s)
    PROVE  /\ Len(s) \in Nat /\ Len(s) >= 1 /\ Last(s) \in Nat
           /\ \A k \in 1..Len(s) : s[k] \in Nat /\ s[k] <= Last(s)
           /\ \A j, k \in 1..Len(s) : j < k => s[j] < s[k]
           /\ Last(s) = 0 <=> Len(s) = 1
           /\ Len(s) = 1 <=> s = <<0>>
  <1>1. Len(s) \in Nat /\ Len(s) >= 1 /\ s \in Seq(Nat) /\ s[1] = 0
        /\ \A j, k \in 1..Len(s) : j < k => s[j] < s[k]
    BY LenProperties DEF SegOK, Increasing
  <1>2. \A k \in 1..Len(s) : s[k] \in Nat
    BY <1>1, ElementOfSeq
  <1>3. \A k \in 1..Len(s) : s[k] <= Last(s)
    <2> TAKE k \in 1..Len(s)
    <2>1. CASE k = Len(s)
      BY <1>2, <2>1 DEF Last
    <2>2. CASE k < Len(s)
      BY <1>1, <1>2, <2>2 DEF Last
    <2> QED BY <1>1, <2>1, <2>2
  <1>4. Last(s) \in Nat
    BY <1>1, <1>2 DEF Last
  <1>5. Last(s) = 0 <=> Len(s) = 1
    <2>1. CASE Len(s) = 1
      BY <1>1, <2>1 DEF Last
    <2>2. CASE Len(s) # 1
      <3>0. 1 \in 1..Len(s) /\ Len(s) \in 1..Len(s) /\ 1 < Len(s)
        <4>1. \A n \in Nat : n >= 1 /\ n # 1 => 1 \in 1..n /\ n \in 1..n /\ 1 < n
          OBVIOUS
        <4> QED BY <1>1, <2>2, <4>1, Zenon
      <3>1. s[1] < s[Len(s)] /\ s[Len(s)] \in Nat
        BY <1>1, <1>2, <3>0
      <3> QED BY <1>1, <2>2, <3>1 DEF Last
    <2> QED BY <2>1, <2>2
  <1>6. Len(s) = 1 <=> s = <<0>>
    <2>1. ASSUME Len(s) = 1 PROVE s = <<0>>
      <3>1. <<0>> \in Seq(Nat) /\ Len(<<0>>) = 1 /\ <<0>>[1] = 0
        OBVIOUS
      <3>2. \A i \in 1..Len(s) : s[i] = <<0>>[i]
        BY <1>1, <2>1, <3>1
      <3> QED BY <1>1, <2>1, <3>1, <3>2, SeqEqual
    <2> QED BY <2>1
  <1> QED BY <1>1, <1>2, <1>3, <1>4, <1>5, <1>6

-----------------------------------------------------------------------------
(* The decoder's answers. *)

DecOK(d) ==
    /\ d \in [len : 0..PyMax - 1, starts : AllStarts, fixed : Nat, total : Nat]
    /\ d.fixed <= Spellings(d) /\ Last(d.starts) <= d.len
    /\ d.starts # <<0>> => d.total # 0

(* What was typed has a candidate as long as anything of it was decoded. *)
LEMMA TotalsAre ==
    ASSUME NEW s, NEW f, NEW t \in Totals(s, f)
    PROVE  t \in Nat /\ (s # <<0>> => t # 0)
  BY ImeAssumption DEF Totals

(* Decoding answers a string that keeps the prefix it was given. *)
LEMMA DecodeIs ==
    ASSUME NEW len \in 0..PyMax - 1, NEW prefix, Len(prefix) \in Nat \ {0}, NEW least \in Int,
           NEW x \in Decode(len, prefix, least)
    PROVE  /\ DecOK(x) /\ x.len = len /\ x.fixed = Len(prefix) - 1
           /\ Last(x.starts) >= least
  <1>1. PICK s \in AllStarts :
            /\ IsPrefix(prefix, s) /\ Last(s) \in least..len
            /\ \E t \in Totals(s, Len(prefix) - 1) :
                  x = [len |-> len, starts |-> s, fixed |-> Len(prefix) - 1, total |-> t]
    BY DEF Decode
  <1>2. PICK t \in Totals(s, Len(prefix) - 1) :
            x = [len |-> len, starts |-> s, fixed |-> Len(prefix) - 1, total |-> t]
    BY <1>1
  <1>3. t \in Nat /\ (s # <<0>> => t # 0)
    BY TotalsAre
  <1>4. Len(prefix) <= Len(s) /\ Len(s) \in Nat
    BY <1>1, StartsAre, LenProperties DEF IsPrefix, SegOK
  <1>5. Len(prefix) - 1 \in Nat /\ Len(prefix) - 1 <= Len(s) - 1 /\ Last(s) <= len /\ Last(s) >= least
    <2>1. Last(s) \in Nat /\ len \in Int
      BY StartsAre, Within
    <2> QED BY <1>1, <1>4, <2>1
  <1> QED BY <1>2, <1>3, <1>5 DEF DecOK, Spellings

(* What a decoded string offers to the proofs below. *)
LEMMA DecIs ==
    ASSUME NEW d, DecOK(d)
    PROVE  /\ SegOK(d.starts) /\ d.starts \in AllStarts
           /\ d.len \in Nat /\ d.len <= PyMax - 1 /\ d.fixed \in Nat /\ d.total \in Nat
           /\ Spellings(d) \in Nat /\ Len(d.starts) = Spellings(d) + 1
           /\ d.fixed <= Spellings(d)
           /\ Last(d.starts) \in Nat /\ Last(d.starts) <= d.len
           /\ \A k \in 1..Spellings(d) + 1 : d.starts[k] \in Nat /\ d.starts[k] <= Last(d.starts)
           /\ \A j, k \in 1..Spellings(d) + 1 : j < k => d.starts[j] < d.starts[k]
           /\ FixedEnd(d) \in Nat /\ FixedEnd(d) <= Last(d.starts)
  <1>1. /\ d.starts \in AllStarts /\ d.len \in 0..PyMax - 1 /\ d.fixed \in Nat /\ d.total \in Nat
        /\ d.fixed <= Spellings(d) /\ Last(d.starts) <= d.len
    BY DEF DecOK
  <1>2. SegOK(d.starts)
    BY <1>1, StartsAre
  <1>3. Len(d.starts) \in Nat /\ Len(d.starts) >= 1
    BY <1>2, Within
  <1>4. Spellings(d) \in Nat /\ Len(d.starts) = Spellings(d) + 1
    BY <1>3 DEF Spellings
  <1>5. /\ Last(d.starts) \in Nat
        /\ \A k \in 1..Spellings(d) + 1 : d.starts[k] \in Nat /\ d.starts[k] <= Last(d.starts)
        /\ \A j, k \in 1..Spellings(d) + 1 : j < k => d.starts[j] < d.starts[k]
    BY <1>2, <1>4, Within
  <1>6. d.fixed + 1 \in 1..Spellings(d) + 1
    BY <1>1, <1>4
  <1>7. d.len \in Nat /\ d.len <= PyMax - 1
    BY <1>1, ImeAssumption
  <1> QED BY <1>1, <1>2, <1>4, <1>5, <1>6, <1>7 DEF FixedEnd

(* Decoding again behind the first f spellings keeps these. *)
LEMMA FromPrefix ==
    ASSUME NEW d, DecOK(d), NEW f \in Nat, f <= Spellings(d), NEW len \in 0..PyMax - 1,
           NEW least \in Int, NEW x \in Decode(len, SubSeq(d.starts, 1, f + 1), least)
    PROVE  DecOK(x) /\ x.len = len /\ x.fixed = f /\ Last(x.starts) >= least
  <1>1. /\ Spellings(d) \in Nat
        /\ \A k \in 1..Spellings(d) + 1 : d.starts[k] \in Nat
    BY DecIs
  <1>2. \A k \in 1..f + 1 : d.starts[k] \in Nat
    BY <1>1
  <1>3. Len(SubSeq(d.starts, 1, f + 1)) = f + 1
    <2>1. f + 1 \in Int /\ 1 <= f + 1 /\ (f + 1) - 1 + 1 = f + 1
      OBVIOUS
    <2> QED BY <1>2, <2>1, SubSeqProperties
  <1>4. f + 1 \in Nat \ {0} /\ (f + 1) - 1 = f
    OBVIOUS
  <1> DEFINE prefix == SubSeq(d.starts, 1, f + 1)
  <1>5. Len(prefix) \in Nat \ {0} /\ Len(prefix) - 1 = f /\ x \in Decode(len, prefix, least)
    BY <1>3, <1>4
  <1> HIDE DEF prefix
  <1> QED BY <1>5, DecodeIs

(* A string cut to what the decoder has room for keeps what was fixed. *)
LEMMA TruncateIs ==
    ASSUME NEW d, DecOK(d), NEW x \in Truncate(d)
    PROVE  DecOK(x) /\ x.fixed = d.fixed
  <1>1. CASE Spellings(d) <= MaxSpl
    BY <1>1 DEF Truncate
  <1>2. CASE ~(Spellings(d) <= MaxSpl)
    <2>1. x \in Decode(Last(d.starts) - 1, SubSeq(d.starts, 1, d.fixed + 1), 0)
      BY <1>2 DEF Truncate
    <2>2. Spellings(d) \in Nat /\ Spellings(d) # 0 /\ d.fixed \in Nat /\ d.fixed <= Spellings(d)
      BY <1>2, DecIs, ImeAssumption
    <2>3. Last(d.starts) # 0
      <3>1. Len(d.starts) = Spellings(d) + 1
        BY DecIs
      <3>2. Len(d.starts) # 1
        BY <2>2, <3>1
      <3> QED BY <3>2, DecIs, Within
    <2>4. Last(d.starts) - 1 \in 0..PyMax - 1
      <3>1. Last(d.starts) \in Nat /\ Last(d.starts) <= d.len /\ d.len <= PyMax - 1 /\ d.len \in Nat
        BY DecIs
      <3> QED BY <2>3, <3>1, ImeAssumption
    <2> QED BY <2>1, <2>2, <2>4, FromPrefix
  <1> QED BY <1>1, <1>2

(* No more stays fixed than was. *)
LEMMA KeptFixedIs ==
    ASSUME NEW d, DecOK(d), NEW cut, NEW clear, NEW f \in KeptFixed(d, cut, clear)
    PROVE  f \in Nat /\ f <= d.fixed /\ f <= Spellings(d)
  <1>1. d.fixed \in Nat /\ d.fixed <= Spellings(d) /\ Spellings(d) \in Nat
    BY DecIs
  <1>2. f = d.fixed \/ f \in 0..d.fixed - 1
    BY DEF KeptFixed
  <1> QED BY <1>1, <1>2

(* A search keeps no more than was fixed. *)
LEMMA SearchIs ==
    ASSUME NEW d, DecOK(d), NEW len \in 0..PyMax - 1, NEW at \in Int, NEW x \in Search(d, len, at)
    PROVE  DecOK(x) /\ x.fixed <= d.fixed
  <1> DEFINE decoded == Last(d.starts)
             Found(cut, f) == Decode(len, SubSeq(d.starts, 1, f + 1),
                                     IF f = d.fixed THEN cut ELSE d.starts[f + 1])
  <1>1. PICK cut \in Smaller(at, decoded)..decoded :
            \E f \in KeptFixed(d, cut, cut # decoded) :
                \E y \in Found(cut, f) : x \in Truncate(y)
    BY DEF Search
  <1>2. PICK f \in KeptFixed(d, cut, cut # decoded) : \E y \in Found(cut, f) : x \in Truncate(y)
    BY <1>1
  <1>3. PICK y \in Found(cut, f) : x \in Truncate(y)
    BY <1>2
  <1>4. f \in Nat /\ f <= d.fixed /\ f <= Spellings(d)
    BY KeptFixedIs
  <1>5. (IF f = d.fixed THEN cut ELSE d.starts[f + 1]) \in Int
    <2>1. /\ Spellings(d) \in Nat
          /\ \A k \in 1..Spellings(d) + 1 : d.starts[k] \in Nat
      BY DecIs
    <2>2. f + 1 \in 1..Spellings(d) + 1
      BY <1>4, <2>1
    <2>3. d.starts[f + 1] \in Int /\ cut \in Int
      BY <2>1, <2>2
    <2> QED BY <2>3
  <1>6. DecOK(y) /\ y.fixed = f
    BY <1>3, <1>4, <1>5, FromPrefix
  <1> QED BY <1>3, <1>4, <1>6, TruncateIs

(* choose leaves the string as long as it was. *)
LEMMA ChooseIs ==
    ASSUME NEW d, DecOK(d), NEW id, NEW x \in Choose(d, id)
    PROVE  DecOK(x) /\ x.len = d.len
  <1>1. CASE d.starts = <<0>>
    BY <1>1 DEF Choose
  <1>2. CASE d.starts # <<0>> /\ id = 0
    <2>1. x = [d EXCEPT !.fixed = Spellings(d), !.total = 1]
      BY <1>2 DEF Choose
    <2>2. Spellings(d) \in Nat
      BY DecIs
    <2>3. /\ x \in [len : 0..PyMax - 1, starts : AllStarts, fixed : Nat, total : Nat]
          /\ x.starts = d.starts /\ x.len = d.len /\ x.fixed = Spellings(d) /\ x.total = 1
      BY <2>1, <2>2 DEF DecOK
    <2>4. Spellings(x) = Spellings(d) /\ Spellings(d) <= Spellings(d) /\ 1 # 0
      BY <2>2, <2>3 DEF Spellings
    <2>5. Last(d.starts) <= d.len
      BY DEF DecOK
    <2> QED BY <2>3, <2>4, <2>5 DEF DecOK
  <1>3. CASE d.starts # <<0>> /\ id # 0
    <2>1. PICK f \in d.fixed + 1..Spellings(d) :
              x \in Decode(d.len, SubSeq(d.starts, 1, f + 1), Last(d.starts))
      BY <1>3 DEF Choose
    <2>2. f \in Nat /\ f <= Spellings(d) /\ d.len \in 0..PyMax - 1 /\ Last(d.starts) \in Int
      <3>1. d.fixed \in Nat /\ Spellings(d) \in Nat /\ Last(d.starts) \in Nat
        BY DecIs
      <3>2. d.len \in 0..PyMax - 1
        BY DEF DecOK
      <3> QED BY <3>1, <3>2
    <2> QED BY <2>1, <2>2, FromPrefix
  <1> QED BY <1>1, <1>2, <1>3

(* Only a character that is fixed stays. *)
LEMMA DelCharIs ==
    ASSUME NEW d, DecOK(d), NEW pos \in Nat, pos < d.len, NEW clear, NEW x \in DelChar(d, pos, clear)
    PROVE  /\ DecOK(x) /\ (x.len = d.len - 1 \/ x = d)
           /\ ~(d.fixed > 0 /\ pos < FixedEnd(d)) => x.len = d.len - 1
  <1>1. /\ Last(d.starts) \in Nat /\ d.fixed \in Nat /\ d.fixed <= Spellings(d)
        /\ Spellings(d) \in Nat /\ d.len - 1 \in 0..PyMax - 1
        /\ FixedEnd(d) \in Nat /\ FixedEnd(d) <= Last(d.starts)
    <2>1. d.len \in Nat /\ d.len <= PyMax - 1
      BY DecIs
    <2> QED BY <2>1, DecIs, ImeAssumption
  <1>2. CASE pos >= Last(d.starts)
    <2>1. x \in Decode(d.len - 1, SubSeq(d.starts, 1, d.fixed + 1), Last(d.starts))
      BY <1>2 DEF DelChar
    <2> QED BY <1>1, <2>1, FromPrefix
  <1>3. CASE ~(pos >= Last(d.starts)) /\ d.fixed > 0 /\ pos < FixedEnd(d)
    BY <1>3 DEF DelChar
  <1>4. CASE ~(pos >= Last(d.starts)) /\ ~(d.fixed > 0 /\ pos < FixedEnd(d))
    <2>1. PICK f \in KeptFixed(d, pos, clear) :
              x \in Decode(d.len - 1, SubSeq(d.starts, 1, f + 1), pos)
      BY <1>4 DEF DelChar
    <2>2. f \in Nat /\ f <= Spellings(d)
      BY KeptFixedIs
    <2> QED BY <1>1, <2>1, <2>2, FromPrefix
  <1> QED BY <1>2, <1>3, <1>4

(* A fixed spelling goes with all of its letters. *)
LEMMA DelSpellingIs ==
    ASSUME NEW d, DecOK(d), NEW p \in 0..d.fixed - 1, NEW x \in DelSpelling(d, p)
    PROVE  /\ DecOK(x)
           /\ x.len = d.len - (d.starts[p + 2] - d.starts[p + 1])
           /\ d.starts[p + 1] < d.starts[p + 2] /\ d.starts[p + 2] <= d.len
           /\ d.starts[p + 1] \in Nat /\ d.starts[p + 2] \in Nat
  <1> DEFINE width == d.starts[p + 2] - d.starts[p + 1]
             merged == [k \in 1..d.fixed |->
                           IF k <= p + 1 THEN d.starts[k] ELSE d.starts[k + 1] - width]
  <1>1. /\ d.fixed \in Nat /\ d.fixed <= Spellings(d) /\ Spellings(d) \in Nat
        /\ d.len \in Nat /\ d.len <= PyMax - 1 /\ Last(d.starts) \in Nat /\ Last(d.starts) <= d.len
        /\ \A k \in 1..Spellings(d) + 1 : d.starts[k] \in Nat /\ d.starts[k] <= Last(d.starts)
        /\ \A j, k \in 1..Spellings(d) + 1 : j < k => d.starts[j] < d.starts[k]
    BY DecIs
  <1>2. p \in Nat /\ p + 1 \in 1..Spellings(d) + 1 /\ p + 2 \in 1..Spellings(d) + 1 /\ p + 1 < p + 2
        /\ d.fixed # 0
    BY <1>1
  <1>3. /\ d.starts[p + 1] < d.starts[p + 2] /\ d.starts[p + 2] <= Last(d.starts)
        /\ d.starts[p + 1] \in Nat /\ d.starts[p + 2] \in Nat
    BY <1>1, <1>2
  <1>4. d.starts[p + 2] <= d.len /\ d.len - width \in 0..PyMax - 1 /\ width \in Int
    BY <1>1, <1>3, ImeAssumption
  <1>5. \A k \in 1..d.fixed : k \in 1..Spellings(d) + 1 /\ k + 1 \in 1..Spellings(d) + 1
    BY <1>1
  <1>6. merged \in [1..d.fixed -> Int]
    <2>1. \A k \in 1..d.fixed : d.starts[k] \in Int /\ d.starts[k + 1] \in Int
      BY <1>1, <1>5
    <2> HIDE DEF width
    <2>2. \A k \in 1..d.fixed : d.starts[k + 1] - width \in Int
      BY <1>4, <2>1
    <2> QED BY <2>1, <2>2
  <1>7. merged \in Seq(Int) /\ Len(merged) = d.fixed
    <2> HIDE DEF merged
    <2> QED BY <1>1, <1>6, FcnIsSeq
  <1>8. Last(merged) \in Int
    <2> HIDE DEF merged
    <2>1. d.fixed \in 1..d.fixed
      BY <1>1, <1>2
    <2> QED BY <1>6, <1>7, <2>1 DEF Last
  <1>9. x \in Decode(d.len - width, merged, Last(merged))
    BY DEF DelSpelling
  <1> HIDE DEF merged, width
  <1>10. Len(merged) \in Nat \ {0}
    BY <1>1, <1>2, <1>7
  <1>11. DecOK(x) /\ x.len = d.len - width
    BY <1>4, <1>8, <1>9, <1>10, DecodeIs
  <1> QED BY <1>3, <1>4, <1>11 DEF width

-----------------------------------------------------------------------------
(* DecodingInfo. *)

InfoOK(i) ==
    /\ i \in [len : 0..PyMax - 1, decoded : Nat, starts : AllStarts, fixed : Nat, cursor : Nat,
              finish : BOOLEAN, del : [pos : Int, inspl : BOOLEAN]]
    /\ i.cursor <= i.len /\ i.fixed <= Spellings(i)

(* The copies that update_for_search takes. *)
Copies(i, d) ==
    /\ i.len = d.len /\ i.starts = d.starts /\ i.fixed = d.fixed
    /\ i.decoded = Last(d.starts)
    /\ (i.finish => Spellings(d) = d.fixed) /\ (Spellings(d) = d.fixed => i.finish)

(* What InfoOK says of the starts, the cursor and the fixed spellings. *)
LEMMA InfoIs ==
    ASSUME NEW i, InfoOK(i)
    PROVE  /\ i.starts \in AllStarts /\ SegOK(i.starts)
           /\ i.len \in Nat /\ i.len <= PyMax - 1 /\ i.cursor \in Nat /\ i.cursor <= i.len
           /\ Spellings(i) \in Nat /\ Len(i.starts) = Spellings(i) + 1
           /\ i.fixed \in Nat /\ i.fixed <= Spellings(i)
           /\ \A k \in 1..Spellings(i) + 1 : i.starts[k] \in Nat
           /\ \A j, k \in 1..Spellings(i) + 1 : j < k => i.starts[j] < i.starts[k]
           /\ i.starts[1] = 0
  <1>1. /\ i.starts \in AllStarts /\ i.len \in 0..PyMax - 1 /\ i.cursor \in Nat /\ i.cursor <= i.len
        /\ i.fixed \in Nat /\ i.fixed <= Spellings(i)
    BY DEF InfoOK
  <1>2. SegOK(i.starts) /\ i.starts[1] = 0
    BY <1>1, StartsAre DEF SegOK
  <1>3. Len(i.starts) \in Nat /\ Len(i.starts) >= 1
    BY <1>2, Within
  <1>4. Spellings(i) \in Nat /\ Len(i.starts) = Spellings(i) + 1
    BY <1>3 DEF Spellings
  <1>5. /\ \A k \in 1..Spellings(i) + 1 : i.starts[k] \in Nat
        /\ \A j, k \in 1..Spellings(i) + 1 : j < k => i.starts[j] < i.starts[k]
    BY <1>2, <1>4, Within
  <1>6. i.len \in Nat /\ i.len <= PyMax - 1
    BY <1>1, ImeAssumption
  <1> QED BY <1>1, <1>2, <1>4, <1>5, <1>6

(* The cursor may go anywhere in the string. *)
LEMMA CursorSet ==
    ASSUME NEW i, InfoOK(i), NEW k \in Nat, k <= i.len
    PROVE  LET n == [i EXCEPT !.cursor = k]
           IN  InfoOK(n) /\ n = [i EXCEPT !.cursor = n.cursor] /\ n.cursor = k
  BY DEF InfoOK, Spellings

(* A letter more, while there is room for one. *)
LEMMA AddIs ==
    ASSUME NEW i, InfoOK(i)
    PROVE  /\ ~IsSplStrFull(i) => InfoOK(AddSplChar(i)) /\ AddSplChar(i).del = i.del
           /\ InfoOK(AddFirstSplChar(i))
  <1>1. i.len \in Nat /\ i.cursor \in Nat /\ i.cursor <= i.len /\ PyMax \in Nat /\ PyMax > 1
    BY InfoIs, ImeAssumption
  <1>2. ASSUME ~IsSplStrFull(i) PROVE i.len + 1 \in 0..PyMax - 1 /\ i.cursor + 1 <= i.len + 1
    BY <1>1, <1>2 DEF IsSplStrFull
  <1>3. ASSUME ~IsSplStrFull(i) PROVE InfoOK(AddSplChar(i)) /\ AddSplChar(i).del = i.del
    <2>1. i.cursor + 1 \in Nat
      BY <1>1
    <2> QED BY <1>2, <1>3, <2>1 DEF AddSplChar, InfoOK, Spellings
  <1>4. 0 + 1 \in 0..PyMax - 1 /\ 0 + 1 \in Nat /\ 0 + 1 <= 0 + 1 /\ 0 \in Nat
    BY <1>1
  <1>5. InfoOK(AddFirstSplChar(i))
    BY <1>4 DEF AddFirstSplChar, AddSplChar, InfoOK, Spellings
  <1> QED BY <1>3, <1>5

(* A deletion is marked in the string, before the cursor. *)
LEMMA PrepareIs ==
    ASSUME NEW i, InfoOK(i), NEW pos \in Nat, i.del = NoDeletion
    PROVE  LET n == PrepareDelete(i, pos)
           IN  /\ InfoOK(n)
               /\ FixedAtCursor(i) # {} =>
                     \E p \in FixedAtCursor(i) :
                        n.del = [pos |-> p, inspl |-> TRUE] /\ n.cursor = i.starts[p + 1]
               /\ FixedAtCursor(i) = {} =>
                     n.del = [pos |-> pos, inspl |-> FALSE] /\ n.cursor = Smaller(i.cursor, pos)
  <1> DEFINE n == PrepareDelete(i, pos)
  <1>1. CASE FixedAtCursor(i) # {}
    <2>1. \E p \in FixedAtCursor(i) : n = MarkSpelling(i, p)
      BY <1>1 DEF PrepareDelete
    <2>2. PICK p \in FixedAtCursor(i) : n = MarkSpelling(i, p)
      BY <2>1
    <2> HIDE DEF n
    <2>3. /\ p \in 0..i.fixed - 1 /\ i.starts[p + 1] < i.cursor
      BY DEF FixedAtCursor
    <2>4. i.starts[p + 1] \in Nat /\ i.starts[p + 1] <= i.len /\ p \in Int
      <3>1. /\ i.fixed \in Nat /\ i.fixed <= Spellings(i) /\ Spellings(i) \in Nat
            /\ i.cursor \in Nat /\ i.cursor <= i.len /\ i.len \in Nat
            /\ \A k \in 1..Spellings(i) + 1 : i.starts[k] \in Nat
        BY InfoIs
      <3>2. p + 1 \in 1..Spellings(i) + 1
        BY <2>3, <3>1
      <3> QED BY <2>3, <3>1, <3>2
    <2>5. InfoOK(n) /\ n.del = [pos |-> p, inspl |-> TRUE] /\ n.cursor = i.starts[p + 1]
      BY <2>2, <2>4 DEF MarkSpelling, InfoOK, Spellings
    <2> QED BY <1>1, <2>5 DEF n
  <1>2. CASE FixedAtCursor(i) = {}
    <2>1. i.del.pos < 0
      BY DEF NoDeletion
    <2>2. n = MarkChar(i, pos)
      BY <1>2, <2>1 DEF PrepareDelete
    <2> HIDE DEF n
    <2>3. Smaller(i.cursor, pos) \in Nat /\ Smaller(i.cursor, pos) <= i.len /\ pos \in Int
      BY InfoIs DEF Smaller
    <2>4. InfoOK(n) /\ n.del = [pos |-> pos, inspl |-> FALSE] /\ n.cursor = Smaller(i.cursor, pos)
      BY <2>2, <2>3 DEF MarkChar, InfoOK, Spellings
    <2> QED BY <1>2, <2>4 DEF n
  <1> QED BY <1>1, <1>2

(* The cursor's moves stay in the string. *)
LEMMA MoveIs ==
    ASSUME NEW i, InfoOK(i), Last(i.starts) <= i.len,
           NEW n \in {MoveLeft(i), MoveRight(i)}
    PROVE  InfoOK(n) /\ \E k \in 0..i.len : n = [i EXCEPT !.cursor = k]
  <1>1. /\ SegOK(i.starts) /\ i.len \in Nat /\ i.cursor \in Nat /\ i.cursor <= i.len
        /\ Spellings(i) \in Nat /\ Len(i.starts) = Spellings(i) + 1
        /\ i.fixed \in Nat /\ i.fixed <= Spellings(i)
        /\ \A k \in 1..Spellings(i) + 1 : i.starts[k] \in Nat
        /\ \A j, k \in 1..Spellings(i) + 1 : j < k => i.starts[j] < i.starts[k]
        /\ i.starts[1] = 0
    BY InfoIs
  <1>2. \A k \in 1..Spellings(i) + 1 : i.starts[k] <= i.len
    <2>1. Last(i.starts) \in Nat /\ \A k \in 1..Spellings(i) + 1 : i.starts[k] <= Last(i.starts)
      BY <1>1, Within
    <2> QED BY <1>1, <2>1
  <1> SUFFICES \E k \in Nat : k <= i.len /\ n = [i EXCEPT !.cursor = k]
    <2>1. \A k \in Nat : k <= i.len => k \in 0..i.len
      BY <1>1
    <2> QED BY <2>1, CursorSet
  <1>3. CASE n = MoveLeft(i)
    <2> DEFINE at == {k \in 1..Len(i.starts) : i.starts[k] = i.cursor}
    <2>1. CASE i.cursor = 0
      BY <1>1, <1>3, <2>1, SMTT(30) DEF MoveLeft
    <2>2. CASE i.cursor # 0 /\ at = {}
      <3>1. n = [i EXCEPT !.cursor = i.cursor - 1]
        BY <1>3, <2>2 DEF MoveLeft
      <3>2. i.cursor - 1 \in Nat /\ i.cursor - 1 <= i.len
        BY <1>1, <2>2
      <3> QED BY <3>1, <3>2
    <2>3. CASE i.cursor # 0 /\ at # {}
      <3>1. \E k \in at : n = [i EXCEPT !.cursor = i.starts[k - 1]]
        BY <1>3, <2>3 DEF MoveLeft
      <3>2. PICK k \in at : n = [i EXCEPT !.cursor = i.starts[k - 1]]
        BY <3>1
      <3>3. k \in 1..Spellings(i) + 1 /\ i.starts[k] = i.cursor
        BY <1>1
      <3>4. k # 1
        BY <1>1, <2>3, <3>3
      <3>5. k - 1 \in 1..Spellings(i) + 1
        BY <1>1, <3>3, <3>4
      <3> QED BY <1>1, <1>2, <3>2, <3>5
    <2> QED BY <2>1, <2>2, <2>3
  <1>4. CASE n = MoveRight(i)
    <2> DEFINE at == {k \in 1..i.fixed : i.starts[k] = i.cursor}
    <2>1. CASE at = {}
      <3>1. n = [i EXCEPT !.cursor = Smaller(i.cursor + 1, i.len)]
        BY <1>4, <2>1 DEF MoveRight
      <3>2. Smaller(i.cursor + 1, i.len) \in Nat /\ Smaller(i.cursor + 1, i.len) <= i.len
        BY <1>1 DEF Smaller
      <3> QED BY <3>1, <3>2
    <2>2. CASE at # {}
      <3>1. \E k \in at : n = [i EXCEPT !.cursor = i.starts[k + 1]]
        BY <1>4, <2>2 DEF MoveRight
      <3>2. PICK k \in at : n = [i EXCEPT !.cursor = i.starts[k + 1]]
        BY <3>1
      <3>3. k + 1 \in 1..Spellings(i) + 1
        BY <1>1
      <3> QED BY <1>1, <1>2, <3>2, <3>3
    <2> QED BY <2>1, <2>2
  <1> QED BY <1>3, <1>4

(* update_for_search takes over what the decoder has. *)
LEMMA UpdateIs ==
    ASSUME NEW i, InfoOK(i), NEW d, DecOK(d)
    PROVE  LET u == UpdateForSearch(i, d)
           IN  /\ InfoOK(u) /\ u.del = NoDeletion /\ Copies(u, d)
               /\ u.cursor = Smaller(i.cursor, d.len)
  <1>1. /\ d.len \in 0..PyMax - 1 /\ d.starts \in AllStarts /\ d.fixed \in Nat
        /\ Last(d.starts) \in Nat /\ d.fixed <= Spellings(d)
    BY DecIs DEF DecOK
  <1>2. Smaller(i.cursor, d.len) \in Nat /\ Smaller(i.cursor, d.len) <= d.len
    <2>1. i.cursor \in Nat /\ d.len \in Nat
      BY InfoIs, DecIs
    <2> QED BY <2>1 DEF Smaller
  <1>3. NoDeletion \in [pos : Int, inspl : BOOLEAN]
    BY DEF NoDeletion
  <1> DEFINE u == UpdateForSearch(i, d)
  <1>4. /\ u \in [len : 0..PyMax - 1, decoded : Nat, starts : AllStarts, fixed : Nat, cursor : Nat,
              finish : BOOLEAN, del : [pos : Int, inspl : BOOLEAN]]
        /\ u.len = d.len /\ u.starts = d.starts /\ u.fixed = d.fixed /\ u.decoded = Last(d.starts)
        /\ u.cursor = Smaller(i.cursor, d.len) /\ u.del = NoDeletion
        /\ (u.finish => Spellings(d) = d.fixed) /\ (Spellings(d) = d.fixed => u.finish)
    BY <1>1, <1>2, <1>3 DEF UpdateForSearch, InfoOK
  <1> HIDE DEF u
  <1>5. Spellings(u) = Spellings(d)
    BY <1>4 DEF Spellings
  <1> QED BY <1>1, <1>2, <1>4, <1>5 DEF InfoOK, Copies, u

-----------------------------------------------------------------------------
(* The inductive invariant: what the classes' own records satisfy always, and
   how they agree while something is typed. *)

(* The window shows a page of the decoder's candidates. *)
Offered(i, c, d) ==
    ShownOK(c) /\ c.total = d.total /\ (~i.finish => c.cached # 0)

IInv ==
    /\ mode \in {"CHINESE", "ENGLISH"} /\ status \in {"SHOW_PINYIN", "EDIT_PINYIN"}
    /\ InfoOK(info) /\ info.del = NoDeletion
    /\ DecOK(dec)
    /\ CandsOK(cands) /\ (~info.finish => Full(cands))
    /\ Typing => Copies(info, dec) /\ Offered(info, cands, dec) /\ info.len # 0
    /\ state = "INPUT" => ~info.finish

(* The start of an empty string is one the decoder may answer. *)
LEMMA NothingDecoded == <<0>> \in AllStarts
  <1>1. <<>> \in SeqOf(1..PyMax, PyMax)
    <2>1. 0 \in 0..PyMax
      BY ImeAssumption
    <2>2. <<>> \in [1..0 -> 1..PyMax]
      OBVIOUS
    <2> QED BY <2>1, <2>2 DEF SeqOf
  <1>2. Increasing(<<>>)
    BY DEF Increasing
  <1>3. <<0>> \o <<>> = <<0>>
    <2>1. <<0>> \in Seq(Nat)
      OBVIOUS
    <2> QED BY <2>1, ConcatEmptySeq
  <1>4. <<0>> \o <<>> \in AllStarts
    BY <1>1, <1>2 DEF AllStarts
  <1> QED BY <1>3, <1>4

(* A decoder without a string satisfies the invariant. *)
LEMMA NoStringOK == DecOK(NoString)
  <1>1. 0 \in 0..PyMax - 1 /\ <<0>> \in AllStarts
    BY NothingDecoded, ImeAssumption
  <1>2. Len(<<0>>) - 1 = 0 /\ Last(<<0>>) = 0
    BY DEF Last
  <1> QED BY <1>1, <1>2 DEF NoString, DecOK, Spellings

(* So does the record of an input method without one. *)
LEMMA BlankOK == InfoOK(Blank) /\ Blank.del = NoDeletion /\ Blank.fixed = 0
  <1>1. 0 \in 0..PyMax - 1 /\ NoDeletion \in [pos : Int, inspl : BOOLEAN]
    BY ImeAssumption DEF NoDeletion
  <1>2. Len(<<0>>) - 1 = 0
    OBVIOUS
  <1> QED BY <1>1, <1>2, NothingDecoded DEF Blank, InfoOK, Spellings

(* A new input method satisfies the invariant. *)
LEMMA InitIInv == Init => IInv
  <1> SUFFICES ASSUME Init PROVE IInv
    OBVIOUS
  <1>1. StartsOK(<<0>>, 0) /\ TableOK(0, 0) /\ TableSize \in Sizes /\ -1 \in Int
        /\ <<0>> \in Seq(Nat)
    BY WholePages DEF StartsOK, Sizes
  <1>2. CandsOK(NoPages)
    BY <1>1 DEF CandsOK, NoPages
  <1>3. Full(NoPages)
    BY DEF Full, NoPages
  <1> QED BY <1>2, <1>3, BlankOK, NoStringOK DEF Init, IInv, Typing

(* A reset empties the window. *)
LEMMA EmptyWindow ==
    ASSUME NEW c, CandsOK(c)
    PROVE  LET d == ShowCandidates(ResetCandidates(c)) IN CandsOK(d) /\ Full(d) /\ d.total = 0
  <1> DEFINE d == ShowCandidates(ResetCandidates(c))
  <1>1. LET r == ResetCandidates(c) IN CandsOK(r) /\ Full(r) /\ r.total = 0
    <2>1. 0 \in Nat
      OBVIOUS
    <2> QED BY <2>1, ResetCandidatesIs
  <1>2. CandsOK(d) /\ d.total = 0
    BY <1>1, ShowCandidatesIs DEF ShownOK
  <1> HIDE DEF d
  <1>3. Full(d)
    <2>1. \A p \in 1..Len(d.start) : d.start[p] \in Nat
      BY <1>2, ElementOfSeq DEF CandsOK
    <2>2. Len(d.start) \in Nat
      BY <1>2, LenProperties DEF CandsOK
    <2>3. \A p \in 1..Len(d.start) - 1 : d.start[p + 1] \in Nat
      BY <2>1, <2>2
    <2> QED BY <1>2, <2>3 DEF Full
  <1> QED BY <1>2, <1>3 DEF d

(* Every way back to idle. *)
LEMMA ResetInv ==
    ASSUME IInv, NEW i, InfoOK(i), i.del = NoDeletion, ResetToIdleState(i),
           DecOK(dec'), mode' \in {"CHINESE", "ENGLISH"}
    PROVE  IInv'
  <1>1. InfoOK(ResetInfo(i)) /\ ResetInfo(i).del = NoDeletion
    <2>1. /\ i.starts \in AllStarts /\ 0 \in 0..PyMax - 1
          /\ NoDeletion \in [pos : Int, inspl : BOOLEAN]
      BY InfoIs, ImeAssumption DEF NoDeletion
    <2>2. 0 <= Len(i.starts) - 1
      BY InfoIs
    <2>3. InfoOK(Blank) /\ Blank.fixed = 0
      BY BlankOK
    <2>4. /\ ResetInfo(i) \in [len : 0..PyMax - 1, decoded : Nat, starts : AllStarts, fixed : Nat,
                              cursor : Nat, finish : BOOLEAN, del : [pos : Int, inspl : BOOLEAN]]
          /\ ResetInfo(i).len = Blank.len /\ ResetInfo(i).cursor = Blank.cursor
          /\ ResetInfo(i).fixed = Blank.fixed
          /\ ResetInfo(i).starts = i.starts /\ ResetInfo(i).del = NoDeletion
      BY <2>1, <2>3 DEF ResetInfo, InfoOK
    <2>5. Blank.cursor <= Blank.len
      BY <2>3 DEF InfoOK
    <2> QED BY <2>2, <2>3, <2>4, <2>5 DEF InfoOK, Spellings
  <1>2. CandsOK(cands') /\ Full(cands')
    <2>1. CandsOK(cands) /\ cands' = ShowCandidates(ResetCandidates(cands))
      BY DEF IInv, ResetToIdleState
    <2> QED BY <2>1, EmptyWindow
  <1>3. state' = "IDLE" /\ status' = "SHOW_PINYIN" /\ info' = ResetInfo(i)
    BY DEF ResetToIdleState
  <1> QED BY <1>1, <1>2, <1>3 DEF IInv, Typing

(* show_candidate_window. *)
LEMMA ShowInv ==
    ASSUME NEW s \in {"INPUT", "COMPOSING"}, NEW i, NEW c,
           InfoOK(i), i.del = NoDeletion, i.len # 0, DecOK(dec'), Copies(i, dec'),
           CandsOK(c), c.total = dec'.total,
           ~i.finish => Full(c) /\ Ready(c, 0) /\ c.cached # 0,
           s = "INPUT" => ~i.finish,
           ShowCandidateWindow(s, i, c), mode' \in {"CHINESE", "ENGLISH"}
    PROVE  IInv'
  <1>1. \E k \in Nat : k <= i.len /\ Edge(i, s) = [i EXCEPT !.cursor = k]
    <2>1. i.len \in Nat /\ i.cursor \in Nat
      BY InfoIs
    <2>2. (IF s = "INPUT" THEN i.len ELSE Smaller(i.cursor, i.len)) \in Nat
          /\ (IF s = "INPUT" THEN i.len ELSE Smaller(i.cursor, i.len)) <= i.len
      BY <2>1 DEF Smaller
    <2> QED BY <2>2 DEF Edge
  <1>2. PICK k \in Nat : k <= i.len /\ Edge(i, s) = [i EXCEPT !.cursor = k]
    BY <1>1
  <1>3. info' = [i EXCEPT !.cursor = k]
    BY <1>2 DEF ShowCandidateWindow
  <1>4. InfoOK(info')
    BY <1>2, <1>3, CursorSet
  <1>5. /\ info'.del = i.del /\ info'.len = i.len /\ info'.starts = i.starts
        /\ info'.fixed = i.fixed /\ info'.decoded = i.decoded /\ info'.finish = i.finish
    BY <1>3 DEF InfoOK
  <1>6. /\ ShownOK(cands') /\ cands'.total = c.total /\ cands'.cached = c.cached
        /\ Full(c) /\ Ready(c, 0) => Full(cands')
    BY ShowCandidatesIs DEF ShowCandidateWindow
  <1>7. state' = s /\ status' \in {"SHOW_PINYIN", "EDIT_PINYIN"}
    BY DEF ShowCandidateWindow, StatusFor
  <1>8. Copies(info', dec')
    BY <1>5 DEF Copies
  <1>9. Offered(info', cands', dec') /\ CandsOK(cands') /\ (~info'.finish => Full(cands'))
    BY <1>5, <1>6 DEF Offered, ShownOK
  <1> QED BY <1>4, <1>5, <1>7, <1>8, <1>9 DEF IInv, Typing

(* What is decoded decides whether anything is left to choose, and whether the
   composing string is empty. *)
LEMMA AfterIs ==
    ASSUME NEW u, InfoOK(u), NEW d, DecOK(d), Copies(u, d)
    PROVE  /\ ComposingLength(u) > 0 => u.len # 0
           /\ ~u.finish => d.total # 0
           /\ u.decoded # 0 /\ d.fixed = 0 => ~u.finish
           /\ CanDoPrediction(u) => u.decoded = u.len
  <1>1. /\ SegOK(d.starts) /\ d.len \in Nat /\ d.fixed \in Nat /\ Spellings(d) \in Nat
        /\ Len(d.starts) = Spellings(d) + 1 /\ d.fixed <= Spellings(d)
        /\ Last(d.starts) \in Nat /\ Last(d.starts) <= d.len
        /\ FixedEnd(d) \in Nat /\ FixedEnd(d) <= Last(d.starts)
    BY DecIs
  <1>2. /\ u.len = d.len /\ u.fixed = d.fixed /\ u.decoded = Last(d.starts)
        /\ FixedEnd(u) = FixedEnd(d)
        /\ (u.finish => Spellings(d) = d.fixed) /\ (Spellings(d) = d.fixed => u.finish)
    BY DEF Copies, FixedEnd
  <1>3. Last(d.starts) = 0 <=> Spellings(d) = 0
    <2>1. Last(d.starts) = 0 <=> Len(d.starts) = 1
      BY <1>1, Within
    <2>2. Len(d.starts) = 1 <=> Spellings(d) = 0
      BY <1>1
    <2> QED BY <2>1, <2>2
  <1>4. ASSUME u.len = 0 PROVE ~(ComposingLength(u) > 0)
    <2>1. Last(d.starts) = 0 /\ FixedEnd(u) = 0
      BY <1>1, <1>2, <1>4
    <2>2. u.fixed = 0
      BY <1>1, <1>2, <1>3, <2>1
    <2> QED BY <1>4, <2>1, <2>2 DEF ComposingLength
  <1>5. ASSUME ~u.finish PROVE d.total # 0
    <2>1. Spellings(d) # 0
      BY <1>1, <1>2, <1>5
    <2>2. Len(d.starts) # 1
      BY <1>1, <2>1
    <2>3. d.starts # <<0>>
      BY <1>1, <2>2, Within
    <2> QED BY <2>3 DEF DecOK
  <1>6. ASSUME u.decoded # 0, d.fixed = 0 PROVE ~u.finish
    BY <1>2, <1>3, <1>6
  <1>7. ASSUME CanDoPrediction(u) PROVE u.decoded = u.len
    <2>1. u.fixed + u.len - FixedEnd(u) = u.fixed
      BY <1>7 DEF CanDoPrediction, ComposingLength
    <2> QED BY <1>1, <1>2, <2>1
  <1> QED BY <1>4, <1>5, <1>6, <1>7

(* choose_and_update, whatever the decoder answers. *)
LEMMA ChooseInv ==
    ASSUME IInv, state \in {"IDLE", "INPUT", "COMPOSING"}, NEW i, InfoOK(i), NEW answers,
           \A d \in answers : DecOK(d) /\ (state = "IDLE" => d.fixed = 0),
           NEW chosen, ChooseAndUpdate(i, answers, chosen)
    PROVE  IInv'
  <1>1. PICK d \in answers : \E after \in {UpdateForSearch(i, d)} :
            /\ dec' = d
            /\ \/ ResetToIdleState(after)
               \/ /\ ComposingLength(after) > 0
                  /\ ShowCandidateWindow(NextState(after), after, Offer(cands, d, after.finish))
            /\ mode' = mode
    BY Zenon DEF ChooseAndUpdate
  <1>2. DecOK(d) /\ (state = "IDLE" => d.fixed = 0) /\ dec' = d
    BY <1>1
  <1>3. mode' \in {"CHINESE", "ENGLISH"} /\ CandsOK(cands)
    BY <1>1 DEF IInv
  <1> DEFINE u == UpdateForSearch(i, d)
  <1>4. InfoOK(u) /\ u.del = NoDeletion /\ Copies(u, d)
    BY <1>2, UpdateIs
  <1>5. \/ ResetToIdleState(u)
        \/ /\ ComposingLength(u) > 0
           /\ ShowCandidateWindow(NextState(u), u, Offer(cands, d, u.finish))
    BY <1>1
  <1> HIDE DEF u
  <1>6. CASE ResetToIdleState(u)
    BY <1>2, <1>3, <1>4, <1>6, ResetInv
  <1>7. CASE /\ ComposingLength(u) > 0
             /\ ShowCandidateWindow(NextState(u), u, Offer(cands, d, u.finish))
    <2> DEFINE c == Offer(cands, d, u.finish)
    <2>1. /\ u.len # 0
          /\ ~u.finish => d.total # 0
          /\ u.decoded # 0 /\ d.fixed = 0 => ~u.finish
      BY <1>2, <1>4, <1>7, AfterIs
    <2>2. d.total \in Nat /\ u.finish \in BOOLEAN
      BY <1>2, <1>4 DEF DecOK, InfoOK
    <2>3. /\ CandsOK(c) /\ c.total = d.total
          /\ ~u.finish => Full(c) /\ Ready(c, 0) /\ c.cached # 0
      BY <1>3, <2>1, <2>2, OfferIs
    <2> HIDE DEF c
    <2>4. NextState(u) \in {"INPUT", "COMPOSING"} /\ (NextState(u) = "INPUT" => ~u.finish)
      BY <1>2, <2>1 DEF NextState
    <2>5. ShowCandidateWindow(NextState(u), u, c)
      BY <1>7 DEF c
    <2> QED BY <1>2, <1>3, <1>4, <2>1, <2>3, <2>4, <2>5, ShowInv
  <1> QED BY <1>5, <1>6, <1>7

(* What SearchOrDelete gets from the decoder, for a marking that fits. *)
LEMMA DelSearchIs ==
    ASSUME NEW d, DecOK(d), NEW del, NEW clear, NEW x \in DelSearch(d, del, clear),
           \/ del.inspl /\ del.pos \in 0..d.fixed - 1
           \/ ~del.inspl /\ del.pos \in Nat /\ del.pos < d.len
    PROVE  DecOK(x)
  <1>1. CASE del.inspl /\ del.pos \in 0..d.fixed - 1
    BY <1>1, DelSpellingIs DEF DelSearch
  <1>2. CASE ~del.inspl /\ del.pos \in Nat /\ del.pos < d.len
    BY <1>2, DelCharIs DEF DelSearch
  <1> QED BY <1>1, <1>2

(* A deletion before or behind the cursor, with the search that follows. *)
LEMMA DeleteInv ==
    ASSUME IInv, Typing, NEW pos \in Nat, pos < info.len,
           SearchOrDelete(PrepareDelete(info, pos), {dec})
    PROVE  IInv'
  <1> DEFINE n == PrepareDelete(info, pos)
             answers == IF n.del.pos < 0 THEN {dec}
                        ELSE DelSearch(dec, n.del, state # "COMPOSING")
  <1>1. InfoOK(info) /\ info.del = NoDeletion /\ DecOK(dec) /\ Copies(info, dec)
    BY DEF IInv
  <1>2. /\ InfoOK(n)
        /\ FixedAtCursor(info) # {} =>
              \E p \in FixedAtCursor(info) :
                 n.del = [pos |-> p, inspl |-> TRUE] /\ n.cursor = info.starts[p + 1]
        /\ FixedAtCursor(info) = {} =>
              n.del = [pos |-> pos, inspl |-> FALSE] /\ n.cursor = Smaller(info.cursor, pos)
    BY <1>1, PrepareIs
  <1>3. ChooseAndUpdate(n, answers, FALSE)
    BY DEF SearchOrDelete
  <1> HIDE DEF n
  <1>4. \/ n.del.inspl /\ n.del.pos \in 0..dec.fixed - 1
        \/ ~n.del.inspl /\ n.del.pos \in Nat /\ n.del.pos < dec.len
    <2>1. CASE FixedAtCursor(info) # {}
      <3>1. PICK p \in FixedAtCursor(info) : n.del = [pos |-> p, inspl |-> TRUE]
        BY <1>2, <2>1
      <3>2. p \in 0..dec.fixed - 1
        BY <1>1 DEF FixedAtCursor, Copies
      <3> QED BY <3>1, <3>2
    <2>2. CASE FixedAtCursor(info) = {}
      BY <1>1, <1>2, <2>2 DEF Copies
    <2> QED BY <2>1, <2>2
  <1>5. \A x \in answers : DecOK(x)
    <2>1. ASSUME NEW x \in DelSearch(dec, n.del, state # "COMPOSING") PROVE DecOK(x)
      BY <1>1, <1>4, DelSearchIs
    <2> QED BY <1>1, <2>1
  <1>6. state \in {"IDLE", "INPUT", "COMPOSING"} /\ state # "IDLE"
    BY DEF Typing
  <1> HIDE DEF answers
  <1> QED BY <1>2, <1>3, <1>5, <1>6, ChooseInv

(* The keys that change what is typed. *)
LEMMA EditInv ==
    ASSUME IInv, state \in {"IDLE", "INPUT", "COMPOSING"}, Edit
    PROVE  IInv'
  <1>1. InfoOK(info) /\ info.del = NoDeletion /\ DecOK(dec) /\ CandsOK(cands)
    BY DEF IInv
  <1>2. info.del.pos < 0
    BY <1>1 DEF NoDeletion
  <1>3. info.len \in Nat /\ info.cursor \in Nat /\ info.cursor <= info.len
    BY <1>1, InfoIs
  <1>4. Typing => state # "IDLE"
    BY DEF Typing
  <1>5. CASE IdleLetter
    <2> DEFINE i == AddFirstSplChar(info)
    <2>1. InfoOK(i)
      BY <1>1, AddIs
    <2>2. ChooseAndUpdate(i, Search(NoString, 1, 0), FALSE)
      BY <1>5 DEF IdleLetter
    <2>3. \A d \in Search(NoString, 1, 0) : DecOK(d) /\ d.fixed = 0
      <3> TAKE d \in Search(NoString, 1, 0)
      <3>1. DecOK(NoString) /\ NoString.fixed = 0 /\ 1 \in 0..PyMax - 1 /\ 0 \in Int
        BY NoStringOK, ImeAssumption DEF NoString
      <3>2. DecOK(d) /\ d.fixed <= NoString.fixed
        BY <3>1, SearchIs
      <3>3. d.fixed \in Nat
        BY <3>2, DecIs
      <3> QED BY <3>1, <3>2, <3>3
    <2> HIDE DEF i
    <2> QED BY <2>1, <2>2, <2>3, ChooseInv
  <1>6. CASE Insert
    <2> DEFINE i == AddSplChar(info)
    <2>1. InfoOK(i) /\ i.del.pos < 0
      BY <1>1, <1>2, <1>6, AddIs DEF Insert
    <2>2. SearchOrDelete(i, Search(dec, i.len, info.cursor))
      BY <1>6 DEF Insert
    <2> HIDE DEF i
    <2>3. ChooseAndUpdate(i, Search(dec, i.len, info.cursor), FALSE)
      BY <2>1, <2>2 DEF SearchOrDelete
    <2>4. \A d \in Search(dec, i.len, info.cursor) : DecOK(d)
      <3>1. i.len \in 0..PyMax - 1 /\ info.cursor \in Int
        BY <1>3, <2>1 DEF InfoOK
      <3> QED BY <1>1, <3>1, SearchIs
    <2>5. state # "IDLE"
      BY <1>4, <1>6 DEF Insert
    <2> QED BY <2>1, <2>3, <2>4, <2>5, ChooseInv
  <1>7. ASSUME Typing, SearchOrDelete(info, {dec}) PROVE IInv'
    <2>1. ChooseAndUpdate(info, {dec}, FALSE)
      BY <1>2, <1>7 DEF SearchOrDelete
    <2>2. \A d \in {dec} : DecOK(d)
      BY <1>1
    <2> QED BY <1>1, <1>4, <1>7, <2>1, <2>2, ChooseInv
  <1>8. CASE Backspace
    <2>1. Typing /\ SearchOrDelete(PrepareDeleteBeforeCursor(info), {dec})
      BY <1>8 DEF Backspace
    <2>2. CASE info.cursor > 0
      <3>1. info.cursor - 1 \in Nat /\ info.cursor - 1 < info.len
        BY <1>3, <2>2
      <3> QED BY <2>1, <2>2, <3>1, DeleteInv DEF PrepareDeleteBeforeCursor
    <2>3. CASE ~(info.cursor > 0)
      BY <1>7, <2>1, <2>3 DEF PrepareDeleteBeforeCursor
    <2> QED BY <2>2, <2>3
  <1>9. CASE Delete
    <2>1. Typing /\ SearchOrDelete(PrepareDeleteAfterCursor(info), {dec})
      BY <1>9 DEF Delete, Typing
    <2>2. CASE info.cursor < info.len
      BY <1>3, <2>1, <2>2, DeleteInv DEF PrepareDeleteAfterCursor
    <2>3. CASE ~(info.cursor < info.len)
      BY <1>7, <2>1, <2>3 DEF PrepareDeleteAfterCursor
    <2> QED BY <2>2, <2>3
  <1> QED BY <1>5, <1>6, <1>7, <1>8, <1>9 DEF Edit

(* The keys that choose a candidate. *)
LEMMA ChoosingInv ==
    ASSUME IInv, state \in {"IDLE", "INPUT", "COMPOSING"}, Choosing
    PROVE  IInv'
  <1>1. InfoOK(info) /\ DecOK(dec)
    BY DEF IInv
  <1>2. ASSUME NEW id, Typing, ChooseAndUpdate(info, Choose(dec, id), TRUE) PROVE IInv'
    <2>1. \A d \in Choose(dec, id) : DecOK(d)
      BY <1>1, ChooseIs
    <2>2. state # "IDLE"
      BY <1>2 DEF Typing
    <2> QED BY <1>1, <1>2, <2>1, <2>2, ChooseInv
  <1> QED BY <1>2, Zenon DEF Choosing, ChooseCandidate, ChooseCandidateInPage

(* The keys that move the caret. *)
LEMMA MovingInv ==
    ASSUME IInv, state \in {"IDLE", "INPUT", "COMPOSING"}, Moving
    PROVE  IInv'
  <1>1. /\ mode \in {"CHINESE", "ENGLISH"} /\ status \in {"SHOW_PINYIN", "EDIT_PINYIN"}
        /\ InfoOK(info) /\ info.del = NoDeletion /\ DecOK(dec)
        /\ CandsOK(cands) /\ (~info.finish => Full(cands))
        /\ Typing => Copies(info, dec) /\ Offered(info, cands, dec) /\ info.len # 0
        /\ state = "INPUT" => ~info.finish
    BY DEF IInv
  <1>2. info.len \in Nat /\ info.cursor \in Nat /\ info.cursor <= info.len
    BY <1>1, InfoIs
  <1>3. ASSUME NEW k \in Nat, k <= info.len, info' = [info EXCEPT !.cursor = k], Typing,
               state' = "COMPOSING", status' \in {"SHOW_PINYIN", "EDIT_PINYIN"},
               UNCHANGED <<mode, dec, cands>>
        PROVE  IInv'
    <2>1. InfoOK(info')
      BY <1>1, <1>3, CursorSet
    <2>2. /\ info'.del = info.del /\ info'.len = info.len /\ info'.starts = info.starts
          /\ info'.fixed = info.fixed /\ info'.decoded = info.decoded
          /\ info'.finish = info.finish
      BY <1>1, <1>3 DEF InfoOK
    <2>3. dec' = dec /\ cands' = cands /\ mode' = mode
      BY <1>3
    <2>4. Copies(info', dec') /\ Offered(info', cands', dec')
      BY <1>1, <1>3, <2>2, <2>3 DEF Copies, Offered
    <2> QED BY <1>1, <1>3, <2>1, <2>2, <2>3, <2>4 DEF IInv
  <1>4. ASSUME NEW k \in Nat, k <= info.len, EditComposing([info EXCEPT !.cursor = k])
        PROVE  IInv'
    <2>1. Typing /\ state' = "COMPOSING" /\ status' \in {"SHOW_PINYIN", "EDIT_PINYIN"}
          /\ info' = [info EXCEPT !.cursor = k] /\ UNCHANGED <<mode, dec, cands>>
      BY <1>4 DEF EditComposing, Typing, StatusFor
    <2> QED BY <1>3, <1>4, <2>1
  <1>5. ASSUME NEW k \in Nat, k <= info.len, ComposeMove([info EXCEPT !.cursor = k])
        PROVE  IInv'
    <2>1. Typing /\ state' = "COMPOSING" /\ status' \in {"SHOW_PINYIN", "EDIT_PINYIN"}
          /\ info' = [info EXCEPT !.cursor = k] /\ UNCHANGED <<mode, dec, cands>>
      BY <1>1, <1>5 DEF ComposeMove, Typing
    <2> QED BY <1>3, <1>5, <2>1
  <1>6. CASE InputLeft
    <2>1. Smaller(info.cursor, info.len) \in Nat /\ Smaller(info.cursor, info.len) <= info.len
      BY <1>2 DEF Smaller
    <2>2. EditComposing([info EXCEPT !.cursor = Smaller(info.cursor, info.len)])
      BY <1>6 DEF InputLeft, Edge
    <2> QED BY <1>4, <2>1, <2>2
  <1>7. CASE InputHome
    BY <1>2, <1>4, <1>7 DEF InputHome
  <1>8. CASE ComposeDown
    <2>1. /\ ShowCandidateWindow("INPUT", info, cands) /\ Typing /\ ~info.finish
          /\ dec' = dec /\ mode' = mode
      BY <1>8 DEF ComposeDown, Typing
    <2>2. /\ ShownOK(cands) /\ cands.total = dec.total /\ cands.cached # 0 /\ info.len # 0
          /\ Copies(info, dec)
      BY <1>1, <2>1 DEF Offered
    <2>3. Ready(cands, 0)
      BY <2>2 DEF ShownOK, Ready
    <2> QED BY <1>1, <2>1, <2>2, <2>3, ShowInv
  <1>9. ASSUME NEW n \in {MoveLeft(info), MoveRight(info)}, ComposeMove(n) PROVE IInv'
    <2>1. Last(info.starts) <= info.len
      <3>1. Typing
        BY <1>9 DEF ComposeMove, Typing
      <3> QED BY <1>1, <3>1 DEF Copies, DecOK
    <2>2. \E k \in 0..info.len : n = [info EXCEPT !.cursor = k]
      BY <1>1, <2>1, MoveIs
    <2>3. PICK k \in 0..info.len : n = [info EXCEPT !.cursor = k]
      BY <2>2
    <2>4. k \in Nat /\ k <= info.len
      BY <1>2
    <2> QED BY <1>5, <1>9, <2>3, <2>4
  <1>10. CASE ComposeHome \/ ComposeEnd
    BY <1>2, <1>5, <1>10 DEF ComposeHome, ComposeEnd
  <1> QED BY <1>6, <1>7, <1>8, <1>9, <1>10 DEF Moving, ComposeLeft, ComposeRight

(* The keys that turn the pages. *)
LEMMA TurningInv ==
    ASSUME IInv, state \in {"IDLE", "INPUT", "COMPOSING"}, Turning
    PROVE  IInv'
  <1>1. /\ mode \in {"CHINESE", "ENGLISH"} /\ status \in {"SHOW_PINYIN", "EDIT_PINYIN"}
        /\ InfoOK(info) /\ info.del = NoDeletion /\ DecOK(dec)
        /\ CandsOK(cands) /\ (~info.finish => Full(cands))
        /\ Typing => Copies(info, dec) /\ Offered(info, cands, dec) /\ info.len # 0
        /\ state = "INPUT" => ~info.finish
    BY DEF IInv
  <1>2. ASSUME NEW c, TurnCandidates(c), Typing, Turned(cands, c) PROVE IInv'
    <2>1. /\ cands' = c /\ state' = state /\ mode' = mode /\ status' = status /\ dec' = dec
          /\ info' = info
      BY <1>2 DEF TurnCandidates
    <2>2. ShownOK(c) /\ c.total = cands.total /\ cands.cached <= c.cached /\ (Full(cands) => Full(c))
      BY <1>2 DEF Turned
    <2>3. cands.cached # 0 => c.cached # 0
      <3>1. cands.cached \in Nat /\ c.cached \in Nat
        BY <1>1, <2>2 DEF CandsOK, ShownOK
      <3> QED BY <2>2, <3>1
    <2>4. CandsOK(c) /\ (~info.finish => Full(c)) /\ Offered(info, c, dec)
      BY <1>1, <1>2, <2>2, <2>3 DEF Offered, ShownOK
    <2> QED BY <1>1, <1>2, <2>1, <2>4 DEF IInv, Typing
  <1>3. Typing => ShownOK(cands)
    BY <1>1 DEF Offered
  <1>4. CASE CandidateUp \/ CandidateDown \/ CandidatePageUp \/ CandidatePageDown
    <2>1. Typing
      BY <1>4 DEF CandidateUp, CandidateDown, CandidatePageUp, CandidatePageDown, Typing
    <2>2. /\ Turned(cands, CursorLeft(cands)) /\ Turned(cands, CursorRight(cands))
          /\ Turned(cands, PageUp(cands)) /\ Turned(cands, PageDown(cands))
      BY <1>3, <2>1, PageUpIs, PageDownIs, CursorIs
    <2> QED BY <1>2, <1>4, <2>1, <2>2
            DEF CandidateUp, CandidateDown, CandidatePageUp, CandidatePageDown
  <1>5. ASSUME NEW n \in PageSizes, SetCandidatePageSize(n) PROVE IInv'
    <2>1. /\ cands' = [cands EXCEPT !.size = n] /\ state' = state /\ mode' = mode
          /\ status' = status /\ dec' = dec /\ info' = info
      BY <1>5 DEF SetCandidatePageSize, TurnCandidates
    <2>2. n \in Sizes
      BY DEF Sizes
    <2>3. /\ CandsOK(cands') /\ cands'.start = cands.start /\ cands'.total = cands.total
          /\ cands'.cached = cands.cached /\ cands'.page = cands.page
      BY <1>1, <2>1, <2>2 DEF CandsOK
    <2>4. Full(cands) => Full(cands')
      BY <2>3 DEF Full
    <2>5. Offered(info, cands, dec) => Offered(info, cands', dec)
      BY <2>3 DEF Offered, ShownOK
    <2> QED BY <1>1, <2>1, <2>3, <2>4, <2>5 DEF IInv, Typing
  <1> QED BY <1>4, <1>5 DEF Turning

(* The keys that end the input. *)
LEMMA LeavingInv ==
    ASSUME IInv, state \in {"IDLE", "INPUT", "COMPOSING"}, Leaving
    PROVE  IInv'
  <1>1. /\ mode \in {"CHINESE", "ENGLISH"} /\ status \in {"SHOW_PINYIN", "EDIT_PINYIN"}
        /\ InfoOK(info) /\ info.del = NoDeletion /\ DecOK(dec)
        /\ CandsOK(cands) /\ (~info.finish => Full(cands))
        /\ Typing => Copies(info, dec) /\ Offered(info, cands, dec) /\ info.len # 0
        /\ state = "INPUT" => ~info.finish
    BY DEF IInv
  <1>2. CASE Return
    <2>1. ResetToIdleState(info) /\ dec' = dec /\ mode' = mode
      BY <1>2 DEF Return
    <2> QED BY <1>1, <2>1, ResetInv
  <1>3. CASE InputCommaPeriod
    <2>1. /\ state' = "IDLE" /\ cands' = ShowCandidates(ResetCandidates(cands))
          /\ mode' = mode /\ status' = status /\ dec' = dec /\ info' = info
      BY <1>3 DEF InputCommaPeriod
    <2>2. CandsOK(cands') /\ Full(cands')
      BY <1>1, <2>1, EmptyWindow
    <2> QED BY <1>1, <2>1, <2>2 DEF IInv, Typing
  <1>4. ASSUME Reset, mode' \in {"CHINESE", "ENGLISH"} PROVE IInv'
    <2>1. dec' = dec
      BY <1>4 DEF Reset
    <2>2. CASE ResetToIdleState(info)
      BY <1>1, <1>4, <2>1, <2>2, ResetInv
    <2>3. CASE UNCHANGED <<state, status, info, cands>>
      BY <1>1, <1>4, <2>1, <2>3 DEF IInv, Typing
    <2> QED BY <1>4, <2>2, <2>3 DEF Reset
  <1> QED BY <1>1, <1>2, <1>3, <1>4 DEF Leaving, Escape, EngineReset, TriggerInputMode

(* Every key preserves the invariant. *)
LEMMA NextIInv == ViewOK /\ IInv /\ [Next]_vars => IInv'
  <1> SUFFICES ASSUME ViewOK, IInv, [Next]_vars PROVE IInv'
    OBVIOUS
  <1>1. state \in {"IDLE", "INPUT", "COMPOSING"}
    BY DEF ViewOK
  <1>2. CASE UNCHANGED vars
    BY <1>2 DEF vars, IInv, Typing
  <1> QED BY <1>1, <1>2, EditInv, ChoosingInv, MovingInv, TurningInv, LeavingInv DEF Next

(* The invariant of the input method, for every decoder that answers within
   the sets of its model. *)
THEOREM RecordsInductive == Spec => [](ViewOK /\ IInv)
  BY InitViewOK, NextViewOK, InitIInv, NextIInv, PTL DEF Spec

-----------------------------------------------------------------------------
(* The sets of the variables, cursors in bounds, no deletion left over, and
   DecodingInfo's copies the decoder's own while something is typed. *)
THEOREM TypeCorrect == Spec => []TypeOK
  <1>1. ViewOK /\ IInv => TypeOK
    <2> SUFFICES ASSUME ViewOK, IInv PROVE TypeOK
      OBVIOUS
    <2>1. InfoOK(info) /\ info.del = NoDeletion /\ CandsOK(cands)
          /\ (Typing => Copies(info, dec) /\ Offered(info, cands, dec))
      BY DEF IInv
    <2>2. /\ info.len \in 0..PyMax - 1 /\ info.cursor \in 0..info.len
          /\ info.starts \in AllStarts /\ info.fixed \in 0..Spellings(info)
      <3>1. info.len \in 0..PyMax - 1
        BY <2>1 DEF InfoOK
      <3> QED BY <2>1, <3>1, InfoIs
    <2>3. cands.cached \in 0..cands.total /\ cands.lit >= cands.table /\ cands.table >= 0
      BY <2>1 DEF CandsOK, TableOK
    <2>4. Typing => /\ info.len = dec.len /\ info.starts = dec.starts /\ info.fixed = dec.fixed
                    /\ cands.total = dec.total
      BY <2>1 DEF Copies, Offered
    <2> QED BY <2>1, <2>2, <2>3, <2>4 DEF TypeOK, IInv, ViewOK
  <1> QED BY <1>1, RecordsInductive, PTL

(* While candidates are offered there is one for get_current_full_sent. *)
THEOREM CandidatesThere == Spec => []InputHasCandidates
  <1>1. ViewOK /\ IInv => InputHasCandidates
    <2> SUFFICES ASSUME IInv, state = "INPUT" PROVE cands.cached > 0 /\ ~info.finish
      BY DEF InputHasCandidates
    <2>1. ~info.finish /\ Offered(info, cands, dec) /\ CandsOK(cands)
      BY DEF IInv, Typing
    <2>2. cands.cached \in Nat /\ cands.cached # 0
      BY <2>1 DEF Offered, CandsOK
    <2> QED BY <2>1, <2>2
  <1> QED BY <1>1, RecordsInductive, PTL

(* Only the last page is shorter than any page size in use, whenever and to
   whatever the panel changed it. *)
THEOREM PagesCorrect == Spec => []PagesFull
  <1>1. ViewOK /\ IInv => PagesFull
    <2> SUFFICES ASSUME IInv, NEW p \in 1..Len(cands.start) - 1
                 PROVE  /\ cands.start[p] <= cands.start[p + 1]
                        /\ cands.start[p + 1] <= cands.total
                        /\ ~info.finish /\ cands.start[p + 1] < cands.total
                               => \E n \in PageSizes \union {TableSize} :
                                     cands.start[p + 1] - cands.start[p] = n
      BY DEF PagesFull
    <2>1. CandsOK(cands) /\ (~info.finish => Full(cands))
      BY DEF IInv
    <2>2. /\ StartsOK(cands.start, cands.cached) /\ cands.start \in Seq(Nat)
          /\ cands.cached \in Nat /\ cands.total \in Nat /\ cands.cached <= cands.total
      BY <2>1 DEF CandsOK
    <2>3. p + 1 \in 1..Len(cands.start)
      BY <2>2, LenProperties
    <2>4. cands.start[p] <= cands.start[p + 1] /\ cands.start[p + 1] <= cands.cached
          /\ cands.start[p + 1] \in Nat
      BY <2>2, <2>3, ElementOfSeq DEF StartsOK
    <2>5. ~info.finish /\ cands.start[p + 1] < cands.total
              => cands.start[p + 1] - cands.start[p] \in PageSizes \cup {TableSize}
      BY <2>1 DEF Full, Sizes
    <2>6. cands.start[p + 1] <= cands.total
      BY <2>2, <2>4, SMTT(30)
    <2> QED BY <2>4, <2>5, <2>6
  <1> QED BY <1>1, RecordsInductive, PTL

(* A page that does not end the candidates has a successor. *)
THEOREM PageDownCorrect == Spec => []PageDownShowsMore
  <1>1. ViewOK /\ IInv => PageDownShowsMore
    <2> SUFFICES ASSUME IInv, Typing, CurrentPageStart(cands, cands.page + 1) < cands.total
                 PROVE  PageDown(cands).page = cands.page + 1
      BY DEF PageDownShowsMore
    <2>1. ShownOK(cands)
      BY DEF IInv, Offered
    <2> QED BY <2>1, PageDownIs
  <1> QED BY <1>1, RecordsInductive, PTL

-----------------------------------------------------------------------------
(* The caret. *)

(* With the cursor behind the last letter, every spelling starts before it. *)
LEMMA AllPassed ==
    ASSUME NEW d, DecOK(d), NEW i, InfoOK(i), Copies(i, d), i.cursor = i.len
    PROVE  /\ {k \in 1..i.fixed : i.cursor >= i.starts[k + 1]} = 1..i.fixed
           /\ {k \in i.fixed + 1..Spellings(i) : i.starts[k] < i.cursor} = i.fixed + 1..Spellings(i)
           /\ {k \in i.fixed + 1..Spellings(i) : k # 1 /\ i.starts[k] < i.decoded}
                 = (i.fixed + 1..Spellings(i)) \ {1}
  <1>1. /\ Spellings(d) \in Nat /\ d.fixed \in Nat /\ d.fixed <= Spellings(d)
        /\ d.len \in Nat /\ Last(d.starts) \in Nat /\ Last(d.starts) <= d.len
        /\ Len(d.starts) = Spellings(d) + 1
        /\ \A k \in 1..Spellings(d) + 1 : d.starts[k] \in Nat /\ d.starts[k] <= Last(d.starts)
        /\ \A j, k \in 1..Spellings(d) + 1 : j < k => d.starts[j] < d.starts[k]
    BY DecIs
  <1>2. /\ i.cursor = d.len /\ i.starts = d.starts /\ i.fixed = d.fixed
        /\ i.decoded = Last(d.starts) /\ Spellings(i) = Spellings(d)
    BY DEF Copies, Spellings
  <1>3. \A k \in 1..d.fixed : d.len >= d.starts[k + 1]
    <2> TAKE k \in 1..d.fixed
    <2>1. k + 1 \in 1..Spellings(d) + 1
      BY <1>1
    <2>2. d.starts[k + 1] \in Nat /\ d.starts[k + 1] <= Last(d.starts)
      BY <1>1, <2>1
    <2> QED BY <1>1, <2>2
  <1>4. \A k \in d.fixed + 1..Spellings(d) : d.starts[k] < Last(d.starts) /\ d.starts[k] < d.len
    <2> TAKE k \in d.fixed + 1..Spellings(d)
    <2>1. k \in 1..Spellings(d) + 1 /\ Spellings(d) + 1 \in 1..Spellings(d) + 1 /\ k < Spellings(d) + 1
      BY <1>1
    <2>2. d.starts[k] < d.starts[Spellings(d) + 1] /\ d.starts[k] \in Nat
      BY <1>1, <2>1
    <2>3. d.starts[Spellings(d) + 1] = Last(d.starts)
      BY <1>1 DEF Last
    <2> QED BY <1>1, <2>2, <2>3
  <1> QED BY <1>2, <1>3, <1>4

(* The caret is behind the displayed string, although the spaces in it are
   counted in two places. *)
THEOREM CaretCorrect == Spec => []CaretAtEnd
  <1>1. ViewOK /\ IInv => CaretAtEnd
    <2> SUFFICES ASSUME IInv, Typing, info.cursor = info.len
                 PROVE  CursorPosInCmpsDisplay(info) = DisplayLength(info)
      BY DEF CaretAtEnd
    <2> DEFINE f == info.fixed
               n == Spellings(info)
               spaces == f + 1..n
    <2>1. InfoOK(info) /\ DecOK(dec) /\ Copies(info, dec)
      BY DEF IInv
    <2>2. /\ {k \in 1..f : info.cursor >= info.starts[k + 1]} = 1..f
          /\ {k \in f + 1..n : info.starts[k] < info.cursor} = spaces
          /\ {k \in f + 1..n : k # 1 /\ info.starts[k] < info.decoded} = spaces \ {1}
      BY <2>1, AllPassed
    <2>3. f \in Nat /\ n \in Nat /\ f <= n /\ info.len \in Nat /\ info.starts[f + 1] \in Nat
      <3>1. /\ f \in Nat /\ n \in Nat /\ f <= n /\ info.len \in Nat
            /\ \A k \in 1..n + 1 : info.starts[k] \in Nat
        BY <2>1, InfoIs
      <3>2. f + 1 \in 1..n + 1
        BY <3>1
      <3> QED BY <3>1, <3>2
    <2>4. Cardinality(1..f) = f
      BY <2>3, FS_Interval, SMTT(30)
    <2>5. IsFiniteSet(spaces) /\ Cardinality(spaces) = n - f
      <3>1. f + 1 \in Int /\ n \in Int /\ (IF f + 1 > n THEN 0 ELSE n - (f + 1) + 1) = n - f
        <4> HIDE DEF f, n
        <4> QED BY <2>3
      <3> HIDE DEF f, n
      <3> QED BY <3>1, FS_Interval
    <2>6. Cardinality(spaces \ {1}) = IF n - f > 0 /\ f = 0 THEN n - f - 1 ELSE n - f
      <3>1. 1 \in spaces <=> n - f > 0 /\ f = 0
        BY <2>3
      <3> HIDE DEF spaces
      <3> QED BY <2>3, <2>5, <3>1, FS_RemoveElement
    <2>7. CursorPosInCmps(info) = info.cursor - info.starts[f + 1] + f
      BY <2>2, <2>4 DEF CursorPosInCmps
    <2>8. DisplayLength(info) = f + info.len - info.starts[f + 1] + Cardinality(spaces \ {1})
      BY <2>2 DEF DisplayLength, ComposingLength, FixedEnd
    <2>9. CursorPosInCmpsDisplay(info)
             = CursorPosInCmps(info) + IF n - f > 0 /\ f = 0 THEN n - f - 1 ELSE n - f
      BY <2>2, <2>5 DEF CursorPosInCmpsDisplay
    <2> HIDE DEF f, n, spaces
    <2> QED BY <2>3, <2>6, <2>7, <2>8, <2>9
  <1> QED BY <1>1, RecordsInductive, PTL

-----------------------------------------------------------------------------
(* What is committed. *)

(* A commit that leaves nothing typed commits all that was typed. *)
LEMMA CommitStep ==
    ASSUME IInv, Next, committed' # <<>>, info'.len = 0
    PROVE  committed' = <<<<0, info.len>>>>
  <1>1. InfoOK(info) /\ DecOK(dec) /\ (Typing => Copies(info, dec) /\ info.len # 0)
    BY DEF IInv
  <1>2. ASSUME NEW i, NEW answers, ChooseAndUpdate(i, answers, FALSE) PROVE FALSE
    BY <1>2 DEF ChooseAndUpdate
  <1>3. ~Edit
    BY <1>2 DEF Edit, IdleLetter, Insert, Backspace, Delete, SearchOrDelete
  <1>4. ASSUME NEW id, Typing, ChooseAndUpdate(info, Choose(dec, id), TRUE)
        PROVE  committed' = <<<<0, info.len>>>>
    <2>1. PICK d \in Choose(dec, id) : \E after \in {UpdateForSearch(info, d)} :
              CanDoPrediction(after) /\ committed' = <<<<0, after.decoded>>>>
      BY <1>4, Zenon DEF ChooseAndUpdate
    <2> DEFINE u == UpdateForSearch(info, d)
    <2>2. CanDoPrediction(u) /\ committed' = <<<<0, u.decoded>>>>
      BY <2>1
    <2>3. DecOK(d) /\ d.len = dec.len
      BY <1>1, ChooseIs
    <2>4. InfoOK(u) /\ Copies(u, d)
      BY <1>1, <2>3, UpdateIs
    <2> HIDE DEF u
    <2>5. u.decoded = u.len
      BY <2>2, <2>3, <2>4, AfterIs
    <2>6. u.len = info.len
      BY <1>1, <1>4, <2>3, <2>4 DEF Copies
    <2> QED BY <2>2, <2>5, <2>6
  <1>5. CASE Choosing
    BY <1>4, <1>5, Zenon DEF Choosing, ChooseCandidate, ChooseCandidateInPage
  <1>6. ~Moving
    BY DEF Moving, InputLeft, InputHome, EditComposing, ComposeDown, ComposeLeft, ComposeRight,
           ComposeHome, ComposeEnd, ComposeMove
  <1>7. ~Turning
    BY DEF Turning, CandidateUp, CandidateDown, CandidatePageUp, CandidatePageDown,
           SetCandidatePageSize, TurnCandidates
  <1>8. CASE Leaving
    <2>1. ~Reset
      BY DEF Reset
    <2>2. ~InputCommaPeriod
      BY <1>1 DEF InputCommaPeriod, Typing
    <2>3. Return
      BY <1>8, <2>1, <2>2 DEF Leaving, Escape, EngineReset, TriggerInputMode
    <2> QED BY <2>3 DEF Return
  <1> QED BY <1>3, <1>5, <1>6, <1>7, <1>8 DEF Next

(* Whatever ends with a clean surface commits the whole of it once: what did
   not decode is not dropped when the last spelling is chosen. *)
THEOREM CommitCorrect == Spec => CommitWhole
  <1>1. (ViewOK /\ IInv) /\ [Next]_vars
           => [committed' # <<>> /\ info'.len = 0 => committed' = <<<<0, info.len>>>>]_vars
    BY CommitStep
  <1> QED BY <1>1, RecordsInductive, PTL DEF Spec, CommitWhole

-----------------------------------------------------------------------------
(* Backspace. *)

(* A set of natural numbers has a least one. *)
LEMMA LeastExists ==
    ASSUME NEW S \in SUBSET Nat, S # {}
    PROVE  \E x \in S : \A y \in S : x <= y
  <1> DEFINE R == {xy \in Nat \X Nat : xy[1] < xy[2]}
  <1>1. IsWellFoundedOn(R, Nat)
    BY NatLessThanWellFounded, Zenon DEF OpToRel
  <1>2. PICK x \in S : \A y \in S : <<y, x>> \notin R
    <2> HIDE DEF R
    <2> QED BY <1>1, WFMin
  <1>3. \A y \in S : x <= y
    <2>1. TAKE y \in S
    <2>2. x \in Nat /\ y \in Nat
      BY <1>2
    <2>3. y < x => <<y, x>> \in R
      <3>1. <<y, x>> \in Nat \X Nat /\ <<y, x>>[1] = y /\ <<y, x>>[2] = x
        BY <2>2
      <3> QED BY <3>1, Zenon
    <2>4. ~(y < x)
      BY <1>2, <2>3, Zenon
    <2> QED BY <2>2, <2>4
  <1> QED BY <1>3

(* A cursor in the fixed part is in or behind one of its spellings. *)
LEMMA CursorInFixed ==
    ASSUME NEW i, InfoOK(i), 0 < i.cursor, i.cursor <= FixedEnd(i)
    PROVE  FixedAtCursor(i) # {}
  <1>1. /\ i.cursor \in Nat /\ i.fixed \in Nat /\ i.fixed <= Spellings(i) /\ Spellings(i) \in Nat
        /\ \A k \in 1..Spellings(i) + 1 : i.starts[k] \in Nat
        /\ i.starts[1] = 0
    BY InfoIs
  <1> DEFINE S == {k \in 1..i.fixed + 1 : i.cursor <= i.starts[k]}
  <1>2. i.fixed + 1 \in S
    BY <1>1 DEF FixedEnd
  <1>3. S \in SUBSET Nat /\ S # {}
    BY <1>1, <1>2
  <1>4. PICK m \in S : \A y \in S : m <= y
    <2> HIDE DEF S
    <2> QED BY <1>3, LeastExists
  <1>5. m \in 1..i.fixed + 1 /\ i.cursor <= i.starts[m]
    OBVIOUS
  <1>6. m # 1
    BY <1>1, <1>5
  <1>7. m - 1 \in 1..i.fixed + 1 /\ m - 1 \notin S
    <2>1. m - 1 \in 1..i.fixed + 1 /\ ~(m <= m - 1)
      BY <1>1, <1>5, <1>6
    <2> HIDE DEF S
    <2> QED BY <1>4, <2>1
  <1>8. i.starts[m - 1] < i.cursor
    <2>1. ~(i.cursor <= i.starts[m - 1])
      BY <1>7
    <2>2. i.starts[m - 1] \in Nat
      <3>1. m - 1 \in 1..Spellings(i) + 1
        BY <1>1, <1>7
      <3> QED BY <1>1, <3>1
    <2> QED BY <1>1, <2>1, <2>2
  <1>9. m - 2 \in 0..i.fixed - 1 /\ (m - 2) + 1 = m - 1 /\ (m - 2) + 2 = m
    BY <1>1, <1>5, <1>6
  <1>10. m - 2 \in FixedAtCursor(i)
    BY <1>5, <1>8, <1>9 DEF FixedAtCursor
  <1> QED BY <1>10

(* The deletion before the cursor takes as many letters from the string as
   were marked, and marks what is before the cursor. *)
LEMMA DeletedBefore ==
    ASSUME NEW i, InfoOK(i), i.del = NoDeletion, i.cursor > 0,
           NEW d, DecOK(d), Copies(i, d), NEW n, n = PrepareDelete(i, i.cursor - 1),
           NEW clear, NEW x \in DelSearch(d, n.del, clear)
    PROVE  /\ DecOK(x) /\ x.len < i.len
           /\ n.cursor < i.cursor /\ i.cursor - n.cursor <= i.len - x.len
  <1>1. /\ i.cursor \in Nat /\ i.cursor <= i.len /\ i.len \in Nat
        /\ i.cursor - 1 \in Nat /\ i.cursor - 1 < i.len
    BY InfoIs
  <1>2. /\ InfoOK(n)
        /\ FixedAtCursor(i) # {} =>
              \E p \in FixedAtCursor(i) :
                 n.del = [pos |-> p, inspl |-> TRUE] /\ n.cursor = i.starts[p + 1]
        /\ FixedAtCursor(i) = {} =>
              n.del = [pos |-> i.cursor - 1, inspl |-> FALSE]
                 /\ n.cursor = Smaller(i.cursor, i.cursor - 1)
    <2>1. \A pos \in Nat :
             LET r == PrepareDelete(i, pos)
             IN  /\ InfoOK(r)
                 /\ FixedAtCursor(i) # {} =>
                       \E p \in FixedAtCursor(i) :
                          r.del = [pos |-> p, inspl |-> TRUE] /\ r.cursor = i.starts[p + 1]
                 /\ FixedAtCursor(i) = {} =>
                       r.del = [pos |-> pos, inspl |-> FALSE] /\ r.cursor = Smaller(i.cursor, pos)
      BY PrepareIs
    <2> QED BY <1>1, <2>1
  <1>3. i.len = d.len /\ i.starts = d.starts /\ i.fixed = d.fixed
    BY DEF Copies
  <1>4. CASE FixedAtCursor(i) # {}
    <2>1. PICK p \in FixedAtCursor(i) :
              n.del = [pos |-> p, inspl |-> TRUE] /\ n.cursor = i.starts[p + 1]
      BY <1>2, <1>4
    <2>2. /\ p \in 0..d.fixed - 1
          /\ d.starts[p + 1] < i.cursor /\ i.cursor <= d.starts[p + 2]
      BY <1>3 DEF FixedAtCursor
    <2>3. x \in DelSpelling(d, p)
      BY <2>1 DEF DelSearch
    <2>4. /\ DecOK(x)
          /\ x.len = d.len - (d.starts[p + 2] - d.starts[p + 1])
          /\ d.starts[p + 1] < d.starts[p + 2] /\ d.starts[p + 2] <= d.len
          /\ d.starts[p + 1] \in Nat /\ d.starts[p + 2] \in Nat
      BY <2>2, <2>3, DelSpellingIs
    <2>5. n.cursor = d.starts[p + 1]
      BY <1>3, <2>1
    <2>6. \A a, b, c, l \in Nat : a < c /\ c <= b /\ b <= l =>
             l - (b - a) < l /\ c - a <= l - (l - (b - a))
      OBVIOUS
    <2> QED BY <1>1, <1>3, <2>2, <2>4, <2>5, <2>6
  <1>5. CASE FixedAtCursor(i) = {}
    <2>1. n.del = [pos |-> i.cursor - 1, inspl |-> FALSE] /\ n.cursor = i.cursor - 1
      BY <1>1, <1>2, <1>5 DEF Smaller
    <2>2. x \in DelChar(d, i.cursor - 1, clear)
      BY <2>1 DEF DelSearch
    <2>3. ~(d.fixed > 0 /\ i.cursor - 1 < FixedEnd(d))
      <3>1. ~(i.cursor <= FixedEnd(i))
        BY <1>5, CursorInFixed
      <3>2. FixedEnd(i) = FixedEnd(d) /\ FixedEnd(d) \in Nat
        BY <1>3, DecIs DEF FixedEnd
      <3> QED BY <1>1, <3>1, <3>2
    <2>4. DecOK(x) /\ x.len = d.len - 1
      <3>1. i.cursor - 1 \in Nat /\ i.cursor - 1 < d.len
        BY <1>1, <1>3
      <3> QED BY <2>2, <2>3, <3>1, DelCharIs
    <2> QED BY <1>1, <1>3, <2>1, <2>4
  <1> QED BY <1>4, <1>5

(* A backspace deletes, and moves the caret no further than it deletes. *)
LEMMA BackspaceStep ==
    ASSUME ViewOK, IInv, Backspace, info.cursor > 0
    PROVE  /\ info'.len < info.len
           /\ info'.len > 0 => /\ info'.cursor < info.cursor
                               /\ info.cursor - info'.cursor <= info.len - info'.len
  <1> DEFINE n == PrepareDelete(info, info.cursor - 1)
             clear == state # "COMPOSING"
  <1>1. /\ InfoOK(info) /\ info.del = NoDeletion /\ DecOK(dec) /\ Copies(info, dec)
        /\ state \in {"INPUT", "COMPOSING"}
    BY DEF IInv, Backspace, Typing
  <1>2. /\ info.cursor \in Nat /\ info.cursor <= info.len /\ info.len \in Nat
        /\ info.cursor - 1 \in Nat
    BY <1>1, InfoIs
  <1>3. InfoOK(n) /\ ~(n.del.pos < 0)
    <2>1. /\ InfoOK(n)
          /\ FixedAtCursor(info) # {} =>
                \E p \in FixedAtCursor(info) : n.del = [pos |-> p, inspl |-> TRUE]
          /\ FixedAtCursor(info) = {} => n.del = [pos |-> info.cursor - 1, inspl |-> FALSE]
      BY <1>1, <1>2, PrepareIs
    <2> HIDE DEF n
    <2>2. \A p \in FixedAtCursor(info) : p \in Nat
      <3>1. info.fixed \in Nat
        BY <1>1, InfoIs
      <3> QED BY <3>1 DEF FixedAtCursor
    <2>3. \E p \in Nat : n.del.pos = p
      <3>1. CASE FixedAtCursor(info) # {}
        <4>1. PICK p \in FixedAtCursor(info) : n.del = [pos |-> p, inspl |-> TRUE]
          BY <2>1, <3>1
        <4>2. p \in Nat /\ n.del.pos = p
          BY <2>2, <4>1
        <4> QED BY <4>2
      <3>2. CASE FixedAtCursor(info) = {}
        BY <1>2, <2>1, <3>2
      <3> QED BY <3>1, <3>2
    <2>4. \A p \in Nat : ~(p < 0)
      OBVIOUS
    <2>5. ~(n.del.pos < 0)
      BY <2>3, <2>4, Zenon
    <2> QED BY <2>1, <2>5
  <1>4. ChooseAndUpdate(n, DelSearch(dec, n.del, clear), FALSE)
    BY <1>3 DEF Backspace, PrepareDeleteBeforeCursor, SearchOrDelete
  <1> HIDE DEF n
  <1>5. PICK d \in DelSearch(dec, n.del, clear) : \E after \in {UpdateForSearch(n, d)} :
            \/ ResetToIdleState(after)
            \/ ShowCandidateWindow(NextState(after), after, Offer(cands, d, after.finish))
    BY <1>4, Zenon DEF ChooseAndUpdate
  <1>6. /\ DecOK(d) /\ d.len < info.len
        /\ n.cursor < info.cursor /\ info.cursor - n.cursor <= info.len - d.len
    BY <1>1, DeletedBefore DEF n
  <1>7. d.len \in Nat /\ n.cursor \in Nat
    BY <1>3, <1>6, DecIs, InfoIs
  <1> DEFINE u == UpdateForSearch(n, d)
  <1>8. InfoOK(u) /\ u.len = d.len /\ u.cursor = Smaller(n.cursor, d.len)
    BY <1>3, <1>6, UpdateIs DEF Copies
  <1>9. \/ ResetToIdleState(u)
        \/ ShowCandidateWindow(NextState(u), u, Offer(cands, d, u.finish))
    BY <1>5
  <1> HIDE DEF u
  <1>10. CASE ResetToIdleState(u)
    <2>1. info'.len = 0
      BY <1>10 DEF ResetToIdleState, ResetInfo, Blank
    <2> QED BY <1>2, <2>1
  <1>11. CASE ShowCandidateWindow(NextState(u), u, Offer(cands, d, u.finish))
    <2>1. info' = Edge(u, NextState(u))
      BY <1>11 DEF ShowCandidateWindow
    <2>2. info'.len = d.len
          /\ info'.cursor = IF NextState(u) = "INPUT" THEN d.len ELSE Smaller(u.cursor, d.len)
      BY <1>8, <2>1 DEF Edge, InfoOK
    <2>3. NextState(u) = "INPUT" => info.cursor = info.len
      <3>1. NextState(u) = "INPUT" => state = "INPUT"
        BY <1>1 DEF NextState
      <3> QED BY <3>1 DEF ViewOK, StatusMatchesState
    <2>4. Smaller(u.cursor, d.len) = Smaller(n.cursor, d.len)
      BY <1>7, <1>8 DEF Smaller
    <2>5. CASE NextState(u) = "INPUT"
      BY <1>2, <1>6, <1>7, <2>2, <2>3, <2>5
    <2>6. CASE NextState(u) # "INPUT"
      <3>1. info'.cursor = Smaller(n.cursor, d.len)
        BY <2>2, <2>4, <2>6
      <3>2. Smaller(n.cursor, d.len) < info.cursor
            /\ info.cursor - Smaller(n.cursor, d.len) <= info.len - d.len
        BY <1>2, <1>6, <1>7 DEF Smaller
      <3> QED BY <1>6, <2>2, <3>1, <3>2
    <2> QED BY <2>5, <2>6
  <1> QED BY <1>9, <1>10, <1>11

(* Backspace takes letters away, and what is behind the cursor is at most cut:
   the marked position, the cursor and the decoder's deletion agree. *)
THEOREM BackspaceCorrect == Spec => BackspaceDeletes
  <1>1. (ViewOK /\ IInv) /\ [Next]_vars
           => [Backspace /\ info.cursor > 0 =>
                  /\ info'.len < info.len
                  /\ info'.len > 0 => /\ info'.cursor < info.cursor
                                      /\ info.cursor - info'.cursor <= info.len - info'.len]_vars
    BY BackspaceStep
  <1> QED BY <1>1, RecordsInductive, PTL DEF Spec, BackspaceDeletes
=============================================================================
