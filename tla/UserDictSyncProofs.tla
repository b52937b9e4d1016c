------------------------- MODULE UserDictSyncProofs -------------------------
(***************************************************************************)
(* Proofs about UserDictSync: through downloads, the removal of the        *)
(* smallest scores, defragment and reloads the dictionary stays in order,  *)
(* and a lemma that can be sent leaves the queue after it was handed out,  *)
(* or in a download that takes the lemma itself.                           *)
(***************************************************************************)
EXTENDS UserDictSync, UserDictCacheProofs

-----------------------------------------------------------------------------
(* Loops: a step applied to the values for 1 to n, from `base` on. *)

Iterated(f, base, n, G) == f[0] = base /\ \A i \in 1..n : f[i] = G[<<f[i - 1], i>>]

LEMMA Iterates ==
    ASSUME NEW S, NEW base \in S, NEW n \in Nat, NEW G \in [S \X (1..n) -> S]
    PROVE  \E f \in [0..n -> S] : Iterated(f, base, n, G)
  <1> DEFINE Loop(m, f) == /\ f \in [0..m -> S] /\ f[0] = base
                           /\ \A i \in 1..m : f[i] = G[<<f[i - 1], i>>]
             Bad == {m \in 0..n : ~\E f : Loop(m, f)}
  <1>1. Bad = {}
    <2> SUFFICES ASSUME Bad # {} PROVE FALSE
      OBVIOUS
    <2>1. PICK m \in Bad : \A y \in Bad : m <= y
      <3>1. Bad \in SUBSET Nat
        OBVIOUS
      <3> HIDE DEF Bad
      <3> QED BY <3>1, LeastIn
    <2>2. m \in 0..n /\ ~\E f : Loop(m, f)
      BY <2>1
    <2>3. CASE m = 0
      <3> DEFINE f == [i \in 0..0 |-> base]
      <3>1. f \in [0..m -> S] /\ f[0] = base /\ 1..m = {}
        BY <2>3
      <3>2. Loop(m, f)
        <4> HIDE DEF f
        <4> QED BY <3>1
      <3> QED BY <2>2, <3>2
    <2>4. CASE m # 0
      <3>1. m - 1 \in 0..n /\ ~(m <= m - 1) /\ m \in 1..n
        BY <2>2, <2>4
      <3>2. m - 1 \notin Bad
        <4> HIDE DEF Bad
        <4> QED BY <2>1, <3>1
      <3>3. PICK g : Loop(m - 1, g)
        BY <3>1, <3>2
      <3> DEFINE e == G[<<g[m - 1], m>>]
                 f == [i \in 0..m |-> IF i < m THEN g[i] ELSE e]
      <3>4. e \in S
        <4>1. g[m - 1] \in S
          BY <3>1, <3>3
        <4> QED BY <3>1, <4>1
      <3>5. g \in [0..m - 1 -> S] /\ g[0] = base /\ \A i \in 1..m - 1 : g[i] = G[<<g[i - 1], i>>]
        BY <3>3
      <3> HIDE DEF e
      <3>6. f \in [0..m -> S] /\ f[0] = base
        BY <2>2, <2>4, <3>4, <3>5
      <3>7. ASSUME NEW i \in 1..m PROVE f[i] = G[<<f[i - 1], i>>]
        <4>1. CASE i = m
          <5>1. f[m] = e /\ f[m - 1] = g[m - 1]
            BY <2>2, <3>1
          <5>2. e = G[<<g[m - 1], m>>]
            BY DEF e
          <5> HIDE DEF f
          <5> QED BY <4>1, <5>1, <5>2
        <4>2. CASE i # m
          <5>1. i \in 1..m - 1 /\ f[i] = g[i] /\ f[i - 1] = g[i - 1]
            BY <2>2, <4>2
          <5> QED BY <3>5, <5>1
        <4> QED BY <4>1, <4>2
      <3>8. Loop(m, f)
        <4> HIDE DEF f
        <4> QED BY <3>6, <3>7
      <3> QED BY <2>2, <3>8
    <2> QED BY <2>3, <2>4
  <1>2. n \in 0..n /\ n \notin Bad
    BY <1>1
  <1>3. PICK f : Loop(n, f)
    BY <1>2
  <1> QED BY <1>3 DEF Iterated

(* What such a loop computes stays in a set that the step does not leave. *)
LEMMA LoopStays ==
    ASSUME NEW S, NEW base \in S, NEW n \in Nat, NEW f,
           f = [i \in 0..n |-> f[i]], f[0] = base,
           \A i \in 1..n : f[i - 1] \in S => f[i] \in S
    PROVE  f \in [0..n -> S]
  <1> DEFINE Bad == {m \in 0..n : f[m] \notin S}
  <1>1. Bad = {}
    <2> SUFFICES ASSUME Bad # {} PROVE FALSE
      OBVIOUS
    <2>1. PICK m \in Bad : \A y \in Bad : m <= y
      <3>1. Bad \in SUBSET Nat
        OBVIOUS
      <3> HIDE DEF Bad
      <3> QED BY <3>1, LeastIn
    <2>2. m \in 0..n /\ f[m] \notin S /\ m # 0
      BY <2>1
    <2>3. m \in 1..n /\ m - 1 \in 0..n /\ ~(m <= m - 1)
      BY <2>2
    <2>4. m - 1 \notin Bad
      <3> HIDE DEF Bad
      <3> QED BY <2>1, <2>3
    <2> QED BY <2>2, <2>3, <2>4
  <1>2. \A m \in 0..n : f[m] \in S
    BY <1>1
  <1> QED BY <1>2

-----------------------------------------------------------------------------
(* reclaim: the heap holds positions of the index, whatever the scores are. *)

Heaps(rc, n) == [1..rc -> [score : Int, at : 1..n]]

LEMMA HeapLen ==
    ASSUME NEW rc \in Nat, NEW n \in Nat, NEW sop \in Heaps(rc, n)
    PROVE  Len(sop) = rc
  BY FcnIsSeq DEF Heaps

LEMMA TurnTyped ==
    ASSUME NEW rc \in Nat, NEW n \in Nat, NEW x \in [sop : Heaps(rc, n), par : Nat]
    PROVE  ShiftTurn(x) \in [sop : Heaps(rc, n), par : Nat]
  <1> DEFINE to(p) == [sop |-> Swapped(x.sop, p, x.par), par |-> p]
             left  == 2 * x.par + 1
             right == left + 1
  <1>1. x.sop \in Heaps(rc, n) /\ x.par \in Nat /\ Len(x.sop) = rc
    BY HeapLen
  <1>2. left \in Nat /\ right \in Nat /\ left > x.par /\ right > x.par
    BY <1>1
  <1>3. \/ ShiftTurn(x) = x
        \/ ~(left >= rc) /\ ShiftTurn(x) = to(left)
        \/ right < rc /\ ShiftTurn(x) = to(right)
    BY <1>1, Zenon DEF ShiftTurn
  <1>4. ASSUME NEW p \in Nat, p > x.par, p < rc
        PROVE  to(p) \in [sop : Heaps(rc, n), par : Nat]
    <2>1. p + 1 \in 1..rc /\ x.par + 1 \in 1..rc
      BY <1>1, <1>4
    <2>2. Swapped(x.sop, p, x.par) \in Heaps(rc, n)
      BY <1>1, <2>1 DEF Swapped, Heaps
    <2> QED BY <2>2
  <1>5. ~(left >= rc) => left < rc
    BY <1>2
  <1> HIDE DEF to, left, right
  <1> QED BY <1>2, <1>3, <1>4, <1>5

(* shift_down permutes the heap. *)
LEMMA ShiftDownTyped ==
    ASSUME NEW rc \in Nat, NEW n \in Nat, NEW sop \in Heaps(rc, n), NEW i \in Nat
    PROVE  ShiftDown(sop, i) \in Heaps(rc, n)
  <1> DEFINE m    == Len(sop)
             S    == [sop : Heaps(rc, n), par : Nat]
             base == [sop |-> sop, par |-> i]
             G    == [p \in S \X (1..m) |-> ShiftTurn(p[1])]
             L(f) == f = [j \in 0..m |-> IF j = 0 THEN base ELSE ShiftTurn(f[j - 1])]
             F    == CHOOSE f : L(f)
  <1>1. base \in S /\ m = rc
    BY HeapLen
  <1>2. \A x \in S : ShiftTurn(x) \in S
    BY TurnTyped
  <1>3. ShiftDown(sop, i) = F[m].sop
    BY DEF ShiftDown
  <1>4. \A x \in S : x.sop \in Heaps(rc, n)
    OBVIOUS
  <1> HIDE DEF S, base, m
  <1>m. m \in Nat /\ m \in 0..m
    BY <1>1
  <1>5. G \in [S \X (1..m) -> S]
    BY <1>2
  <1>6. \A x \in S, j \in 1..m : G[<<x, j>>] = ShiftTurn(x)
    OBVIOUS
  <1> HIDE DEF G
  <1>7. \E f : L(f)
    <2>1. \E f \in [0..m -> S] : Iterated(f, base, m, G)
      <3> HIDE DEF L, F
      <3> QED BY <1>1, <1>m, <1>5, Iterates
    <2>2. PICK f \in [0..m -> S] : f[0] = base /\ \A j \in 1..m : f[j] = G[<<f[j - 1], j>>]
      BY <2>1 DEF Iterated
    <2>3. \A j \in 0..m : f[j] = IF j = 0 THEN base ELSE ShiftTurn(f[j - 1])
      <3>1. \A j \in 0..m : j = 0 \/ (j \in 1..m /\ j - 1 \in 0..m)
        BY <1>m
      <3> QED BY <1>6, <2>2, <3>1
    <2>4. f = [j \in 0..m |-> IF j = 0 THEN base ELSE ShiftTurn(f[j - 1])]
      BY <2>3
    <2> QED BY <2>4
  <1>8. L(F)
    <2> HIDE DEF L
    <2> QED BY <1>7, Zenon
  <1> HIDE DEF F
  <1>9. F = [j \in 0..m |-> F[j]] /\ F[0] = base /\ \A j \in 1..m : F[j] = ShiftTurn(F[j - 1])
    <2>1. \A j \in 1..m : j \in 0..m /\ j # 0
      <3> HIDE DEF L
      <3> QED BY <1>m
    <2>2. 0 \in 0..m
      <3> HIDE DEF L
      <3> QED BY <1>m
    <2> QED BY <1>8, <2>1, <2>2
  <1> HIDE DEF L
  <1>10. F \in [0..m -> S]
    <2>1. \A j \in 1..m : F[j - 1] \in S => F[j] \in S
      BY <1>2, <1>9
    <2> QED BY <1>1, <1>m, <1>9, <2>1, LoopStays
  <1> QED BY <1>3, <1>4, <1>m, <1>10

(* The heap holds one entry after another pushed down. *)
LEMMA OfferTyped ==
    ASSUME NEW rc \in Nat \ {0}, NEW n \in Nat, NEW scores, \A k \in 1..n : scores[k] \in Int,
           NEW sop \in Heaps(rc, n), NEW i \in 1..n
    PROVE  Offer(scores, sop, i) \in Heaps(rc, n)
  <1> DEFINE e   == [score |-> scores[i], at |-> i]
             new == [sop EXCEPT ![1] = e]
  <1>1. e \in [score : Int, at : 1..n]
    OBVIOUS
  <1>2. new \in Heaps(rc, n)
    <2> HIDE DEF e
    <2> QED BY <1>1 DEF Heaps
  <1>3. ShiftDown(new, 0) \in Heaps(rc, n)
    <2> HIDE DEF new
    <2> QED BY <1>2, ShiftDownTyped
  <1>4. Offer(scores, sop, i) \in {sop, ShiftDown(new, 0)}
    <2>1. Offer(scores, sop, i) = IF scores[i] < sop[1].score THEN ShiftDown(new, 0) ELSE sop
      BY Zenon DEF Offer
    <2> HIDE DEF new
    <2> QED BY <2>1
  <1> HIDE DEF new
  <1> QED BY <1>3, <1>4

(* The heap reclaim starts from. *)
LEMMA FirstHeapTyped ==
    ASSUME NEW n \in Nat, NEW scores, \A k \in 1..n : scores[k] \in Int, NEW rc \in 1..n
    PROVE  FirstHeap(scores, rc) \in Heaps(rc, n)
  <1> DEFINE S     == Heaps(rc, n)
             half  == (rc + 1) \div 2
             m     == half + 1
             first == [i \in 1..rc |-> [score |-> scores[i], at |-> i]]
             G     == [p \in S \X (1..m) |-> ShiftDown(p[1], m - p[2])]
             L(f)  == f = [j \in 0..m |-> IF j = 0 THEN first ELSE ShiftDown(f[j - 1], m - j)]
             heap  == CHOOSE f : L(f)
  <1>0. rc \in Nat \ {0} /\ m \in Nat
    <2>1. half \in Nat
      OBVIOUS
    <2> HIDE DEF half
    <2> QED BY <2>1
  <1>1. FirstHeap(scores, rc) = heap[m]
    BY DEF FirstHeap
  <1>2. first \in S
    <2>1. \A i \in 1..rc : i \in 1..n
      OBVIOUS
    <2> QED BY <2>1 DEF Heaps
  <1>3. \A x \in S, j \in 1..m : ShiftDown(x, m - j) \in S
    <2>1. \A j \in 1..m : m - j \in Nat
      <3> HIDE DEF m
      <3> QED BY <1>0
    <2> HIDE DEF m
    <2> QED BY <1>0, <2>1, ShiftDownTyped
  <1> HIDE DEF S, first, m, heap, half
  <1>6. /\ heap = [j \in 0..m |-> heap[j]] /\ heap[0] = first
        /\ \A j \in 1..m : heap[j] = ShiftDown(heap[j - 1], m - j)
    <2>1. G \in [S \X (1..m) -> S]
      BY <1>3
    <2>2. \A x \in S, j \in 1..m : G[<<x, j>>] = ShiftDown(x, m - j)
      OBVIOUS
    <2> HIDE DEF G
    <2>3. \E f \in [0..m -> S] : Iterated(f, first, m, G)
      <3> HIDE DEF L
      <3> QED BY <1>0, <1>2, <2>1, Iterates
    <2>4. PICK f \in [0..m -> S] : f[0] = first /\ \A j \in 1..m : f[j] = G[<<f[j - 1], j>>]
      BY <2>3 DEF Iterated
    <2>5. \A j \in 0..m : f[j] = IF j = 0 THEN first ELSE ShiftDown(f[j - 1], m - j)
      <3>1. \A j \in 0..m : j = 0 \/ (j \in 1..m /\ j - 1 \in 0..m)
        BY <1>0
      <3> QED BY <2>2, <2>4, <3>1
    <2>6. L(f)
      BY <2>5
    <2>7. L(heap)
      <3> HIDE DEF L
      <3> QED BY <2>6, Zenon DEF heap
    <2>8. 0 \in 0..m /\ \A j \in 1..m : j \in 0..m /\ j # 0
      <3> HIDE DEF L
      <3> QED BY <1>0
    <2> QED BY <2>7, <2>8
  <1> HIDE DEF L, G
  <1>7. heap \in [0..m -> S]
    <2>1. \A j \in 1..m : heap[j - 1] \in S => heap[j] \in S
      BY <1>3, <1>6
    <2> QED BY <1>0, <1>2, <1>6, <2>1, LoopStays
  <1>8. heap[m] \in S
    BY <1>0, <1>7
  <1> QED BY <1>1, <1>8 DEF S

(* reclaim chooses positions of the index. *)
LEMMA VictimsTyped ==
    ASSUME NEW n \in Nat, NEW scores, Len(scores) = n, \A k \in 1..n : scores[k] \in Int,
           NEW rc \in 1..n
    PROVE  \A i \in 1..rc : ReclaimVictims(scores, rc)[i] \in 1..n
  <1> DEFINE S     == Heaps(rc, n)
             l     == Len(scores) - rc
             top   == FirstHeap(scores, rc)
             H     == [p \in S \X (1..l) |-> Offer(scores, p[1], rc + p[2])]
             M(f)  == f = [j \in 0..l |-> IF j = 0 THEN top ELSE Offer(scores, f[j - 1], rc + j)]
             chosen == CHOOSE f : M(f)
  <1>0. rc \in Nat \ {0} /\ l \in Nat /\ n \in Nat
    OBVIOUS
  <1>1. ReclaimVictims(scores, rc) = [i \in 1..rc |-> chosen[l][i].at]
    BY DEF ReclaimVictims
  <1>2. top \in S
    BY FirstHeapTyped
  <1>4. \A x \in S, j \in 1..l : Offer(scores, x, rc + j) \in S
    <2>1. \A j \in 1..l : rc + j \in 1..n
      BY <1>0
    <2> HIDE DEF l
    <2> QED BY <1>0, <2>1, OfferTyped
  <1>5. \A x \in S : \A i \in 1..rc : x[i].at \in 1..n
    BY DEF Heaps
  <1> HIDE DEF S, l, chosen, top
  <1>9. /\ chosen = [j \in 0..l |-> chosen[j]] /\ chosen[0] = top
        /\ \A j \in 1..l : chosen[j] = Offer(scores, chosen[j - 1], rc + j)
    <2>1. H \in [S \X (1..l) -> S]
      BY <1>4
    <2>2. \A x \in S, j \in 1..l : H[<<x, j>>] = Offer(scores, x, rc + j)
      OBVIOUS
    <2> HIDE DEF H
    <2>3. \E f \in [0..l -> S] : Iterated(f, top, l, H)
      <3> HIDE DEF M
      <3> QED BY <1>0, <1>2, <2>1, Iterates
    <2>4. PICK f \in [0..l -> S] : f[0] = top /\ \A j \in 1..l : f[j] = H[<<f[j - 1], j>>]
      BY <2>3 DEF Iterated
    <2>5. \A j \in 0..l : f[j] = IF j = 0 THEN top ELSE Offer(scores, f[j - 1], rc + j)
      <3>1. \A j \in 0..l : j = 0 \/ (j \in 1..l /\ j - 1 \in 0..l)
        BY <1>0
      <3> QED BY <2>2, <2>4, <3>1
    <2>6. M(f)
      BY <2>5
    <2>7. M(chosen)
      <3> HIDE DEF M
      <3> QED BY <2>6, Zenon DEF chosen
    <2>8. 0 \in 0..l /\ \A j \in 1..l : j \in 0..l /\ j # 0
      <3> HIDE DEF M
      <3> QED BY <1>0
    <2> QED BY <2>7, <2>8
  <1> HIDE DEF M, H
  <1>10. chosen \in [0..l -> S]
    <2>1. \A j \in 1..l : chosen[j - 1] \in S => chosen[j] \in S
      BY <1>4, <1>9
    <2> QED BY <1>0, <1>2, <1>9, <2>1, LoopStays
  <1>11. chosen[l] \in S
    BY <1>0, <1>10
  <1> QED BY <1>1, <1>5, <1>11

-----------------------------------------------------------------------------
(* The invariant.  Entries of the queue may be those of removed lemmas, or
   anything, so Exact is kept for the object and the file without their
   queues and limits. *)
Whole(dict) ==
    dict = [state |-> dict.state, block |-> dict.block, index |-> dict.index,
            by_id |-> dict.by_id, preds |-> dict.preds, syncs |-> dict.syncs,
            left |-> dict.left, limit |-> dict.limit, free_count |-> dict.free_count,
            hits |-> dict.hits, misses |-> dict.misses]

Bare(dict) ==
    [state |-> dict.state, block |-> dict.block, index |-> dict.index,
     by_id |-> dict.by_id, preds |-> dict.preds, syncs |-> <<>>,
     left |-> dict.left, limit |-> NoLimit, free_count |-> dict.free_count,
     hits |-> dict.hits, misses |-> dict.misses]

WholeFile(f) ==
    f = [block |-> f.block, offs |-> f.offs, preds |-> f.preds, scores |-> f.scores,
         syncs |-> f.syncs,
         info |-> [lemmas |-> f.info.lemmas, count |-> f.info.count, syncs |-> f.info.syncs,
                   free_count |-> f.info.free_count, limit |-> f.info.limit]]

BareFile(f) ==
    [block |-> f.block, offs |-> f.offs, preds |-> f.preds, scores |-> f.scores,
     syncs |-> <<>>,
     info |-> [lemmas |-> f.info.lemmas, count |-> f.info.count, syncs |-> 0,
               free_count |-> f.info.free_count, limit |-> NoLimit]]

Limits == {NoLimit, SyncLimit}

SyncOK(dict, f) ==
    /\ Whole(dict) /\ WholeFile(f)
    /\ Exact(Bare(dict), BareFile(f))
    /\ dict.syncs \in Seq(Nat) /\ f.syncs \in Seq(Nat)
    /\ Len(f.syncs) = f.info.syncs
    /\ dict.limit \in Limits /\ f.info.limit \in Limits

(* Only queue and limit are gone. *)
LEMMA BareFields ==
    ASSUME NEW dict
    PROVE  LET b == Bare(dict)
           IN  /\ b.state = dict.state /\ b.block = dict.block /\ b.index = dict.index
               /\ b.by_id = dict.by_id /\ b.preds = dict.preds /\ b.syncs = <<>>
               /\ b.left = dict.left /\ b.limit = NoLimit /\ b.free_count = dict.free_count
               /\ b.hits = dict.hits /\ b.misses = dict.misses
  BY DEF Bare

(* What else holds for the object, queue aside. *)
LEMMA SyncTypes ==
    ASSUME NEW dict, NEW f, SyncOK(dict, f)
    PROVE  /\ dict.block \in Seq(Lemmas) /\ dict.index \in Seq(Entry) /\ dict.by_id \in Seq(Nat)
           /\ dict.preds \in Seq(Flagged) /\ dict.left \in 0..PreAlloc
           /\ Len(dict.index) \in Nat /\ Len(dict.block) = Len(dict.index)
           /\ Len(dict.preds) = Len(dict.index) /\ Len(dict.by_id) = Len(dict.index)
           /\ \A k \in 1..Len(dict.index) :
                 /\ dict.index[k] \in Entry /\ dict.block[k] \in Lemmas /\ dict.preds[k] \in Flagged
                 /\ dict.index[k].off \in 1..Len(dict.index)
                 /\ dict.index[k].id \in 1..Len(dict.index)
                 /\ dict.by_id[k] \in 1..Len(dict.index)
                 /\ dict.preds[k].off \in 1..Len(dict.index)
           /\ dict.state \in SYNC..LEMMA_DIRTY
  <1> DEFINE b == Bare(dict)
             g == BareFile(f)
  <1>1. Good(b, g)
    BY DEF SyncOK, Exact, Kept
  <1>2. b.state \in SYNC..LEMMA_DIRTY
    BY <1>1, StateRange
  <1>3. /\ b.state = dict.state /\ b.block = dict.block /\ b.index = dict.index
        /\ b.by_id = dict.by_id /\ b.preds = dict.preds /\ b.left = dict.left
    BY BareFields
  <1> HIDE DEF b, g
  <1>4. /\ b.block \in Seq(Lemmas) /\ b.index \in Seq(Entry) /\ b.by_id \in Seq(Nat)
        /\ b.preds \in Seq(Flagged) /\ b.left \in 0..PreAlloc
        /\ Len(b.index) \in Nat /\ Len(b.block) = Len(b.index)
        /\ Len(b.preds) = Len(b.index) /\ Len(b.by_id) = Len(b.index)
        /\ \A k \in 1..Len(b.index) :
              /\ b.index[k] \in Entry /\ b.block[k] \in Lemmas /\ b.preds[k] \in Flagged
              /\ b.index[k].off \in 1..Len(b.index) /\ b.index[k].id \in 1..Len(b.index)
              /\ b.by_id[k] \in 1..Len(b.index) /\ b.preds[k].off \in 1..Len(b.index)
    BY <1>1, GoodTypes
  <1> QED BY <1>2, <1>3, <1>4, Zenon

(* Queue and limit may change. *)
LEMMA QueueAside ==
    ASSUME NEW dict, NEW f, SyncOK(dict, f), NEW r, Whole(r), Bare(r) = Bare(dict),
           r.syncs \in Seq(Nat), r.limit \in Limits
    PROVE  SyncOK(r, f)
  <1>1. r.index = dict.index
    BY BareFields
  <1> QED BY <1>1, Zenon DEF SyncOK

-----------------------------------------------------------------------------
(* What each function does, queue aside. *)

(* locate_in_offsets does not read the queue. *)
LEMMA LocateBare ==
    ASSUME NEW dict, NEW w
    PROVE  LocateInOffsets(Bare(dict), w) = LocateInOffsets(dict, w)
  <1> DEFINE b == Bare(dict)
  <1>1. b.block = dict.block /\ b.index = dict.index /\ b.hits = dict.hits
    BY BareFields
  <1> HIDE DEF b
  <1>2. LocateInOffsets(b, w) = LocateInOffsets(dict, w)
    BY <1>1 DEF LocateInOffsets, HitsFor, LoadCache
  <1> QED BY <1>2 DEF b

(* append_a_lemma. *)
LEMMA AppendBare ==
    ASSUME NEW dict, Whole(dict), NEW w, NEW score
    PROVE  LET r == AppendALemma(dict, w, score)
           IN  /\ Whole(r) /\ Bare(r) = AppendALemma(Bare(dict), w, score)
               /\ r.syncs = dict.syncs /\ r.limit = dict.limit
               /\ r.block = Append(dict.block, w)
  <1> DEFINE b     == Bare(dict)
             slot  == Len(dict.block) + 1
             block == Append(dict.block, w)
             index == InsertAt(dict.index, InsertPosition(block, dict.index, w),
                        [off |-> slot, rm |-> FALSE, score |-> score, id |-> NewId(dict)])
             by_id == Append(dict.by_id, slot)
             preds == InsertAt(dict.preds, PredictInsertPoint(block, index, w.str) + 1,
                               [off |-> slot, rm |-> FALSE])
             left  == dict.left - 1
             st    == Dirty(dict, LEMMA_DIRTY)
             E(x)  == [[x EXCEPT !.block = block, !.index = index, !.by_id = by_id,
                                 !.preds = preds, !.left = left, !.state = st]
                          EXCEPT !.hits = NoCache, !.misses = NoCache]
             R(s, l) == [state |-> st, block |-> block, index |-> index, by_id |-> by_id,
                         preds |-> preds, syncs |-> s, left |-> left, limit |-> l,
                         free_count |-> dict.free_count, hits |-> NoCache, misses |-> NoCache]
             r     == AppendALemma(dict, w, score)
             rb    == AppendALemma(b, w, score)
  <1>1. r = E(dict)
    BY Zenon DEF AppendALemma, CacheInit
  <1>2. rb = E(b)
    <2>1. /\ b.state = dict.state /\ b.block = dict.block /\ b.index = dict.index
          /\ b.by_id = dict.by_id /\ b.preds = dict.preds /\ b.left = dict.left
      BY BareFields
    <2>2. NewId(b) = NewId(dict) /\ Dirty(b, LEMMA_DIRTY) = Dirty(dict, LEMMA_DIRTY)
      BY <2>1 DEF NewId, Dirty
    <2> HIDE DEF b
    <2> QED BY <2>1, <2>2 DEF AppendALemma, CacheInit
  <1> HIDE DEF block, index, by_id, preds, left, st, r, rb
  <1>3. r = R(dict.syncs, dict.limit)
    BY <1>1 DEF Whole
  <1>4. rb = R(<<>>, NoLimit)
    BY <1>2 DEF Bare
  <1>5. Whole(r) /\ Bare(r) = rb /\ r.syncs = dict.syncs /\ r.limit = dict.limit /\ r.block = block
    BY <1>3, <1>4 DEF Whole, Bare
  <1> QED BY <1>5 DEF r, rb, b, block

(* A new score for one entry. *)
LEMMA ScoredBare ==
    ASSUME NEW dict, Whole(dict), NEW k, NEW score
    PROVE  LET r == Scored(dict, k, score)
           IN  /\ Whole(r) /\ Bare(r) = Scored(Bare(dict), k, score)
               /\ r.syncs = dict.syncs /\ r.limit = dict.limit
  <1> DEFINE b     == Bare(dict)
             index == [dict.index EXCEPT ![k].score = score]
             st    == Dirty(dict, SCORE_DIRTY)
             R(s, l) == [state |-> st, block |-> dict.block, index |-> index,
                         by_id |-> dict.by_id, preds |-> dict.preds, syncs |-> s,
                         left |-> dict.left, limit |-> l, free_count |-> dict.free_count,
                         hits |-> dict.hits, misses |-> dict.misses]
             r     == Scored(dict, k, score)
             rb    == Scored(b, k, score)
  <1>1. r = [dict EXCEPT !.index = index, !.state = st]
    BY Zenon DEF Scored
  <1>2. rb = [b EXCEPT !.index = index, !.state = st]
    <2>1. b.state = dict.state /\ b.index = dict.index
      BY BareFields
    <2>2. Dirty(b, SCORE_DIRTY) = Dirty(dict, SCORE_DIRTY)
      BY <2>1 DEF Dirty
    <2> HIDE DEF b
    <2> QED BY <2>1, <2>2, Zenon DEF Scored
  <1> HIDE DEF index, st, r, rb
  <1>3. r = R(dict.syncs, dict.limit)
    BY <1>1 DEF Whole
  <1>4. rb = R(<<>>, NoLimit)
    BY <1>2 DEF Bare
  <1>5. Whole(r) /\ Bare(r) = rb /\ r.syncs = dict.syncs /\ r.limit = dict.limit
    BY <1>3, <1>4 DEF Whole, Bare
  <1> QED BY <1>5 DEF r, rb, b

(* remove_lemma_by_offset_index. *)
LEMMA RemoveBare ==
    ASSUME NEW dict, Whole(dict), NEW k
    PROVE  LET r == RemoveLemmaByOffsetIndex(dict, k)
           IN  /\ Whole(r) /\ Bare(r) = RemoveLemmaByOffsetIndex(Bare(dict), k)
               /\ r.syncs = RemoveFromSyncList(dict.syncs, dict.index[k].off)
               /\ r.limit = dict.limit
  <1> DEFINE b     == Bare(dict)
             slot  == dict.index[k].off
             index == [dict.index EXCEPT ![k].rm = TRUE]
             syncs == RemoveFromSyncList(dict.syncs, slot)
             preds == RemoveFromPredictList(dict.preds, slot)
             free  == dict.free_count + 1
             st    == Dirty(dict, OFFSET_DIRTY)
             R(s, l) == [state |-> st, block |-> dict.block, index |-> index,
                         by_id |-> dict.by_id, preds |-> preds, syncs |-> s,
                         left |-> dict.left, limit |-> l, free_count |-> free,
                         hits |-> dict.hits, misses |-> dict.misses]
             r     == RemoveLemmaByOffsetIndex(dict, k)
             rb    == RemoveLemmaByOffsetIndex(b, k)
             none  == <<>>
  <1>1. r = [dict EXCEPT !.index = index, !.syncs = syncs, !.preds = preds,
                         !.free_count = free, !.state = st]
    BY Zenon DEF RemoveLemmaByOffsetIndex
  <1>2. rb = [b EXCEPT !.index = index, !.syncs = none, !.preds = preds,
                       !.free_count = free, !.state = st]
    <2>1. /\ b.state = dict.state /\ b.index = dict.index /\ b.preds = dict.preds
          /\ b.free_count = dict.free_count /\ b.syncs = none
      BY BareFields
    <2>2. Dirty(b, OFFSET_DIRTY) = Dirty(dict, OFFSET_DIRTY)
      BY <2>1 DEF Dirty
    <2>3. RemoveFromSyncList(none, slot) = none
      BY DEF RemoveFromSyncList
    <2> HIDE DEF b, none
    <2> QED BY <2>1, <2>2, <2>3, Zenon DEF RemoveLemmaByOffsetIndex
  <1> HIDE DEF index, st, r, rb, preds, free, syncs, none
  <1>3. r = R(syncs, dict.limit)
    BY <1>1 DEF Whole
  <1>4. rb = R(none, NoLimit)
    BY <1>2 DEF Bare
  <1>5. Whole(r) /\ Bare(r) = rb /\ r.syncs = syncs /\ r.limit = dict.limit
    BY <1>3, <1>4 DEF Whole, Bare, none
  <1> QED BY <1>5 DEF r, rb, b, syncs

(* What sets the queue, and raises the dirty level at most. *)
Requeued(dict, syncs, st) == [dict EXCEPT !.syncs = syncs, !.state = st]

LEMMA QueueSetBare ==
    ASSUME NEW dict, Whole(dict), NEW syncs, NEW st
    PROVE  LET r == Requeued(dict, syncs, st)
           IN  /\ Whole(r) /\ Bare(r) = [Bare(dict) EXCEPT !.state = st]
               /\ r.syncs = syncs /\ r.limit = dict.limit
  <1> DEFINE b  == Bare(dict)
             R(s, l) == [state |-> st, block |-> dict.block, index |-> dict.index,
                         by_id |-> dict.by_id, preds |-> dict.preds, syncs |-> s,
                         left |-> dict.left, limit |-> l, free_count |-> dict.free_count,
                         hits |-> dict.hits, misses |-> dict.misses]
             r  == Requeued(dict, syncs, st)
             rb == [b EXCEPT !.state = st]
  <1>1. r = [dict EXCEPT !.syncs = syncs, !.state = st] /\ rb = [b EXCEPT !.state = st]
    BY DEF Requeued
  <1> HIDE DEF r, rb
  <1>2. r = R(syncs, dict.limit)
    BY <1>1 DEF Whole
  <1>3. rb = R(<<>>, NoLimit)
    BY <1>1 DEF Bare
  <1>4. Whole(r) /\ Bare(r) = rb /\ r.syncs = syncs /\ r.limit = dict.limit
    BY <1>2, <1>3 DEF Whole, Bare
  <1> QED BY <1>4 DEF r, rb, b

(* queue_lemma_for_sync changes nothing else. *)
LEMMA QueueOnlyBare ==
    ASSUME NEW dict, Whole(dict), NEW syncs
    PROVE  LET r == [dict EXCEPT !.syncs = syncs]
           IN  Whole(r) /\ Bare(r) = Bare(dict) /\ r.syncs = syncs /\ r.limit = dict.limit
  <1> DEFINE r  == [dict EXCEPT !.syncs = syncs]
  <1>1. r = [dict EXCEPT !.syncs = syncs]
    OBVIOUS
  <1> HIDE DEF r
  <1>2. r = [state |-> dict.state, block |-> dict.block, index |-> dict.index,
             by_id |-> dict.by_id, preds |-> dict.preds, syncs |-> syncs,
             left |-> dict.left, limit |-> dict.limit, free_count |-> dict.free_count,
             hits |-> dict.hits, misses |-> dict.misses]
    BY <1>1 DEF Whole
  <1>3. Whole(r) /\ Bare(r) = Bare(dict) /\ r.syncs = syncs /\ r.limit = dict.limit
    BY <1>2 DEF Whole, Bare
  <1> QED BY <1>3 DEF r

(* Neither does Sync::begin. *)
LEMMA LimitOnlyBare ==
    ASSUME NEW dict, Whole(dict), NEW limit
    PROVE  LET r == [dict EXCEPT !.limit = limit]
           IN  Whole(r) /\ Bare(r) = Bare(dict) /\ r.syncs = dict.syncs /\ r.limit = limit
  <1> DEFINE r  == [dict EXCEPT !.limit = limit]
  <1>1. r = [dict EXCEPT !.limit = limit]
    OBVIOUS
  <1> HIDE DEF r
  <1>2. r = [state |-> dict.state, block |-> dict.block, index |-> dict.index,
             by_id |-> dict.by_id, preds |-> dict.preds, syncs |-> dict.syncs,
             left |-> dict.left, limit |-> limit, free_count |-> dict.free_count,
             hits |-> dict.hits, misses |-> dict.misses]
    BY <1>1 DEF Whole
  <1>3. Whole(r) /\ Bare(r) = Bare(dict) /\ r.syncs = dict.syncs /\ r.limit = limit
    BY <1>2 DEF Whole, Bare
  <1> QED BY <1>3 DEF r

(* load(). *)
LEMMA LoadBare ==
    ASSUME NEW f
    PROVE  /\ Whole(Load(f)) /\ Bare(Load(f)) = Load(BareFile(f))
           /\ Load(f).syncs = f.syncs /\ Load(f).limit = f.info.limit
  <1>1. /\ BareFile(f).block = f.block /\ BareFile(f).offs = f.offs /\ BareFile(f).preds = f.preds
        /\ BareFile(f).scores = f.scores /\ BareFile(f).syncs = <<>>
        /\ BareFile(f).info.limit = NoLimit
        /\ BareFile(f).info.free_count = f.info.free_count
    BY DEF BareFile
  <1>2. Whole(Load(f)) /\ Load(f).syncs = f.syncs /\ Load(f).limit = f.info.limit
    BY DEF Load, Whole
  <1>3. Bare(Load(f)) = Load(BareFile(f))
    BY <1>1 DEF Load, Bare
  <1> QED BY <1>2, <1>3

USE SizesAssumption DEF SYNC, SYNC_DIRTY, SCORE_DIRTY, OFFSET_DIRTY, LEMMA_DIRTY, DEFRAGMENTED

-----------------------------------------------------------------------------
(* The steps. *)

(* Raising the dirty level of an object only makes more of it written. *)
LEMMA RaiseExact ==
    ASSUME NEW dict, NEW f, Exact(dict, f), NEW st \in SYNC..LEMMA_DIRTY, dict.state <= st
    PROVE  Exact([dict EXCEPT !.state = st], f)
  <1> DEFINE r == [dict EXCEPT !.state = st]
  <1>0. Kept(dict, f) /\ Good(dict, f)
    BY DEF Exact, Kept
  <1>1. dict \in DictTypes(dict) /\ InRange(dict) /\ FileOK(f) /\ Covers(dict, f)
    BY <1>0 DEF Good, DictOK
  <1>2. r = [state |-> st, block |-> dict.block, index |-> dict.index, by_id |-> dict.by_id,
             preds |-> dict.preds, syncs |-> dict.syncs, left |-> dict.left,
             limit |-> dict.limit, free_count |-> dict.free_count,
             hits |-> dict.hits, misses |-> dict.misses]
    <2>1. r = [dict EXCEPT !.state = st]
      OBVIOUS
    <2> HIDE DEF r
    <2> QED BY <1>1, <2>1 DEF DictTypes
  <1> HIDE DEF r
  <1>3. /\ r.state = st /\ r.block = dict.block /\ r.index = dict.index /\ r.by_id = dict.by_id
        /\ r.preds = dict.preds /\ r.syncs = dict.syncs /\ r.left = dict.left
        /\ r.limit = dict.limit /\ r.free_count = dict.free_count
        /\ r.hits = dict.hits /\ r.misses = dict.misses
    BY <1>2
  <1>4. r \in DictTypes(r)
    BY <1>1, <1>2 DEF DictTypes
  <1>5. InRange(r)
    BY <1>1, <1>3, Zenon DEF InRange
  <1>6. Covers(r, f)
    <2>1. dict.state \in Int /\ st \in Int /\ st <= LEMMA_DIRTY /\ dict.state <= st
      <3>1. dict.state \in SYNC..LEMMA_DIRTY
        BY <1>0, StateRange
      <3> QED BY <3>1
    <2>2. \A x \in {SYNC_DIRTY, SCORE_DIRTY, OFFSET_DIRTY, LEMMA_DIRTY} : st < x => dict.state < x
      BY <2>1
    <2> QED BY <1>1, <1>3, <2>1, <2>2, Zenon DEF Covers
  <1>7. Good(r, f)
    BY <1>1, <1>4, <1>5, <1>6 DEF Good, DictOK
  <1>8. Kept(r, f)
    BY <1>0, <1>3, <1>7, KeptSame
  <1>9. Exact(r, f)
    BY <1>3, <1>8, ExactSame
  <1> QED BY <1>9 DEF r

(* A new score. *)
LEMMA ScoreSync ==
    ASSUME NEW dict, NEW f, SyncOK(dict, f), NEW k \in 1..Len(dict.index),
           NEW score \in Score
    PROVE  SyncOK(Scored(dict, k, score), f)
  <1> DEFINE b  == Bare(dict)
             g  == BareFile(f)
             r  == Scored(dict, k, score)
             rb == Scored(b, k, score)
  <1>1. Whole(dict) /\ Exact(b, g) /\ dict.syncs \in Seq(Nat)
        /\ dict.limit \in Limits
    BY DEF SyncOK
  <1>2. b.index = dict.index /\ Bare(r).index = r.index
    BY BareFields
  <1>3. Whole(r) /\ Bare(r) = rb /\ r.syncs = dict.syncs /\ r.limit = dict.limit
    BY <1>1, ScoredBare
  <1>4. Exact(rb, g) /\ Good(b, g)
    <2> HIDE DEF b, g
    <2> QED BY <1>1, <1>2, ScoreExact DEF Exact, Kept
  <1> HIDE DEF b, g, r, rb
  <1>5. SyncOK(r, f)
    BY <1>1, <1>3, <1>4, Zenon DEF SyncOK, g
  <1> QED BY <1>5 DEF r

(* remove_lemma_by_offset_index. *)
LEMMA RemoveSync ==
    ASSUME NEW dict, NEW f, SyncOK(dict, f), NEW k \in 1..Len(dict.index)
    PROVE  LET r == RemoveLemmaByOffsetIndex(dict, k)
           IN  SyncOK(r, f) /\ Len(r.index) = Len(dict.index)
  <1> DEFINE b  == Bare(dict)
             g  == BareFile(f)
             r  == RemoveLemmaByOffsetIndex(dict, k)
             rb == RemoveLemmaByOffsetIndex(b, k)
  <1>1. Whole(dict) /\ Exact(b, g) /\ dict.syncs \in Seq(Nat)
        /\ dict.limit \in Limits
    BY DEF SyncOK
  <1>2. b.index = dict.index /\ Bare(r).index = r.index
    BY BareFields
  <1>3. Whole(r) /\ Bare(r) = rb /\ r.limit = dict.limit
        /\ r.syncs = RemoveFromSyncList(dict.syncs, dict.index[k].off)
    BY <1>1, RemoveBare
  <1>4. Exact(rb, g) /\ Good(b, g)
    <2> HIDE DEF b, g
    <2> QED BY <1>1, <1>2, RemoveExact DEF Exact, Kept
  <1>5. Len(rb.index) = Len(b.index)
    <2>1. k \in 1..Len(b.index)
      BY <1>2
    <2> HIDE DEF b, g
    <2> QED BY <1>4, <2>1, RemoveFields, Zenon
  <1>6. r.syncs \in Seq(Nat)
    <2>1. \A i \in 1..Len(dict.syncs) : dict.syncs[i] \in Nat
      BY <1>1, ElementOfSeq
    <2>2. Nat \in SUBSET Nat
      OBVIOUS
    <2>3. RemoveFromSyncList(dict.syncs, dict.index[k].off) \in Seq(Nat)
      BY <1>1, <2>1, <2>2, RemoveFromSyncListTyped, Zenon
    <2> HIDE DEF r
    <2> QED BY <1>3, <2>3
  <1> HIDE DEF b, g, r, rb
  <1>7. Len(r.index) = Len(dict.index)
    BY <1>2, <1>3, <1>5
  <1>8. SyncOK(r, f)
    BY <1>1, <1>3, <1>4, <1>6, <1>7, Zenon DEF SyncOK, g
  <1> QED BY <1>7, <1>8 DEF r

(* append_a_lemma of a lemma that is not in use. *)
LEMMA AppendSync ==
    ASSUME NEW dict, NEW f, SyncOK(dict, f), dict.left # 0, NEW w \in Lemmas,
           NEW score \in Score, Len(dict.index) < MaxSlots,
           \A k \in 1..Len(dict.index) :
               ~dict.index[k].rm => dict.block[dict.index[k].off] # w
    PROVE  LET r == AppendALemma(dict, w, score)
           IN  SyncOK(r, f) /\ r.syncs = dict.syncs /\ Len(r.index) = Len(dict.index) + 1
  <1> DEFINE b  == Bare(dict)
             g  == BareFile(f)
             r  == AppendALemma(dict, w, score)
             rb == AppendALemma(b, w, score)
             n  == Len(dict.index)
  <1>1. Whole(dict) /\ Exact(b, g) /\ dict.syncs \in Seq(Nat)
        /\ dict.limit \in Limits
    BY DEF SyncOK
  <1>2. b.index = dict.index /\ b.block = dict.block /\ b.left = dict.left
        /\ Bare(r).index = r.index
    BY BareFields
  <1>3. Whole(r) /\ Bare(r) = rb /\ r.limit = dict.limit /\ r.syncs = dict.syncs
    BY <1>1, AppendBare
  <1>4. Good(b, g) /\ n \in Nat
    BY <1>1, SyncTypes DEF Exact, Kept
  <1>5. Exact(rb, g)
    <2> HIDE DEF b, g, r, n
    <2> QED BY <1>1, <1>2, AppendExact
  <1>6. \E p : Placed(rb.index, b.index, p,
                      [off |-> n + 1, rm |-> FALSE, score |-> score, id |-> n + 1])
    <2> DEFINE e == [off |-> n + 1, rm |-> FALSE, score |-> score, id |-> n + 1]
    <2>1. Placed(rb.index, b.index, InsertPosition(rb.block, b.index, w), e)
      <3>1. LET q == AppendALemma(b, w, score)
                m == Len(b.index)
            IN  Placed(q.index, b.index, InsertPosition(q.block, b.index, w),
                       [off |-> m + 1, rm |-> FALSE, score |-> score, id |-> m + 1])
        <4> HIDE DEF b, g, r, n
        <4> QED BY <1>2, <1>4, AppendPlaces, Zenon
      <3>2. Len(b.index) = n
        BY <1>2
      <3> HIDE DEF b
      <3> QED BY <3>1, <3>2
    <2> QED BY <2>1, Zenon
  <1> HIDE DEF b, g, r, rb, n
  <1>7. Len(r.index) = n + 1
    <2>1. r.index = rb.index /\ Len(b.index) = n
      BY <1>2, <1>3 DEF n
    <2> QED BY <1>6, <2>1 DEF Placed
  <1>8. SyncOK(r, f)
    BY <1>1, <1>3, <1>5, <1>7, Zenon DEF SyncOK, g
  <1> QED BY <1>3, <1>7, <1>8 DEF r, n

(* write_back: the queue and the limit go to the file without touching the
   rest of it. *)
LEMMA WriteBackBare ==
    ASSUME NEW dict, dict.state \in SYNC..DEFRAGMENTED, NEW f, WholeFile(f), NEW written
    PROVE  LET r == WriteBack(dict, f, written)
           IN  /\ WholeFile(r) /\ BareFile(r) = WriteBack(Bare(dict), BareFile(f), <<>>)
               /\ dict.state = SYNC => r = f
               /\ dict.state # SYNC => r.syncs = written /\ r.info = InfoOf(dict)
               /\ dict.state = DEFRAGMENTED => BareFile(r) = Image(Bare(dict))
  <1> DEFINE b     == Bare(dict)
             g     == BareFile(f)
             info  == InfoOf(dict)
             binfo == InfoOf(b)
             none  == <<>>
             scores == ScoresOf(dict.index)
             places == OffsetsOf(dict.index)
             fresh == PreAlloc - dict.left
             kept  == Len(dict.block) - fresh
             grown == SubSeq(f.block, 1, kept) \o SubSeq(dict.block, kept + 1, Len(dict.block))
             tail  == [f EXCEPT !.syncs = written, !.info = info]
             score == [tail EXCEPT !.scores = scores]
             offs  == [score EXCEPT !.offs = places, !.preds = dict.preds]
             lem   == [offs EXCEPT !.block = grown]
             all   == [offs EXCEPT !.block = dict.block]
             btail  == [g EXCEPT !.syncs = none, !.info = binfo]
             bscore == [btail EXCEPT !.scores = scores]
             boffs  == [bscore EXCEPT !.offs = places, !.preds = dict.preds]
             blem   == [boffs EXCEPT !.block = grown]
             ball   == [boffs EXCEPT !.block = dict.block]
             R(bl, of, ps, sc, sy, i) ==
                 [block |-> bl, offs |-> of, preds |-> ps, scores |-> sc, syncs |-> sy, info |-> i]
             r     == WriteBack(dict, f, written)
             rb    == WriteBack(b, g, none)
  <1>1. /\ b.state = dict.state /\ b.block = dict.block /\ b.index = dict.index
        /\ b.preds = dict.preds /\ b.left = dict.left /\ b.free_count = dict.free_count
        /\ b.syncs = none /\ b.limit = NoLimit
    BY BareFields
  <1>2. /\ g.block = f.block /\ g.offs = f.offs /\ g.preds = f.preds /\ g.scores = f.scores
    BY DEF BareFile
  <1>3. /\ info = [lemmas |-> Len(dict.block), count |-> Len(dict.index),
                   syncs |-> Len(dict.syncs), free_count |-> dict.free_count,
                   limit |-> dict.limit]
        /\ binfo = [lemmas |-> Len(dict.block), count |-> Len(dict.index),
                    syncs |-> 0, free_count |-> dict.free_count, limit |-> NoLimit]
    <2>1. Len(none) = 0
      OBVIOUS
    <2> HIDE DEF b, none
    <2> QED BY <1>1, <2>1 DEF InfoOf
  <1>4. r = CASE dict.state = SYNC -> f
              [] dict.state = SYNC_DIRTY -> tail
              [] dict.state = SCORE_DIRTY -> score
              [] dict.state = OFFSET_DIRTY -> offs
              [] dict.state = LEMMA_DIRTY -> lem
              [] dict.state = DEFRAGMENTED -> all
    BY Zenon DEF WriteBack
  <1>5. rb = CASE dict.state = SYNC -> g
               [] dict.state = SYNC_DIRTY -> btail
               [] dict.state = SCORE_DIRTY -> bscore
               [] dict.state = OFFSET_DIRTY -> boffs
               [] dict.state = LEMMA_DIRTY -> blem
               [] dict.state = DEFRAGMENTED -> ball
    <2> HIDE DEF b, g, none
    <2> QED BY <1>1, <1>2 DEF WriteBack
  <1> HIDE DEF r, rb, info, binfo, scores, places, grown
  <1>6. /\ f = R(f.block, f.offs, f.preds, f.scores, f.syncs, f.info)
        /\ g = R(f.block, f.offs, f.preds, f.scores, none, g.info)
    BY DEF WholeFile, BareFile
  <1> HIDE DEF b, g, none
  <1>7. /\ tail = R(f.block, f.offs, f.preds, f.scores, written, info)
        /\ btail = R(f.block, f.offs, f.preds, f.scores, none, binfo)
    <2>1. tail = [f EXCEPT !.syncs = written, !.info = info]
      OBVIOUS
    <2>2. btail = [g EXCEPT !.syncs = none, !.info = binfo]
      OBVIOUS
    <2> HIDE DEF tail, btail
    <2>3. PICK bl, of, ps, sc, sy, i :
              /\ f = R(bl, of, ps, sc, sy, i)
              /\ bl = f.block /\ of = f.offs /\ ps = f.preds /\ sc = f.scores
      BY <1>6, Zenon
    <2>4. PICK i2 : g = R(f.block, f.offs, f.preds, f.scores, none, i2)
      BY <1>6, Zenon
    <2>5. tail = R(bl, of, ps, sc, written, info)
      BY <2>1, <2>3
    <2>6. btail = R(f.block, f.offs, f.preds, f.scores, none, binfo)
      BY <2>2, <2>4
    <2> QED BY <2>3, <2>5, <2>6
  <1> HIDE DEF tail, btail
  <1>8. /\ score = R(f.block, f.offs, f.preds, scores, written, info)
        /\ bscore = R(f.block, f.offs, f.preds, scores, none, binfo)
    <2>1. score = [tail EXCEPT !.scores = scores] /\ bscore = [btail EXCEPT !.scores = scores]
      OBVIOUS
    <2> HIDE DEF score, bscore
    <2> QED BY <1>7, <2>1
  <1> HIDE DEF score, bscore
  <1>9. /\ offs = R(f.block, places, dict.preds, scores, written, info)
        /\ boffs = R(f.block, places, dict.preds, scores, none, binfo)
    <2>1. offs = [score EXCEPT !.offs = places, !.preds = dict.preds]
          /\ boffs = [bscore EXCEPT !.offs = places, !.preds = dict.preds]
      OBVIOUS
    <2> HIDE DEF offs, boffs
    <2> QED BY <1>8, <2>1
  <1> HIDE DEF offs, boffs
  <1>10. /\ lem = R(grown, places, dict.preds, scores, written, info)
         /\ blem = R(grown, places, dict.preds, scores, none, binfo)
         /\ all = R(dict.block, places, dict.preds, scores, written, info)
         /\ ball = R(dict.block, places, dict.preds, scores, none, binfo)
    <2>1. /\ lem = [offs EXCEPT !.block = grown] /\ blem = [boffs EXCEPT !.block = grown]
          /\ all = [offs EXCEPT !.block = dict.block] /\ ball = [boffs EXCEPT !.block = dict.block]
      OBVIOUS
    <2> HIDE DEF lem, blem, all, ball
    <2> QED BY <1>9, <2>1
  <1> HIDE DEF lem, blem, all, ball
  <1> DEFINE X(u, v) == /\ WholeFile(u) /\ BareFile(u) = v
                        /\ u.syncs = written /\ u.info = info
  <1>11. \A bl, of, ps, sc : X(R(bl, of, ps, sc, written, info), R(bl, of, ps, sc, none, binfo))
    <2>1. /\ info.lemmas = binfo.lemmas /\ info.count = binfo.count
          /\ info.free_count = binfo.free_count /\ binfo.syncs = 0 /\ binfo.limit = NoLimit
          /\ info = [lemmas |-> info.lemmas, count |-> info.count, syncs |-> info.syncs,
                     free_count |-> info.free_count, limit |-> info.limit]
          /\ binfo = [lemmas |-> binfo.lemmas, count |-> binfo.count, syncs |-> binfo.syncs,
                      free_count |-> binfo.free_count, limit |-> binfo.limit]
      BY <1>3
    <2>2. ASSUME NEW bl, NEW of, NEW ps, NEW sc
          PROVE  X(R(bl, of, ps, sc, written, info), R(bl, of, ps, sc, none, binfo))
      <3> DEFINE u == R(bl, of, ps, sc, written, info)
      <3>1. /\ u.block = bl /\ u.offs = of /\ u.preds = ps /\ u.scores = sc
            /\ u.syncs = written /\ u.info = info
            /\ u = R(bl, of, ps, sc, written, info)
        OBVIOUS
      <3> HIDE DEF u
      <3>2. WholeFile(u)
        BY <2>1, <3>1, Zenon DEF WholeFile
      <3>3. BareFile(u) = R(bl, of, ps, sc, none, binfo)
        BY <2>1, <3>1, Zenon DEF BareFile, none
      <3>4. X(u, R(bl, of, ps, sc, none, binfo))
        BY <3>1, <3>2, <3>3
      <3> HIDE DEF X
      <3> QED BY <3>4 DEF u
    <2> QED BY <2>2
  <1>12. X(tail, btail) /\ X(score, bscore) /\ X(offs, boffs) /\ X(lem, blem) /\ X(all, ball)
    <2> HIDE DEF X, R
    <2> QED BY <1>7, <1>8, <1>9, <1>10, <1>11
  <1>13. ball = Image(b)
    BY <1>1, <1>10, Zenon DEF Image, binfo, scores, places
  <1> HIDE DEF R
  <1>14. WholeFile(f) /\ BareFile(f) = g
    BY DEF g
  <1>15. \/ dict.state = SYNC \/ dict.state = SYNC_DIRTY \/ dict.state = SCORE_DIRTY
         \/ dict.state = OFFSET_DIRTY \/ dict.state = LEMMA_DIRTY \/ dict.state = DEFRAGMENTED
    OBVIOUS
  <1>16. \/ dict.state = SYNC /\ r = f /\ rb = g
         \/ /\ dict.state # SYNC /\ X(r, rb)
            /\ dict.state = DEFRAGMENTED => rb = ball
    <2> HIDE DEF X
    <2> QED BY <1>4, <1>5, <1>12, <1>15
  <1>17. /\ WholeFile(r) /\ BareFile(r) = rb
         /\ dict.state = SYNC => r = f
         /\ dict.state # SYNC => r.syncs = written /\ r.info = info
         /\ dict.state = DEFRAGMENTED => rb = Image(b)
    BY <1>13, <1>14, <1>16
  <1> QED BY <1>17, Zenon DEF r, rb, b, g, info, none

(* reset() and what it is loaded as. *)
LEMMA EmptySync ==
    LET r == Load(EmptyFile) IN SyncOK(r, EmptyFile) /\ r.left # 0 /\ Len(r.index) = 0
  <1> DEFINE e == EmptyFile
             r == Load(EmptyFile)
  <1>1. /\ BareFile(e) = e /\ WholeFile(e) /\ e.syncs = <<>> /\ e.info.syncs = 0
        /\ e.info.limit = NoLimit /\ e.block = <<>> /\ e.offs = <<>> /\ e.preds = <<>>
    BY DEF BareFile, WholeFile, EmptyFile
  <1>2. FileOK(e)
    BY EmptyFileOK
  <1> HIDE DEF e
  <1>3. Len(e.offs) = 0 /\ Len(e.preds) = 0 /\ Len(e.syncs) = 0 /\ e.syncs \in Seq(Nat) /\ 1..0 = {}
    BY <1>1
  <1>4. Orderly(e.block, e.offs, e.preds) /\ Single(e.block, e.offs)
    BY <1>3, Zenon DEF Orderly, Single, Distinct, Mirrors, Sorted
  <1>5. Exact(Load(e), e) /\ Len(Load(e).index) = Len(e.offs)
    BY <1>2, <1>3, <1>4, LoadExact
  <1>6. Whole(Load(e)) /\ Bare(Load(e)) = Load(e) /\ Load(e).syncs = <<>> /\ Load(e).limit = NoLimit
    BY <1>1, LoadBare
  <1>8. Load(e).left # 0
    BY DEF Load
  <1>9. Load(e).syncs \in Seq(Nat) /\ NoLimit \in Limits /\ Len(e.syncs) = e.info.syncs
    BY <1>1, <1>3, <1>6 DEF Limits
  <1>10. SyncOK(Load(e), e)
    BY <1>1, <1>3, <1>5, <1>6, <1>9, Zenon DEF SyncOK
  <1> QED BY <1>3, <1>5, <1>8, <1>10 DEF e

(* flush_cache: what comes back is what was there, or nothing if the file
   was refused. *)
LEMMA FlushSync ==
    ASSUME NEW dict, NEW f, SyncOK(dict, f), NEW written \in Seq(Nat)
    PROVE  LET r == FlushCache(dict, f, written)
           IN  /\ SyncOK(r.d, r.file) /\ r.d.left # 0
               /\ \/ Len(r.d.index) = 0
                  \/ /\ r.d.block = dict.block /\ Len(r.d.index) = Len(dict.index)
                     /\ \A k \in 1..Len(dict.index) :
                           /\ r.d.index[k].off = dict.index[k].off
                           /\ r.d.index[k].rm = dict.index[k].rm
  <1> DEFINE b  == Bare(dict)
             g  == BareFile(f)
             f1 == WriteBack(dict, f, written)
             f2 == Accepted(f1)
             r  == FlushCache(dict, f, written)
             rb == FlushCache(b, g, b.syncs)
  <1>1. /\ Whole(dict) /\ WholeFile(f) /\ Exact(b, g)
        /\ f.syncs \in Seq(Nat) /\ dict.limit \in Limits /\ f.info.limit \in Limits
    BY DEF SyncOK
  <1>2. dict.state \in SYNC..DEFRAGMENTED /\ Len(dict.index) \in Nat
    <2>1. dict.state \in SYNC..LEMMA_DIRTY /\ Len(dict.index) \in Nat
      BY SyncTypes
    <2> QED BY <2>1
  <1>3. b.block = dict.block /\ b.index = dict.index /\ b.syncs = <<>>
    BY BareFields
  <1>4. r.d = Load(f2) /\ r.file = f2 /\ f2 = IF Validate(f1) THEN f1 ELSE EmptyFile
    BY DEF FlushCache, Accepted
  <1>5. /\ WholeFile(f1) /\ BareFile(f1) = WriteBack(b, g, <<>>)
        /\ dict.state = SYNC => f1 = f
        /\ dict.state # SYNC => f1.syncs = written /\ f1.info = InfoOf(dict)
    BY <1>1, <1>2, WriteBackBare
  <1>6. InfoOf(dict).limit = dict.limit
    BY DEF InfoOf
  <1> HIDE DEF b, g, r, f1, f2
  <1>7. Kept(b, g) /\ Good(b, g)
    BY <1>1 DEF Exact, Kept
  <1>8. BareFile(f1) = Image(b)
    BY <1>3, <1>5, <1>7, WriteBackIsImage
  <1>9. /\ Exact(rb.d, rb.file) /\ rb.d.left # 0 /\ rb.file = Image(b)
        /\ rb.d.block = b.block /\ Len(rb.d.index) = Len(b.index)
        /\ \A k \in 1..Len(b.index) :
              /\ rb.d.index[k].off = b.index[k].off /\ rb.d.index[k].rm = b.index[k].rm
              /\ rb.d.index[k].score = b.index[k].score
    BY <1>1, FlushExact
  <1>10. rb.d = Load(Image(b))
    BY <1>7, FlushGood
  <1> HIDE DEF rb
  <1>11. CASE Validate(f1)
    <2>1. r.d = Load(f1) /\ r.file = f1
      BY <1>4, <1>11
    <2>2. /\ Whole(r.d) /\ Bare(r.d) = rb.d /\ r.d.syncs = f1.syncs /\ r.d.limit = f1.info.limit
      BY <1>8, <1>10, <2>1, LoadBare
    <2>3. Exact(Bare(r.d), BareFile(r.file))
      BY <1>8, <1>9, <2>1, <2>2
    <2>4. /\ r.d.index = rb.d.index /\ r.d.block = rb.d.block /\ r.d.left = rb.d.left
      BY <2>2, BareFields
    <2>6. f1.syncs \in Seq(Nat) /\ f1.info.limit \in Limits
      BY <1>1, <1>5, <1>6
    <2>7. Len(f1.syncs) = f1.info.syncs
      BY <1>11 DEF Validate
    <2>8. SyncOK(r.d, r.file)
      BY <1>5, <2>1, <2>2, <2>3, <2>6, <2>7, Zenon DEF SyncOK
    <2>9. /\ r.d.left # 0 /\ r.d.block = dict.block /\ Len(r.d.index) = Len(dict.index)
          /\ \A k \in 1..Len(dict.index) : /\ r.d.index[k].off = dict.index[k].off
                                           /\ r.d.index[k].rm = dict.index[k].rm
      BY <1>3, <1>9, <2>4, Zenon
    <2> QED BY <2>8, <2>9, Zenon DEF r
  <1>12. CASE ~Validate(f1)
    <2>1. r.d = Load(EmptyFile) /\ r.file = EmptyFile
      BY <1>4, <1>12
    <2>2. SyncOK(r.d, r.file) /\ r.d.left # 0 /\ Len(r.d.index) = 0
      BY <2>1, EmptySync
    <2> QED BY <2>2, Zenon DEF r
  <1> QED BY <1>11, <1>12

(* locate_in_offsets finds a lemma that is in use. *)
LEMMA FoundSync ==
    ASSUME NEW dict, NEW f, SyncOK(dict, f), NEW w
    PROVE  LET k == LocateInOffsets(dict, w)
           IN  /\ k \in 0..Len(dict.index)
               /\ k = 0 /\ w \in Lemmas =>
                     \A m \in 1..Len(dict.index) :
                         ~dict.index[m].rm => dict.block[dict.index[m].off] # w
  <1> DEFINE b == Bare(dict)
             g == BareFile(f)
             k == LocateInOffsets(dict, w)
  <1>1. Exact(b, g)
    BY DEF SyncOK
  <1>2. b.block = dict.block /\ b.index = dict.index
    BY BareFields
  <1>3. LocateInOffsets(b, w) = k
    BY LocateBare
  <1> HIDE DEF b, g, k
  <1>4. Kept(b, g) /\ Unsearched(b) /\ Single(b.block, b.index) /\ DictOK(b)
    BY <1>1 DEF Exact, Kept, Good
  <1>5. Indexed(b.block, b.index)
    BY <1>4, KeptIndexed
  <1>6. k \in 0..Len(dict.index)
    BY <1>2, <1>3, <1>4, LocateRange
  <1>7. k = 0 /\ w \in Lemmas =>
            \A m \in 1..Len(dict.index) : ~dict.index[m].rm => dict.block[dict.index[m].off] # w
    <2> SUFFICES ASSUME k = 0, w \in Lemmas
                 PROVE  \A m \in 1..Len(b.index) :
                            ~b.index[m].rm => b.block[b.index[m].off] # w
      BY <1>2
    <2>1. \A m \in 1..Len(b.index) : ~b.index[m].rm /\ b.block[b.index[m].off] = w =>
              LocateInOffsets(b, w) # 0
      <3> SUFFICES ASSUME NEW m \in 1..Len(b.index), ~b.index[m].rm, b.block[b.index[m].off] = w
                   PROVE  LocateInOffsets(b, w) # 0
        OBVIOUS
      <3>1. LocateInOffsets(b, w) = m
        BY <1>4, <1>5, LocateOnly DEF LemmaAt
      <3>2. m # 0
        OBVIOUS
      <3> QED BY <3>1, <3>2
    <2> QED BY <1>3, <2>1, Zenon
  <1> QED BY <1>6, <1>7, Zenon DEF k

(* The flush that makes room for a lemma which is not in use. *)
LEMMA RoomSync ==
    ASSUME NEW dict, NEW f, SyncOK(dict, f), NEW w \in Lemmas, LocateInOffsets(dict, w) = 0,
           NEW written \in Seq(Nat), NEW score \in Score,
           Len(FlushCache(dict, f, written).d.index) < MaxSlots
    PROVE  LET r == FlushCache(dict, f, written)
               a == AppendALemma(r.d, w, score)
           IN  SyncOK(a, r.file) /\ Len(a.index) \in Nat \ {0}
  <1> DEFINE r == FlushCache(dict, f, written)
             a == AppendALemma(r.d, w, score)
  <1>1. \A m \in 1..Len(dict.index) : ~dict.index[m].rm => dict.block[dict.index[m].off] # w
    BY FoundSync
  <1>2. /\ SyncOK(r.d, r.file) /\ r.d.left # 0
        /\ \/ Len(r.d.index) = 0
           \/ /\ r.d.block = dict.block /\ Len(r.d.index) = Len(dict.index)
              /\ \A k \in 1..Len(dict.index) : /\ r.d.index[k].off = dict.index[k].off
                                               /\ r.d.index[k].rm = dict.index[k].rm
    BY FlushSync
  <1>3. Len(dict.index) \in Nat /\ Len(r.d.index) \in Nat
    <2> HIDE DEF r
    <2> QED BY <1>2, SyncTypes
  <1> HIDE DEF r
  <1>4. Len(r.d.index) < MaxSlots
        /\ \A k \in 1..Len(r.d.index) : ~r.d.index[k].rm => r.d.block[r.d.index[k].off] # w
    <2>1. CASE Len(r.d.index) = 0
      <3>1. 1..0 = {}
        OBVIOUS
      <3> QED BY <2>1, <3>1 DEF r
    <2>2. CASE Len(r.d.index) # 0
      <3>1. Len(r.d.index) < MaxSlots
        BY DEF r
      <3> QED BY <1>1, <1>2, <2>2, <3>1, Zenon
    <2> QED BY <2>1, <2>2
  <1>5. SyncOK(a, r.file) /\ Len(a.index) = Len(r.d.index) + 1
    BY <1>2, <1>4, AppendSync
  <1> HIDE DEF a
  <1>6. Len(a.index) \in Nat \ {0}
    BY <1>3, <1>5
  <1> QED BY <1>5, <1>6 DEF a, r

(* queue_lemma_for_sync. *)
LEMMA QueueSync ==
    ASSUME NEW dict, NEW f, SyncOK(dict, f), NEW id \in 1..Len(dict.index)
    PROVE  SyncOK(QueueLemmaForSync(dict, id), f)
  <1> DEFINE syncs == Append(dict.syncs, dict.by_id[id])
             r == QueueLemmaForSync(dict, id)
  <1>1. r = [dict EXCEPT !.syncs = syncs]
    BY Zenon DEF QueueLemmaForSync
  <1>2. dict.by_id[id] \in 1..Len(dict.index) /\ Len(dict.index) \in Nat
    BY SyncTypes
  <1>3. dict.by_id[id] \in Nat
    BY <1>2
  <1>4. Whole(dict) /\ dict.syncs \in Seq(Nat) /\ dict.limit \in Limits
    BY DEF SyncOK
  <1>5. syncs \in Seq(Nat)
    BY <1>3, <1>4, AppendProperties
  <1> HIDE DEF syncs, r
  <1>6. Whole(r) /\ Bare(r) = Bare(dict) /\ r.syncs = syncs /\ r.limit = dict.limit
    BY <1>1, <1>4, QueueOnlyBare
  <1>7. SyncOK(r, f)
    BY <1>4, <1>5, <1>6, QueueAside
  <1> QED BY <1>7 DEF r

(* _put_lemma, as the input method calls it. *)
LEMMA PutSync ==
    ASSUME NEW dict, NEW f, SyncOK(dict, f), NEW w \in Lemmas,
           NEW count \in Nat, NEW week \in Nat,
           LocateInOffsets(dict, w) = 0 => Len(dict.block) < MaxSlots
    PROVE  LET r == PutLemma(dict, f, w, count, week) IN SyncOK(r.d, r.file)
  <1> DEFINE k     == LocateInOffsets(dict, w)
             score == BuildScore(week, count)
             room  == IF NoRoom(dict) THEN FlushCache(dict, f, dict.syncs)
                                       ELSE [d |-> dict, file |-> f]
             added == AppendALemma(room.d, w, score)
             r     == PutLemma(dict, f, w, count, week)
  <1>1. score \in Score
    BY BuildScoreFits
  <1>2. /\ Len(dict.index) \in Nat /\ Len(dict.block) = Len(dict.index)
        /\ k \in 0..Len(dict.index)
        /\ k = 0 => \A m \in 1..Len(dict.index) :
                        ~dict.index[m].rm => dict.block[dict.index[m].off] # w
    BY SyncTypes, FoundSync
  <1>3. dict.syncs \in Seq(Nat)
    BY DEF SyncOK
  <1>4. CASE k # 0
    <2>1. r = [d |-> Scored(dict, k, score), file |-> f] /\ k \in 1..Len(dict.index)
      <3>1. r = [d |-> Scored(dict, k, score), file |-> f]
        <4> HIDE DEF score, k
        <4> QED BY <1>4 DEF PutLemma, Scored, k, score
      <3> HIDE DEF k
      <3> QED BY <1>2, <1>4, <3>1
    <2> HIDE DEF k, score, r
    <2>2. SyncOK(Scored(dict, k, score), f)
      BY <1>1, <2>1, ScoreSync
    <2> QED BY <2>1, <2>2 DEF r
  <1> HIDE DEF score
  <1>5. CASE k = 0 /\ LimitReached(dict)
    BY <1>5 DEF PutLemma
  <1>6. CASE k = 0 /\ ~LimitReached(dict)
    <2>1. r = [d |-> QueueLemmaForSync(added, Len(added.index)), file |-> room.file]
      BY <1>6 DEF PutLemma, score
    <2>2. Len(dict.index) < MaxSlots
      BY <1>2, <1>6
    <2>3. SyncOK(added, room.file) /\ Len(added.index) \in Nat \ {0}
      <3>1. CASE NoRoom(dict)
        <4>1. room = FlushCache(dict, f, dict.syncs)
          BY <3>1
        <4> HIDE DEF room, k, r
        <4>2. Len(room.d.index) = 0 \/ Len(room.d.index) = Len(dict.index)
          BY <1>3, <4>1, FlushSync
        <4>3. Len(room.d.index) < MaxSlots
          BY <1>2, <2>2, <4>2
        <4> QED BY <1>1, <1>3, <1>6, <4>1, <4>3, RoomSync DEF k
      <3>2. CASE ~NoRoom(dict)
        <4>1. room.d = dict /\ room.file = f /\ dict.left # 0
          BY <3>2 DEF NoRoom
        <4> HIDE DEF room, k
        <4>2. SyncOK(AppendALemma(dict, w, score), f)
              /\ Len(AppendALemma(dict, w, score).index) = Len(dict.index) + 1
          BY <1>1, <1>2, <1>6, <2>2, <4>1, AppendSync
        <4> QED BY <1>2, <4>1, <4>2
      <3> QED BY <3>1, <3>2
    <2> HIDE DEF room, added, r
    <2>4. Len(added.index) \in 1..Len(added.index)
      BY <2>3
    <2>5. SyncOK(QueueLemmaForSync(added, Len(added.index)), room.file)
      BY <2>3, <2>4, QueueSync
    <2> QED BY <2>1, <2>5 DEF r
  <1> QED BY <1>4, <1>5, <1>6

(* update_lemma. *)
LEMMA UpdateSync ==
    ASSUME NEW dict, NEW f, SyncOK(dict, f), NEW id, NEW week \in Nat
    PROVE  SyncOK(UpdateLemma(dict, id, 1, TRUE, week), f)
  <1> DEFINE k     == LocateInOffsets(dict, dict.block[dict.by_id[id]])
             old   == dict.index[k].score
             count == UpdatedCount(ExtractFreq(old), 1)
             score == BuildScore(week, count)
             s     == Scored(dict, k, score)
             r     == UpdateLemma(dict, id, 1, TRUE, week)
  <1>1. k \in 0..Len(dict.index) /\ Len(dict.index) \in Nat
    BY SyncTypes, FoundSync
  <1> HIDE DEF k
  <1>2. CASE k = 0
    BY <1>2 DEF UpdateLemma, k
  <1>3. CASE k # 0
    <2>1. k \in 1..Len(dict.index)
      BY <1>1, <1>3
    <2>2. old \in Nat /\ dict.index[k].id \in 1..Len(dict.index)
      <3>1. dict.index[k] \in Entry /\ dict.index[k].id \in 1..Len(dict.index)
        BY <2>1, SyncTypes
      <3> QED BY <3>1 DEF Entry, Score
    <2>3. r = QueueLemmaForSync(s, dict.index[k].id)
      BY <1>3 DEF UpdateLemma, Scored, k
    <2> HIDE DEF old, r
    <2>4. count \in Nat
      BY <2>2, SizesAssumption DEF UpdatedCount, ExtractFreq, MaxFrequency
    <2> HIDE DEF count
    <2>5. score \in Score
      BY <2>4, BuildScoreFits
    <2> HIDE DEF score
    <2>6. SyncOK(s, f)
      BY <2>1, <2>5, ScoreSync
    <2>7. Len(s.index) = Len(dict.index)
      <3> DEFINE b == Bare(dict)
                 g == BareFile(f)
      <3>1. Good(b, g) /\ Whole(dict)
        BY DEF SyncOK, Exact, Kept
      <3>2. Bare(s) = Scored(b, k, score)
        BY <3>1, ScoredBare
      <3>3. Bare(s).index = s.index /\ b.index = dict.index
        BY BareFields
      <3> HIDE DEF s, b, g
      <3>4. k \in 1..Len(b.index)
        BY <2>1, <3>3
      <3>5. Len(Scored(b, k, score).index) = Len(b.index)
        BY <2>5, <3>1, <3>4, ScoreGood
      <3> QED BY <3>2, <3>3, <3>5
    <2> HIDE DEF s
    <2>8. SyncOK(QueueLemmaForSync(s, dict.index[k].id), f)
      BY <2>2, <2>6, <2>7, QueueSync
    <2> QED BY <2>3, <2>8 DEF r
  <1> QED BY <1>2, <1>3

-----------------------------------------------------------------------------
(* What becomes of the queue, told by its lemmas. *)

(* The file holds the queue of an object that is not dirty. *)
QueueSaved(dict, f) == dict.state = SYNC => f.syncs = dict.syncs

(* The lemmas of the queue that are in use. *)
Due(dict) == LemmasAt(dict, {slot \in Queued(dict) : LiveSlot(dict, slot)})

(* From one object to the next no lemma comes into use, and one leaves the
   queue only when it is no longer in use. *)
Passes(old, new) ==
    /\ LemmasInUse(new) \subseteq LemmasInUse(old)
    /\ \A w \in Due(old) : w \in Due(new) \/ w \notin LemmasInUse(new)

Slotted(dict) == \A k \in 1..Len(dict.index) : dict.index[k].off \in 1..Len(dict.block)

LEMMA SyncSlotted ==
    ASSUME NEW dict, NEW f, SyncOK(dict, f)
    PROVE  Slotted(dict)
  BY SyncTypes DEF Slotted

(* The sets of lemmas, by position in the index and in the queue. *)
LEMMA InUseIs ==
    ASSUME NEW dict, Slotted(dict), NEW w
    PROVE  w \in LemmasInUse(dict) <=>
               \E k \in 1..Len(dict.index) :
                   ~dict.index[k].rm /\ dict.block[dict.index[k].off] = w
  BY DEF LemmasInUse, LemmasAt, LiveSlot, Slotted

LEMMA DueIs ==
    ASSUME NEW dict, Slotted(dict), NEW w
    PROVE  w \in Due(dict) <=>
               \E i \in 1..Len(dict.syncs), k \in 1..Len(dict.index) :
                   /\ dict.syncs[i] = dict.index[k].off
                   /\ ~dict.index[k].rm /\ dict.block[dict.index[k].off] = w
  BY DEF Due, LemmasAt, Queued, LiveSlot, Slotted

LEMMA DueInUse ==
    ASSUME NEW dict, Slotted(dict)
    PROVE  /\ Due(dict) \subseteq LemmasInUse(dict)
           /\ Due(dict) \subseteq QueuedLemmas(dict)
           /\ Waiting(dict) \subseteq Due(dict)
  <1>1. Due(dict) \subseteq LemmasInUse(dict)
    BY DEF Due, LemmasInUse, LemmasAt
  <1>2. Due(dict) \subseteq QueuedLemmas(dict)
    BY DEF Due, QueuedLemmas, LemmasAt
  <1>3. \A slot : Sendable(dict, slot) => LiveSlot(dict, slot)
    BY DEF Sendable, LiveSlot
  <1>4. Waiting(dict) \subseteq Due(dict)
    BY <1>3 DEF Due, Waiting, LemmasAt
  <1> QED BY <1>1, <1>2, <1>4

LEMMA PassesOn ==
    ASSUME NEW a, NEW b, NEW c, Passes(a, b), Passes(b, c)
    PROVE  Passes(a, c)
  BY DEF Passes

(* Nothing is in use in an empty dictionary. *)
LEMMA EmptyPasses ==
    ASSUME NEW old, NEW new, Len(new.index) = 0
    PROVE  LemmasInUse(new) = {} /\ Passes(old, new)
  <1>1. LemmasInUse(new) = {}
    <2>1. 1..Len(new.index) = {}
      OBVIOUS
    <2> QED BY <2>1 DEF LemmasInUse, LemmasAt, LiveSlot
  <1> QED BY <1>1 DEF Passes

(* Two objects with the same lemmas in the same order. *)
SameLemmas(a, b) ==
    /\ a.block = b.block /\ Len(a.index) = Len(b.index)
    /\ \A k \in 1..Len(b.index) : a.index[k].off = b.index[k].off /\ a.index[k].rm = b.index[k].rm

LEMMA SamePasses ==
    ASSUME NEW old, NEW new, Slotted(old), SameLemmas(new, old), new.syncs = old.syncs
    PROVE  Slotted(new) /\ Passes(old, new)
  <1>1. Slotted(new)
    BY DEF Slotted, SameLemmas
  <1>2. \A w : w \in LemmasInUse(new) => w \in LemmasInUse(old)
    BY <1>1, InUseIs DEF SameLemmas
  <1>3. \A w : w \in Due(old) => w \in Due(new)
    BY <1>1, DueIs DEF SameLemmas
  <1> QED BY <1>1, <1>2, <1>3 DEF Passes

(* remove_lemma_from_sync_list takes nothing else out. *)
LEMMA SyncListKeeps ==
    ASSUME NEW syncs \in Seq(Nat), NEW slot, NEW i \in 1..Len(syncs), syncs[i] # slot
    PROVE  LET r == RemoveFromSyncList(syncs, slot)
           IN  \E j \in 1..Len(r) : r[j] = syncs[i]
  <1> DEFINE at == {j \in 1..Len(syncs) : syncs[j] = slot}
             m  == Len(syncs)
             p  == Least(at)
             r  == RemoveFromSyncList(syncs, slot)
  <1>1. m \in Nat /\ i \in 1..m
    BY LenProperties
  <1>2. CASE at = {}
    <2>1. r = syncs
      BY <1>2 DEF RemoveFromSyncList
    <2> QED BY <2>1
  <1>3. CASE at # {}
    <2>1. r = [j \in 1..m - 1 |-> IF j = p THEN syncs[m] ELSE syncs[j]]
      BY <1>3 DEF RemoveFromSyncList
    <2>2. p \in at
      <3>1. at \in SUBSET Nat
        BY <1>1
      <3> HIDE DEF at
      <3> QED BY <1>3, <3>1, LeastIn
    <2>3. p \in 1..m /\ syncs[p] = slot /\ p # i
      BY <2>2
    <2> HIDE DEF r, p, at, m
    <2>4. m - 1 \in Nat /\ Len(r) = m - 1
      BY <1>1, <2>1
    <2>5. CASE i = m
      <3>1. p \in 1..m - 1
        BY <1>1, <2>3, <2>5
      <3>2. r[p] = syncs[m]
        BY <2>1, <3>1
      <3> QED BY <2>4, <2>5, <3>1, <3>2 DEF r
    <2>6. CASE i # m
      <3>1. i \in 1..m - 1
        BY <1>1, <2>6
      <3>2. r[i] = syncs[i]
        BY <2>1, <2>3, <3>1
      <3> QED BY <2>4, <3>1, <3>2 DEF r
    <2> QED BY <2>5, <2>6
  <1> QED BY <1>2, <1>3

(* remove_lemma_by_offset_index: its own lemma leaves queue and use together,
   since it is in the index once. *)
LEMMA RemovePasses ==
    ASSUME NEW dict, NEW f, SyncOK(dict, f), NEW k \in 1..Len(dict.index)
    PROVE  LET r == RemoveLemmaByOffsetIndex(dict, k)
           IN  Passes(dict, r) /\ QueueSaved(r, f)
  <1> DEFINE b  == Bare(dict)
             g  == BareFile(f)
             r  == RemoveLemmaByOffsetIndex(dict, k)
             rb == RemoveLemmaByOffsetIndex(b, k)
             n  == Len(dict.index)
             slot == dict.index[k].off
  <1>0. Distinct(b.index) /\ Single(b.block, b.index)
    BY DEF SyncOK, Exact, Kept, Orderly
  <1>1. Whole(dict) /\ Good(b, g) /\ dict.syncs \in Seq(Nat)
    BY DEF SyncOK, Exact, Kept
  <1>2. /\ b.index = dict.index /\ b.block = dict.block /\ b.state = dict.state
        /\ Bare(r).index = r.index /\ Bare(r).block = r.block /\ Bare(r).state = r.state
    BY BareFields
  <1>3. Bare(r) = rb /\ r.syncs = RemoveFromSyncList(dict.syncs, slot)
    BY <1>1, RemoveBare
  <1>4. /\ rb.block = b.block /\ Len(rb.index) = Len(b.index)
        /\ \A j \in 1..Len(b.index) : /\ rb.index[j].off = b.index[j].off
                                      /\ j = k => rb.index[j].rm = TRUE
                                      /\ j # k => rb.index[j].rm = b.index[j].rm
    <2>1. k \in 1..Len(b.index)
      BY <1>2
    <2> HIDE DEF b, g
    <2> QED BY <1>1, <2>1, RemoveFields, Zenon
  <1>5. rb.state # SYNC
    <2> DEFINE x == [b EXCEPT !.index[k].rm = TRUE,
                 !.syncs = RemoveFromSyncList(@, b.index[k].off),
                 !.preds = RemoveFromPredictList(@, b.index[k].off),
                 !.free_count = @ + 1]
    <2>1. rb.state = Dirty(b, OFFSET_DIRTY)
      BY DEF RemoveLemmaByOffsetIndex, Bare
    <2> HIDE DEF b, rb
    <2> QED BY <2>1 DEF Dirty
  <1> HIDE DEF b, g, r, rb
  <1>6. /\ r.block = dict.block /\ Len(r.index) = n /\ r.state # SYNC
        /\ \A j \in 1..n : /\ r.index[j].off = dict.index[j].off
                           /\ j = k => r.index[j].rm = TRUE
                           /\ j # k => r.index[j].rm = dict.index[j].rm
    BY <1>2, <1>3, <1>4, <1>5
  <1>7. Slotted(dict) /\ Distinct(dict.index) /\ Single(dict.block, dict.index)
    BY <1>0, <1>2, SyncSlotted
  <1>8. Slotted(r)
    BY <1>6, <1>7 DEF Slotted
  <1>9. \A w : w \in LemmasInUse(r) => w \in LemmasInUse(dict)
    BY <1>6, <1>7, <1>8, InUseIs
  <1>10. ASSUME NEW w \in Due(dict) PROVE w \in Due(r) \/ w \notin LemmasInUse(r)
    <2>1. PICK i \in 1..Len(dict.syncs), j \in 1..n :
              /\ dict.syncs[i] = dict.index[j].off
              /\ ~dict.index[j].rm /\ dict.block[dict.index[j].off] = w
      BY <1>7, DueIs
    <2>2. CASE j = k
      <3> SUFFICES ASSUME NEW m \in 1..n, ~r.index[m].rm, r.block[r.index[m].off] = w PROVE FALSE
        BY <1>6, <1>8, InUseIs
      <3>1. m # k /\ ~dict.index[m].rm /\ dict.block[dict.index[m].off] = w
        BY <1>6
      <3> QED BY <1>7, <2>1, <2>2, <3>1 DEF Single
    <2>3. CASE j # k
      <3>1. dict.syncs[i] # slot
        BY <1>7, <2>1, <2>3 DEF Distinct
      <3>2. \E p \in 1..Len(r.syncs) : r.syncs[p] = dict.syncs[i]
        <4> HIDE DEF slot
        <4> QED BY <1>1, <1>3, <3>1, SyncListKeeps
      <3>3. ~r.index[j].rm /\ r.index[j].off = dict.index[j].off
        BY <1>6, <2>1, <2>3
      <3> QED BY <1>6, <1>8, <2>1, <3>2, <3>3, DueIs
    <2> QED BY <2>2, <2>3
  <1> QED BY <1>6, <1>9, <1>10 DEF Passes, QueueSaved, r

-----------------------------------------------------------------------------
(* reclaim: lemmas leave, one victim after another. *)

(* The objects that are in order, with n lemmas and given caches. *)
Objects(f, n, hits, misses) ==
    {x \in [state : SYNC..LEMMA_DIRTY, block : Seq(Lemmas), index : Seq(Entry), by_id : Seq(Nat),
            preds : Seq(Flagged), syncs : Seq(Nat), left : 0..PreAlloc, limit : Limits,
            free_count : Nat, hits : {hits}, misses : {misses}] :
        SyncOK(x, f) /\ Len(x.index) = n}

LEMMA ObjectsHold ==
    ASSUME NEW dict, NEW f, SyncOK(dict, f)
    PROVE  dict \in Objects(f, Len(dict.index), dict.hits, dict.misses)
  <1> DEFINE b == Bare(dict)
             g == BareFile(f)
             T == [state : SYNC..LEMMA_DIRTY, block : Seq(Lemmas), index : Seq(Entry),
                   by_id : Seq(Nat), preds : Seq(Flagged), syncs : Seq(Nat), left : 0..PreAlloc,
                   limit : Limits, free_count : Nat, hits : {dict.hits}, misses : {dict.misses}]
  <1>1. /\ dict.block \in Seq(Lemmas) /\ dict.index \in Seq(Entry) /\ dict.by_id \in Seq(Nat)
        /\ dict.preds \in Seq(Flagged) /\ dict.left \in 0..PreAlloc
        /\ dict.state \in SYNC..LEMMA_DIRTY
    BY SyncTypes, Zenon
  <1>2. Whole(dict) /\ dict.syncs \in Seq(Nat) /\ dict.limit \in Limits
    BY DEF SyncOK
  <1>3. dict.free_count \in Nat
    <2>1. b \in DictTypes(b)
      BY DEF SyncOK, Exact, Kept, Good, DictOK
    <2>2. b.free_count = dict.free_count
      BY BareFields
    <2> HIDE DEF b
    <2> QED BY <2>1, <2>2 DEF DictTypes
  <1> HIDE DEF b, g
  <1>4. dict \in T
    <2> DEFINE st == SYNC..LEMMA_DIRTY
               le == 0..PreAlloc
    <2>1. dict.state \in st /\ dict.left \in le
      BY <1>1
    <2> HIDE DEF st, le
    <2>2. dict \in [state : st, block : Seq(Lemmas), index : Seq(Entry),
                   by_id : Seq(Nat), preds : Seq(Flagged), syncs : Seq(Nat), left : le,
                   limit : Limits, free_count : Nat, hits : {dict.hits}, misses : {dict.misses}]
      <3>1. dict.hits \in {dict.hits} /\ dict.misses \in {dict.misses}
        OBVIOUS
      <3> QED BY <1>1, <1>2, <1>3, <2>1, <3>1 DEF Whole
    <2> QED BY <2>2 DEF st, le
  <1> HIDE DEF T
  <1> QED BY <1>4, Zenon DEF Objects, T

(* What reclaim leaves has lost no entry of the queue but with its lemma. *)
Follows(dict, f, x) == Passes(dict, x) /\ (QueueSaved(dict, f) => QueueSaved(x, f))

LEMMA ReclaimSync ==
    ASSUME NEW dict, NEW f, SyncOK(dict, f)
    PROVE  /\ SyncOK(Reclaim(dict), f) /\ Len(Reclaim(dict).index) = Len(dict.index)
           /\ Follows(dict, f, Reclaim(dict))
  <1> DEFINE n       == Len(dict.index)
             rc      == (n * dict.limit.ratio) \div 100
             victims == ReclaimVictims(ScoresOf(dict.index), rc)
             S       == {x \in Objects(f, n, dict.hits, dict.misses) : Follows(dict, f, x)}
             H       == [p \in S \X (1..rc) |-> RemoveLemmaByOffsetIndex(p[1], victims[p[2]])]
             L(g)    == g = [i \in 0..rc |-> IF i = 0 THEN dict
                                ELSE RemoveLemmaByOffsetIndex(g[i - 1], victims[i])]
             removed == CHOOSE g : L(g)
  <1>1. Reclaim(dict) = IF rc = 0 THEN dict ELSE removed[rc]
    BY DEF Reclaim
  <1>2. n \in Nat
    BY SyncTypes
  <1>3. rc \in 0..n
    <2>1. dict.limit \in Limits
      BY DEF SyncOK
    <2>2. dict.limit.ratio \in 0..99
      BY <2>1, SyncAssumption DEF Limits, NoLimit
    <2> HIDE DEF n
    <2> DEFINE x == n * dict.limit.ratio
    <2>3. x \in 0..(100 * n)
      <3>1. \A ratio \in 0..99 : n * ratio \in 0..(100 * n)
        <4> SUFFICES ASSUME NEW ratio \in 0..99 PROVE n * ratio \in 0..(100 * n)
          OBVIOUS
        <4>1. n * ratio >= 0
          BY <1>2
        <4>2. n * ratio <= n * 100
          BY <1>2
        <4> QED BY <1>2, <4>1, <4>2
      <3> QED BY <2>2, <3>1
    <2> HIDE DEF x
    <2>4. x \div 100 \in 0..n
      BY <1>2, <2>3
    <2> QED BY <2>4 DEF x
  <1>4. CASE rc = 0
    BY <1>1, <1>4 DEF Follows, Passes
  <1>5. CASE rc # 0
    <2>1. rc \in 1..n
      BY <1>2, <1>3, <1>5
    <2>2. \A i \in 1..rc : victims[i] \in 1..n
      <3> DEFINE b == Bare(dict)
                 scores == ScoresOf(dict.index)
      <3>1. DictOK(b)
        BY DEF SyncOK, Exact, Kept, Good
      <3>2. b.index = dict.index
        BY BareFields
      <3> HIDE DEF b
      <3>3. scores \in Seq(Score) /\ Len(scores) = n
        BY <3>1, <3>2, SegmentsOfIndex
      <3> HIDE DEF scores, n
      <3>4. \A k \in 1..n : scores[k] \in Int
        <4>1. \A k \in 1..n : scores[k] \in Score
          BY <3>3, ElementOfSeq
        <4>2. Score \in SUBSET Int
          BY DEF Score
        <4> QED BY <4>1, <4>2
      <3> HIDE DEF rc
      <3>5. \A i \in 1..rc : ReclaimVictims(scores, rc)[i] \in 1..n
        BY <1>2, <2>1, <3>3, <3>4, VictimsTyped
      <3> QED BY <3>5 DEF scores
    <2>3. dict \in S
      BY ObjectsHold DEF Follows, Passes
    <2>4. \A x \in S, k \in 1..n : RemoveLemmaByOffsetIndex(x, k) \in S
      <3> SUFFICES ASSUME NEW x \in S, NEW k \in 1..n
                   PROVE  RemoveLemmaByOffsetIndex(x, k) \in S
        OBVIOUS
      <3> DEFINE r == RemoveLemmaByOffsetIndex(x, k)
      <3>1. /\ SyncOK(x, f) /\ Len(x.index) = n /\ Follows(dict, f, x)
            /\ x.hits = dict.hits /\ x.misses = dict.misses
        BY DEF Objects
      <3>2. SyncOK(r, f) /\ Len(r.index) = n
        <4> HIDE DEF n, S, r
        <4>1. k \in 1..Len(x.index)
          BY <3>1
        <4>2. LET z == RemoveLemmaByOffsetIndex(x, k)
              IN  SyncOK(z, f) /\ Len(z.index) = Len(x.index)
          BY <3>1, <4>1, RemoveSync, Zenon
        <4> QED BY <3>1, <4>2 DEF r
      <3>3. r.hits = dict.hits /\ r.misses = dict.misses
        <4> DEFINE index == [x.index EXCEPT ![k].rm = TRUE]
                   syncs == RemoveFromSyncList(x.syncs, x.index[k].off)
                   preds == RemoveFromPredictList(x.preds, x.index[k].off)
                   free  == x.free_count + 1
                   st    == Dirty(x, OFFSET_DIRTY)
        <4>1. r = [x EXCEPT !.index = index, !.syncs = syncs, !.preds = preds,
                            !.free_count = free, !.state = st]
          BY Zenon DEF RemoveLemmaByOffsetIndex
        <4>2. Whole(x)
          BY <3>1 DEF SyncOK
        <4> HIDE DEF r, index, syncs, preds, free, st
        <4>3. r.hits = x.hits /\ r.misses = x.misses
          BY <4>1, <4>2 DEF Whole
        <4> QED BY <3>1, <4>3
      <3>5. Follows(dict, f, r)
        <4>1. Passes(x, r) /\ QueueSaved(r, f)
          <5>1. k \in 1..Len(x.index)
            BY <3>1
          <5> HIDE DEF n, S
          <5> QED BY <3>1, <5>1, RemovePasses
        <4> HIDE DEF r, n, S
        <4> QED BY <3>1, <4>1, PassesOn DEF Follows
      <3> HIDE DEF r, n
      <3>4. r \in Objects(f, Len(r.index), r.hits, r.misses)
        BY <3>2, ObjectsHold
      <3> QED BY <3>2, <3>3, <3>4, <3>5 DEF r
    <2> HIDE DEF S, victims, rc, n, removed
    <2>0. rc \in Nat
      BY <1>2, <2>1
    <2>5. /\ removed = [i \in 0..rc |-> removed[i]] /\ removed[0] = dict
          /\ \A i \in 1..rc : removed[i] = RemoveLemmaByOffsetIndex(removed[i - 1], victims[i])
      <3>1. H \in [S \X (1..rc) -> S]
        BY <2>2, <2>4
      <3>2. \A x \in S, i \in 1..rc : H[<<x, i>>] = RemoveLemmaByOffsetIndex(x, victims[i])
        OBVIOUS
      <3> HIDE DEF H
      <3>3. \E g \in [0..rc -> S] : Iterated(g, dict, rc, H)
        <4> HIDE DEF L
        <4> QED BY <2>0, <2>3, <3>1, Iterates
      <3>4. PICK g \in [0..rc -> S] : g[0] = dict /\ \A i \in 1..rc : g[i] = H[<<g[i - 1], i>>]
        BY <3>3 DEF Iterated
      <3>5. \A i \in 0..rc : g[i] = IF i = 0 THEN dict
                                    ELSE RemoveLemmaByOffsetIndex(g[i - 1], victims[i])
        <4>1. \A i \in 0..rc : i = 0 \/ (i \in 1..rc /\ i - 1 \in 0..rc)
          BY <2>0
        <4> QED BY <3>2, <3>4, <4>1
      <3>6. L(g)
        BY <3>5
      <3>7. L(removed)
        <4> HIDE DEF L
        <4> QED BY <3>6, Zenon DEF removed
      <3>8. 0 \in 0..rc /\ \A i \in 1..rc : i \in 0..rc /\ i # 0
        <4> HIDE DEF L
        <4> QED BY <2>0
      <3> QED BY <3>7, <3>8
    <2> HIDE DEF L, H
    <2>6. removed \in [0..rc -> S]
      <3>1. \A i \in 1..rc : removed[i - 1] \in S => removed[i] \in S
        BY <2>2, <2>4, <2>5
      <3> QED BY <2>0, <2>3, <2>5, <3>1, LoopStays
    <2>7. removed[rc] \in S
      BY <2>0, <2>6
    <2>8. SyncOK(removed[rc], f) /\ Len(removed[rc].index) = n /\ Follows(dict, f, removed[rc])
      BY <2>7 DEF S, Objects
    <2> QED BY <1>1, <1>5, <2>8 DEF n
  <1> QED BY <1>4, <1>5

-----------------------------------------------------------------------------
(* defragment: how a list is packed. *)

LEMMA UpToCount ==
    ASSUME NEW n \in Nat
    PROVE  IsFiniteSet(1..n) /\ Cardinality(1..n) = n
  <1>1. /\ IsFiniteSet(1..n)
        /\ Cardinality(1..n) = IF 1 > n THEN 0 ELSE n - 1 + 1
    BY FS_Interval
  <1> DEFINE c == Cardinality(1..n)
  <1>2. c = IF 1 > n THEN 0 ELSE n - 1 + 1
    BY <1>1
  <1> HIDE DEF c
  <1>3. c = n
    BY <1>2
  <1> QED BY <1>1, <1>3 DEF c

(* Rank numbers the elements of a finite set of positions in their order. *)
LEMMA RankOrder ==
    ASSUME NEW n \in Nat, NEW P \in SUBSET (1..n)
    PROVE  /\ IsFiniteSet(P) /\ Cardinality(P) \in 0..n
           /\ \A p \in P : Rank(P, p) \in 1..Cardinality(P)
           /\ \A p, q \in P : p < q => Rank(P, p) < Rank(P, q)
           /\ \A k \in 1..Cardinality(P) : \E p \in P : Rank(P, p) = k
  <1> DEFINE A(p) == {q \in P : q <= p}
             c == Cardinality(P)
             f == [p \in P |-> Rank(P, p)]
  <1>1. IsFiniteSet(P) /\ c \in Nat /\ c <= n
    <2>1. IsFiniteSet(1..n) /\ Cardinality(1..n) = n
      BY UpToCount
    <2>2. IsFiniteSet(P) /\ Cardinality(P) <= Cardinality(1..n)
      BY <2>1, FS_Subset
    <2>3. c \in Nat
      BY <2>2, FS_CardinalityType
    <2> QED BY <2>1, <2>2, <2>3
  <1>2. \A p \in P : /\ IsFiniteSet(A(p)) /\ Cardinality(A(p)) \in Nat
                     /\ Cardinality(A(p)) <= c /\ Cardinality(A(p)) # 0
    <2> SUFFICES ASSUME NEW p \in P
                 PROVE  /\ IsFiniteSet(A(p)) /\ Cardinality(A(p)) \in Nat
                        /\ Cardinality(A(p)) <= c /\ Cardinality(A(p)) # 0
      OBVIOUS
    <2>1. A(p) \in SUBSET P /\ p \in A(p)
      OBVIOUS
    <2> HIDE DEF A
    <2>2. IsFiniteSet(A(p)) /\ Cardinality(A(p)) <= c
      BY <1>1, <2>1, FS_Subset
    <2>3. Cardinality(A(p)) \in Nat
      BY <2>2, FS_CardinalityType
    <2>4. Cardinality(A(p)) # 0
      BY <2>1, <2>2, FS_EmptySet
    <2> QED BY <2>2, <2>3, <2>4
  <1>3. \A p : Rank(P, p) = Cardinality(A(p))
    BY DEF Rank
  <1>4. ASSUME NEW p \in P, NEW q \in P, p < q PROVE Rank(P, p) < Rank(P, q)
    <2>1. A(p) \in SUBSET A(q) /\ q \in A(q) /\ q \notin A(p)
      <3>1. p \in Int /\ q \in Int /\ \A x \in P : x \in Int
        OBVIOUS
      <3>2. q <= q /\ ~(q <= p) /\ \A x \in P : x <= p => x <= q
        BY <1>4, <3>1
      <3> QED BY <3>2, Zenon
    <2> HIDE DEF A
    <2>2. /\ Cardinality(A(p)) <= Cardinality(A(q))
          /\ Cardinality(A(q)) = Cardinality(A(p)) => A(q) = A(p)
      BY <1>2, <2>1, FS_Subset
    <2>3. Cardinality(A(p)) # Cardinality(A(q))
      BY <2>1, <2>2
    <2>4. Cardinality(A(p)) \in Nat /\ Cardinality(A(q)) \in Nat
      BY <1>2
    <2> QED BY <1>3, <2>2, <2>3, <2>4
  <1> HIDE DEF A
  <1>5. \A p \in P : Rank(P, p) \in 1..c
    BY <1>1, <1>2, <1>3
  <1>6. \A p, q \in P : p # q => Rank(P, p) # Rank(P, q)
    <2>1. \A p, q \in P : p # q => p < q \/ q < p
      OBVIOUS
    <2>2. \A p, q \in P : Rank(P, p) \in Int /\ Rank(P, q) \in Int
      BY <1>1, <1>5
    <2> QED BY <1>4, <2>1, <2>2
  <1> HIDE DEF c
  <1>7. f \in Injection(P, 1..c)
    <2>1. f \in [P -> 1..c]
      BY <1>5
    <2>2. \A p, q \in P : f[p] = f[q] => p = q
      BY <1>6
    <2> HIDE DEF f
    <2> QED BY <2>1, <2>2 DEF Injection, IsInjective
  <1>8. f \in Surjection(P, 1..c)
    <2>3. IsFiniteSet(1..c) /\ Cardinality(1..c) = c /\ Cardinality(P) = c
      BY <1>1, UpToCount DEF c
    <2> HIDE DEF f
    <2> QED BY <1>7, <2>3, FS_Injection
  <1>9. \A k \in 1..c : \E p \in P : Rank(P, p) = k
    <2>1. \A k \in 1..c : \E p \in P : f[p] = k
      <3> HIDE DEF f
      <3> QED BY <1>8 DEF Surjection
    <2> QED BY <2>1
  <1> QED BY <1>1, <1>4, <1>5, <1>9 DEF c

(* The packed list has the elements of the list at the positions in P. *)
PackedFrom(r, s, P, S) ==
    /\ r \in Seq(S) /\ Len(r) = Cardinality(P)
    /\ \A p \in P : r[Rank(P, p)] = s[p]
    /\ \A k \in 1..Cardinality(P) : \E p \in P : Rank(P, p) = k /\ r[k] = s[p]

LEMMA PackedHas ==
    ASSUME NEW n \in Nat, NEW P \in SUBSET (1..n), NEW S, NEW s, \A p \in P : s[p] \in S
    PROVE  PackedFrom(Packed(s, P), s, P, S)
  <1> DEFINE c == Cardinality(P)
             at(k) == CHOOSE p \in P : Rank(P, p) = k
             r == Packed(s, P)
  <1>1. /\ c \in Nat
        /\ \A p \in P : Rank(P, p) \in 1..c
        /\ \A p, q \in P : p < q => Rank(P, p) < Rank(P, q)
        /\ \A k \in 1..c : \E p \in P : Rank(P, p) = k
    <2>1. /\ c \in 0..n
          /\ \A p \in P : Rank(P, p) \in 1..c
          /\ \A p, q \in P : p < q => Rank(P, p) < Rank(P, q)
          /\ \A k \in 1..c : \E p \in P : Rank(P, p) = k
      BY RankOrder, Zenon
    <2> HIDE DEF c
    <2> QED BY <2>1
  <1>2. r = [k \in 1..c |-> s[at(k)]]
    BY DEF Packed
  <1> HIDE DEF c, r
  <1>3. \A k \in 1..c : at(k) \in P /\ Rank(P, at(k)) = k
    BY <1>1, Zenon
  <1>4. \A p \in P : at(Rank(P, p)) = p
    <2> SUFFICES ASSUME NEW p \in P PROVE at(Rank(P, p)) = p
      OBVIOUS
    <2> DEFINE q == at(Rank(P, p))
    <2>1. q \in P /\ Rank(P, q) = Rank(P, p)
      BY <1>1, <1>3
    <2> HIDE DEF q
    <2>2. ~(q < p) /\ ~(p < q)
      BY <1>1, <2>1
    <2>3. q \in Int /\ p \in Int
      BY <2>1
    <2>4. q = p
      BY <2>2, <2>3
    <2> QED BY <2>4 DEF q
  <1> HIDE DEF at
  <1>5. r \in [1..c -> S]
    BY <1>2, <1>3
  <1>6. r \in Seq(S) /\ Len(r) = c
    BY <1>1, <1>5, FcnIsSeq
  <1>7. \A p \in P : r[Rank(P, p)] = s[p]
    BY <1>1, <1>2, <1>4
  <1>8. \A k \in 1..c : \E p \in P : Rank(P, p) = k /\ r[k] = s[p]
    BY <1>2, <1>3
  <1> QED BY <1>6, <1>7, <1>8 DEF c, r, PackedFrom

(* A slot that stays is moved to its rank among those that stay; nothing is
   moved below 0. *)
LEMMA MovedIsRank ==
    ASSUME NEW n \in Nat, NEW gone \in SUBSET (1..n)
    PROVE  /\ \A s \in (1..n) \ gone : Moved(gone, s) = Rank((1..n) \ gone, s)
           /\ \A s \in Nat : Moved(gone, s) \in Nat
  <1> DEFINE keep == (1..n) \ gone
             low(s) == {g \in gone : g < s}
  <1>1. \A s \in Nat : /\ IsFiniteSet(low(s)) /\ Cardinality(low(s)) \in Nat
                       /\ Cardinality(low(s)) <= s
    <2> SUFFICES ASSUME NEW s \in Nat
                 PROVE  /\ IsFiniteSet(low(s)) /\ Cardinality(low(s)) \in Nat
                        /\ Cardinality(low(s)) <= s
      OBVIOUS
    <2>1. low(s) \in SUBSET (1..s)
      <3>1. \A g \in gone : g < s => g \in 1..s
        OBVIOUS
      <3> QED BY <3>1, Zenon
    <2> HIDE DEF low
    <2>2. /\ IsFiniteSet(low(s)) /\ Cardinality(low(s)) \in 0..s
      BY <2>1, RankOrder
    <2> QED BY <2>2
  <1>2. \A s \in Nat : Moved(gone, s) \in Nat
    <2>1. \A s : Moved(gone, s) = s - Cardinality(low(s))
      BY DEF Moved
    <2> HIDE DEF low
    <2> QED BY <1>1, <2>1
  <1>3. \A s \in keep : Moved(gone, s) = Rank(keep, s)
    <2> SUFFICES ASSUME NEW s \in keep PROVE Moved(gone, s) = Rank(keep, s)
      OBVIOUS
    <2> DEFINE up == {q \in keep : q <= s}
    <2>1. s \in Nat /\ s >= 1 /\ low(s) \in SUBSET (1..s) /\ up = (1..s) \ low(s)
          /\ (1..s) \cap low(s) = low(s)
      <3>1. \A g \in gone : g \in Int /\ 1 <= g
        OBVIOUS
      <3>2. s \in 1..n /\ s \notin gone
        OBVIOUS
      <3>3. low(s) \in SUBSET (1..s) /\ s \in Nat /\ s >= 1
        <4>1. s \in Nat /\ s >= 1
          BY <3>2
        <4>2. \A g \in gone : g < s => g \in 1..s
          BY <3>1, <4>1
        <4>3. low(s) \in SUBSET (1..s)
          BY <4>2, Zenon
        <4> QED BY <4>1, <4>3
      <3>4. \A x \in 1..s : x \in 1..n /\ (x \in gone <=> x \in low(s))
        <4>1. \A x \in 1..s : x \in 1..n /\ (x # s => x < s)
          BY <3>2
        <4> QED BY <3>2, <4>1, Zenon
      <3>5. \A x \in up : x \in 1..s /\ x \notin low(s)
        OBVIOUS
      <3>6. \A x \in 1..s : x \notin low(s) => x \in up
        <4>1. \A x \in 1..s : x \in 1..n /\ x <= s
          BY <3>2
        <4> QED BY <3>4, <4>1
      <3> HIDE DEF low, up
      <3> QED BY <3>3, <3>5, <3>6
    <2>2. Moved(gone, s) = s - Cardinality(low(s)) /\ Rank(keep, s) = Cardinality(up)
      BY DEF Moved, Rank
    <2> HIDE DEF low, up
    <2>3. IsFiniteSet(1..s) /\ Cardinality(1..s) = s
      BY <2>1, UpToCount
    <2>4. Cardinality((1..s) \ low(s)) = Cardinality(1..s) - Cardinality((1..s) \cap low(s))
      BY <2>3, FS_Difference
    <2> QED BY <2>1, <2>2, <2>3, <2>4
  <1> QED BY <1>2, <1>3

-----------------------------------------------------------------------------
(* The lists after defragment: the entries in use, their slots renumbered. *)

InUse(list) == {k \in 1..Len(list) : ~list[k].rm}
Gone(list) == {list[k].off : k \in {j \in 1..Len(list) : list[j].rm}}
Staying(list) == (1..Len(list)) \ Gone(list)

(* A list with one entry for each slot. *)
Numbered(list) ==
    /\ Len(list) \in Nat
    /\ Distinct(list)
    /\ \A k \in 1..Len(list) : list[k].off \in 1..Len(list) /\ list[k].rm \in BOOLEAN

(* The slots that stay are those of the entries in use. *)
LEMMA SlotsInUse ==
    ASSUME NEW list, Numbered(list)
    PROVE  /\ InUse(list) \in SUBSET (1..Len(list))
           /\ Gone(list) \in SUBSET (1..Len(list))
           /\ Staying(list) \in SUBSET (1..Len(list))
           /\ \A k \in InUse(list) : list[k].off \in Staying(list)
           /\ \A s \in Staying(list) : \E k \in InUse(list) : list[k].off = s
           /\ Cardinality(InUse(list)) = Cardinality(Staying(list))
  <1> DEFINE n == Len(list)
             A == InUse(list)
             B == Staying(list)
             f == [k \in 1..n |-> list[k].off]
             g == [k \in A |-> list[k].off]
  <1>1. n \in Nat /\ Distinct(list)
        /\ \A k \in 1..n : list[k].off \in 1..n /\ list[k].rm \in BOOLEAN
    BY DEF Numbered
  <1>2. A \in SUBSET (1..n) /\ Gone(list) \in SUBSET (1..n) /\ B \in SUBSET (1..n)
    <2>1. Gone(list) \in SUBSET (1..n)
      BY <1>1, Zenon DEF Gone
    <2> QED BY <2>1 DEF InUse, Staying
  <1>3. \A k \in A : list[k].off \in B
    <2> SUFFICES ASSUME NEW k \in A, list[k].off \in Gone(list) PROVE FALSE
      BY <1>1, <1>2 DEF Staying
    <2>1. PICK j \in 1..n : list[j].rm /\ list[j].off = list[k].off
      BY DEF Gone
    <2>2. k \in 1..n /\ ~list[k].rm
      BY DEF InUse
    <2> QED BY <1>1, <2>1, <2>2 DEF Distinct
  <1>4. \A s \in 1..n : \E k \in 1..n : list[k].off = s
    <2>1. IsFiniteSet(1..n)
      BY <1>1, UpToCount
    <2> HIDE DEF n
    <2>2. f \in Injection(1..n, 1..n)
      <3>1. f \in [1..n -> 1..n]
        BY <1>1
      <3>2. \A j, k \in 1..n : f[j] = f[k] => j = k
        BY <1>1 DEF Distinct, n
      <3> HIDE DEF f
      <3> QED BY <3>1, <3>2 DEF Injection, IsInjective
    <2> HIDE DEF f
    <2>3. f \in Surjection(1..n, 1..n)
      BY <2>1, <2>2, FS_Injection
    <2>4. \A s \in 1..n : \E k \in 1..n : f[k] = s
      BY <2>3 DEF Surjection
    <2> QED BY <2>4 DEF f
  <1>5. \A s \in B : \E k \in A : list[k].off = s
    <2> SUFFICES ASSUME NEW s \in B PROVE \E k \in A : list[k].off = s
      OBVIOUS
    <2>1. PICK k \in 1..n : list[k].off = s
      BY <1>2, <1>4
    <2>2. s \notin Gone(list)
      BY DEF Staying
    <2>3. ~list[k].rm
      BY <2>1, <2>2 DEF Gone
    <2> QED BY <2>1, <2>3 DEF InUse
  <1>6. Cardinality(A) = Cardinality(B)
    <2>1. IsFiniteSet(A)
      BY <1>1, <1>2, RankOrder
    <2>2. g \in [A -> B]
      BY <1>3
    <2>3. \A j, k \in A : g[j] = g[k] => j = k
      BY <1>1, <1>2 DEF Distinct
    <2>4. \A s \in B : \E k \in A : g[k] = s
      BY <1>5
    <2> HIDE DEF g, A, B
    <2>5. g \in Bijection(A, B)
      BY <2>2, <2>3, <2>4 DEF Bijection, Injection, Surjection, IsInjective
    <2>6. ExistsBijection(A, B)
      BY <2>5 DEF ExistsBijection
    <2> QED BY <2>1, <2>6, FS_Bijection
  <1> QED BY <1>2, <1>3, <1>5, <1>6

(* Lists that mirror each other have the same slots in use. *)
LEMMA MirrorsGone ==
    ASSUME NEW preds, NEW ix, Mirrors(preds, ix), Len(preds) = Len(ix)
    PROVE  Gone(preds) = Gone(ix) /\ Staying(preds) = Staying(ix)
  <1>1. \A s \in Gone(preds) : s \in Gone(ix)
    <2> SUFFICES ASSUME NEW s \in Gone(preds) PROVE s \in Gone(ix)
      OBVIOUS
    <2>1. PICK j \in 1..Len(preds) : preds[j].rm /\ preds[j].off = s
      BY DEF Gone
    <2>2. PICK k \in 1..Len(ix) : preds[j].off = ix[k].off /\ preds[j].rm = ix[k].rm
      BY <2>1 DEF Mirrors
    <2> QED BY <2>1, <2>2 DEF Gone
  <1>2. \A s \in Gone(ix) : s \in Gone(preds)
    <2> SUFFICES ASSUME NEW s \in Gone(ix) PROVE s \in Gone(preds)
      OBVIOUS
    <2>1. PICK k \in 1..Len(ix) : ix[k].rm /\ ix[k].off = s
      BY DEF Gone
    <2>2. PICK j \in 1..Len(preds) : preds[j].off = ix[k].off /\ preds[j].rm = ix[k].rm
      BY DEF Mirrors
    <2> QED BY <2>1, <2>2 DEF Gone
  <1>3. Gone(preds) = Gone(ix)
    BY <1>1, <1>2
  <1> QED BY <1>3 DEF Staying

Compacted(new, old) ==
    /\ Len(new) = Cardinality(Staying(old))
    /\ \A p \in InUse(old) : /\ new[Rank(InUse(old), p)].off = Rank(Staying(old), old[p].off)
                             /\ new[Rank(InUse(old), p)].rm = FALSE

(* Every entry of the compacted list comes from one in use (a position in A),
   in their order; every slot that stays (in B) has a rank. *)
ComesFrom(new, old, A, B) ==
    /\ \A k \in 1..Len(new) : \E p \in A :
          Rank(A, p) = k /\ new[k].off = Rank(B, old[p].off) /\ new[k].rm = FALSE
    /\ \A p \in A : Rank(A, p) \in 1..Len(new)
    /\ \A p, q \in A : Rank(A, p) < Rank(A, q) => p < q
    /\ \A s \in B : Rank(B, s) \in 1..Len(new)
    /\ \A s, t \in B : Rank(B, s) = Rank(B, t) => s = t
    /\ Distinct(new)

LEMMA CompactedFrom ==
    ASSUME NEW new, NEW old, Numbered(old), Compacted(new, old)
    PROVE  /\ Len(new) \in 0..Len(old)
           /\ ComesFrom(new, old, InUse(old), Staying(old))
  <1> DEFINE n == Len(old)
             A == InUse(old)
             B == Staying(old)
             c == Cardinality(B)
  <1>1. /\ A \in SUBSET (1..n) /\ B \in SUBSET (1..n) /\ Cardinality(A) = c /\ n \in Nat
        /\ \A k \in A : old[k].off \in B
    BY SlotsInUse DEF Numbered
  <1>2. /\ Len(new) = c
        /\ \A p \in A : new[Rank(A, p)].off = Rank(B, old[p].off) /\ new[Rank(A, p)].rm = FALSE
    BY DEF Compacted
  <1>3. \A j, k \in A : old[j].off = old[k].off => j = k
    BY <1>1 DEF Numbered, Distinct
  <1> HIDE DEF n, A, B, c
  <1>4. /\ c \in 0..n
        /\ \A p \in A : Rank(A, p) \in 1..c
        /\ \A p, q \in A : p < q => Rank(A, p) < Rank(A, q)
        /\ \A k \in 1..c : \E p \in A : Rank(A, p) = k
    BY <1>1, RankOrder, Zenon
  <1>5. /\ \A p \in B : Rank(B, p) \in 1..c
        /\ \A p, q \in B : p < q => Rank(B, p) < Rank(B, q)
    BY <1>1, RankOrder, Zenon DEF c
  <1>6. \A p, q \in A : Rank(A, p) < Rank(A, q) => p < q
    <2> SUFFICES ASSUME NEW p \in A, NEW q \in A, Rank(A, p) < Rank(A, q) PROVE p < q
      OBVIOUS
    <2>1. ~(q < p) /\ p # q
      <3>1. Rank(A, p) \in Int /\ Rank(A, q) \in Int
        BY <1>4
      <3> DEFINE x == Rank(A, p)
                 y == Rank(A, q)
      <3>2. x < y /\ (q < p => y < x) /\ (p = q => x = y) /\ x \in Int /\ y \in Int
        BY <1>4, <3>1
      <3> HIDE DEF x, y
      <3> QED BY <3>2
    <2>2. p \in Int /\ q \in Int
      BY <1>1
    <2> QED BY <2>1, <2>2
  <1>7. \A s, t \in B : Rank(B, s) = Rank(B, t) => s = t
    <2> SUFFICES ASSUME NEW s \in B, NEW t \in B, Rank(B, s) = Rank(B, t) PROVE s = t
      OBVIOUS
    <2>1. s \in Int /\ t \in Int /\ Rank(B, s) \in Int
      BY <1>1, <1>5
    <2>2. ~(s < t) /\ ~(t < s)
      BY <1>5, <2>1
    <2> QED BY <2>1, <2>2
  <1>8. \A k \in 1..c : \E p \in A : /\ Rank(A, p) = k
                                     /\ new[k].off = Rank(B, old[p].off) /\ new[k].rm = FALSE
    BY <1>2, <1>4
  <1>9. \A j, k \in 1..c : j # k => new[j].off # new[k].off
    <2> SUFFICES ASSUME NEW j \in 1..c, NEW k \in 1..c, new[j].off = new[k].off PROVE j = k
      OBVIOUS
    <2>1. PICK p \in A : Rank(A, p) = j /\ new[j].off = Rank(B, old[p].off)
      BY <1>8
    <2>2. PICK q \in A : Rank(A, q) = k /\ new[k].off = Rank(B, old[q].off)
      BY <1>8
    <2>3. old[p].off = old[q].off
      BY <1>1, <1>7, <2>1, <2>2
    <2> QED BY <1>3, <2>1, <2>2, <2>3
  <1>10. Distinct(new)
    BY <1>2, <1>9 DEF Distinct
  <1>11. Len(new) \in 0..n /\ ComesFrom(new, old, A, B)
    BY <1>2, <1>4, <1>5, <1>6, <1>7, <1>8, <1>10, Zenon DEF ComesFrom
  <1> QED BY <1>11 DEF n, A, B

(* The order of the lists, and that no lemma is in use twice, survive. *)
LEMMA CompactedOrderly ==
    ASSUME NEW block, NEW ix, NEW preds, Orderly(block, ix, preds), Single(block, ix),
           Numbered(ix), Numbered(preds), Len(preds) = Len(ix),
           NEW block2, NEW ix2, NEW preds2, Compacted(ix2, ix), Compacted(preds2, preds),
           \A s \in Staying(ix) : block2[Rank(Staying(ix), s)] = block[s]
    PROVE  Orderly(block2, ix2, preds2) /\ Single(block2, ix2)
  <1> DEFINE A == InUse(ix)
             P == InUse(preds)
             B == Staying(ix)
             c == Len(ix2)
  <1>1. Mirrors(preds, ix) /\ Distinct(ix) /\ Distinct(preds) /\ Sorted(block, ix)
    BY DEF Orderly
  <1>2. Staying(preds) = B
    BY <1>1, MirrorsGone
  <1>3. /\ A \in SUBSET (1..Len(ix)) /\ \A p \in A : ix[p].off \in B
        /\ P \in SUBSET (1..Len(ix)) /\ \A p \in P : preds[p].off \in B
    BY <1>2, SlotsInUse
  <1>4. ComesFrom(ix2, ix, A, B)
    BY CompactedFrom
  <1>5. ComesFrom(preds2, preds, P, B)
    BY <1>2, CompactedFrom
  <1>6. /\ \A p \in A : ix2[Rank(A, p)].off = Rank(B, ix[p].off) /\ ix2[Rank(A, p)].rm = FALSE
        /\ \A p \in P : /\ preds2[Rank(P, p)].off = Rank(B, preds[p].off)
                        /\ preds2[Rank(P, p)].rm = FALSE
    BY <1>2 DEF Compacted
  <1>7. Mirrors(preds2, ix2)
    <2>1. ASSUME NEW k \in 1..Len(ix2)
          PROVE  \E j \in 1..Len(preds2) : preds2[j].off = ix2[k].off /\ preds2[j].rm = ix2[k].rm
      <3>1. PICK p \in A : ix2[k].off = Rank(B, ix[p].off) /\ ix2[k].rm = FALSE
        BY <1>4 DEF ComesFrom
      <3>2. PICK q \in 1..Len(preds) : preds[q].off = ix[p].off /\ preds[q].rm = ix[p].rm
        BY <1>1, <1>3 DEF Mirrors
      <3>3. q \in P
        BY <3>2 DEF InUse
      <3>4. Rank(P, q) \in 1..Len(preds2)
        BY <1>5, <3>3 DEF ComesFrom
      <3>5. preds2[Rank(P, q)].off = ix2[k].off /\ preds2[Rank(P, q)].rm = ix2[k].rm
        BY <1>6, <3>1, <3>2, <3>3
      <3> HIDE DEF P, A, B
      <3> QED BY <3>4, <3>5
    <2>2. ASSUME NEW j \in 1..Len(preds2)
          PROVE  \E k \in 1..Len(ix2) : preds2[j].off = ix2[k].off /\ preds2[j].rm = ix2[k].rm
      <3>1. PICK q \in P : preds2[j].off = Rank(B, preds[q].off) /\ preds2[j].rm = FALSE
        BY <1>5 DEF ComesFrom
      <3>2. PICK p \in 1..Len(ix) : preds[q].off = ix[p].off /\ preds[q].rm = ix[p].rm
        BY <1>1, <1>3 DEF Mirrors
      <3>3. p \in A
        BY <3>2 DEF InUse
      <3>4. Rank(A, p) \in 1..Len(ix2)
        BY <1>4, <3>3 DEF ComesFrom
      <3>5. preds2[j].off = ix2[Rank(A, p)].off /\ preds2[j].rm = ix2[Rank(A, p)].rm
        BY <1>6, <3>1, <3>2, <3>3
      <3> HIDE DEF P, A, B
      <3> QED BY <3>4, <3>5
    <2> QED BY <2>1, <2>2 DEF Mirrors
  <1> DEFINE From(k, p) == /\ p \in A /\ Rank(A, p) = k
                           /\ block2[ix2[k].off] = block[ix[p].off]
  <1>8. \A k \in 1..c : \E p \in A : From(k, p)
    <2> SUFFICES ASSUME NEW k \in 1..c PROVE \E p \in A : From(k, p)
      OBVIOUS
    <2>1. PICK p \in A : Rank(A, p) = k /\ ix2[k].off = Rank(B, ix[p].off)
      BY <1>4 DEF ComesFrom
    <2>2. block2[Rank(B, ix[p].off)] = block[ix[p].off]
      BY <1>3
    <2> QED BY <2>1, <2>2
  <1>9. Sorted(block2, ix2)
    <2> SUFFICES ASSUME NEW i \in 1..c, NEW j \in 1..c, i < j
                 PROVE  ~Below(Key(block2[ix2[j].off].spl), Key(block2[ix2[i].off].spl))
      BY DEF Sorted
    <2>1. PICK p \in A : From(i, p)
      BY <1>8
    <2>2. PICK q \in A : From(j, q)
      BY <1>8
    <2>3. p < q
      BY <1>4, <2>1, <2>2 DEF ComesFrom
    <2>4. ~Below(Key(block[ix[q].off].spl), Key(block[ix[p].off].spl))
      BY <1>1, <1>3, <2>3 DEF Sorted
    <2> QED BY <2>1, <2>2, <2>4
  <1>10. Single(block2, ix2)
    <2> SUFFICES ASSUME NEW i \in 1..c, NEW j \in 1..c, i # j
                 PROVE  block2[ix2[i].off] # block2[ix2[j].off]
      BY DEF Single
    <2>1. PICK p \in A : From(i, p)
      BY <1>8
    <2>2. PICK q \in A : From(j, q)
      BY <1>8
    <2>3. p # q /\ p \in 1..Len(ix) /\ q \in 1..Len(ix) /\ ~ix[p].rm /\ ~ix[q].rm
      BY <2>1, <2>2 DEF InUse
    <2>4. block[ix[p].off] # block[ix[q].off]
      BY <2>3 DEF Single
    <2> QED BY <2>1, <2>2, <2>4
  <1> QED BY <1>4, <1>5, <1>7, <1>9, <1>10 DEF Orderly, ComesFrom

(* The lists of an object that is in order have one entry for each slot. *)
LEMMA SyncNumbered ==
    ASSUME NEW dict, NEW f, SyncOK(dict, f)
    PROVE  /\ Numbered(dict.index) /\ Numbered(dict.preds)
           /\ Orderly(dict.block, dict.index, dict.preds) /\ Single(dict.block, dict.index)
  <1> DEFINE b == Bare(dict)
  <1>1. Orderly(b.block, b.index, b.preds) /\ Single(b.block, b.index)
    BY DEF SyncOK, Exact, Kept
  <1>2. b.block = dict.block /\ b.index = dict.index /\ b.preds = dict.preds
    BY BareFields
  <1> HIDE DEF b
  <1>3. Orderly(dict.block, dict.index, dict.preds) /\ Single(dict.block, dict.index)
    BY <1>1, <1>2
  <1>4. /\ Len(dict.index) \in Nat /\ Len(dict.preds) = Len(dict.index)
        /\ \A k \in 1..Len(dict.index) :
              /\ dict.index[k] \in Entry /\ dict.preds[k] \in Flagged
              /\ dict.index[k].off \in 1..Len(dict.index)
              /\ dict.preds[k].off \in 1..Len(dict.index)
    BY SyncTypes
  <1>5. \A k \in 1..Len(dict.index) : dict.index[k].rm \in BOOLEAN /\ dict.preds[k].rm \in BOOLEAN
    BY <1>4 DEF Entry, Flagged
  <1>6. Numbered(dict.index) /\ Numbered(dict.preds)
    BY <1>3, <1>4, <1>5, Zenon DEF Numbered, Orderly
  <1> QED BY <1>3, <1>6

(* defragment, when some lemma is removed. *)
LEMMA DefragmentFields ==
    ASSUME NEW dict, NEW f, SyncOK(dict, f), Gone(dict.index) # {}
    PROVE  LET r == Defragment(dict)
               A == InUse(dict.index)
               B == Staying(dict.index)
           IN  /\ Whole(r) /\ r.state = DEFRAGMENTED /\ r.left = dict.left
               /\ r.limit = dict.limit /\ r.free_count = 0 /\ r.syncs \in Seq(Nat)
               /\ r.block \in Seq(Lemmas) /\ Len(r.block) = Cardinality(B)
               /\ \A s \in B : r.block[Rank(B, s)] = dict.block[s]
               /\ r.index \in Seq(Entry) /\ Compacted(r.index, dict.index)
               /\ \A p \in A : r.index[Rank(A, p)].score = dict.index[p].score
               /\ \A k \in 1..Cardinality(B) : r.index[k].id = k
               /\ r.by_id \in Seq(Nat) /\ Len(r.by_id) = Cardinality(B)
               /\ \A k \in 1..Cardinality(B) : r.by_id[k] = r.index[k].off
               /\ r.preds \in Seq(Flagged) /\ Compacted(r.preds, dict.preds)
  <1> DEFINE ix     == dict.index
             n      == Len(ix)
             A      == InUse(ix)
             B      == Staying(ix)
             P      == InUse(dict.preds)
             gone   == Gone(ix)
             freed  == {k \in 1..n : ix[k].rm}
             c      == Cardinality(B)
             packed == Packed(ix, A)
             rest   == Packed(ix, freed)
             kept   == Packed(dict.preds, P)
             index  == SubSeq(packed \o rest, 1, c)
             block2 == Packed(dict.block, B)
             index2 == [k \in 1..c |-> [index[k] EXCEPT !.off = Moved(gone, @), !.id = k]]
             by_id2 == [k \in 1..c |-> Moved(gone, index[k].off)]
             preds2 == [k \in 1..c |-> [kept[k] EXCEPT !.off = Moved(gone, @)]]
             syncs2 == MovedQueue(dict, gone)
             r      == Defragment(dict)
  <1>1. /\ Numbered(ix) /\ Numbered(dict.preds) /\ Mirrors(dict.preds, ix)
        /\ Whole(dict) /\ dict.syncs \in Seq(Nat)
    BY SyncNumbered DEF Orderly, SyncOK
  <1>2. /\ n \in Nat /\ Len(dict.block) = n /\ Len(dict.preds) = n
        /\ \A k \in 1..n : ix[k] \in Entry /\ dict.block[k] \in Lemmas /\ dict.preds[k] \in Flagged
    BY SyncTypes
  <1>3. /\ A \in SUBSET (1..n) /\ gone \in SUBSET (1..n) /\ B \in SUBSET (1..n)
        /\ \A k \in A : ix[k].off \in B
        /\ Cardinality(A) = c
    BY <1>1, SlotsInUse
  <1>4. /\ P \in SUBSET (1..n) /\ Cardinality(P) = c
        /\ \A k \in P : dict.preds[k].off \in B
        /\ Staying(dict.preds) = B
    <2>1. Staying(dict.preds) = B
      BY <1>1, <1>2, MirrorsGone
    <2>2. /\ P \in SUBSET (1..Len(dict.preds)) /\ Cardinality(P) = Cardinality(Staying(dict.preds))
          /\ \A k \in P : dict.preds[k].off \in Staying(dict.preds)
      BY <1>1, SlotsInUse
    <2> QED BY <1>2, <2>1, <2>2
  <1>5. /\ B = (1..n) \ gone /\ A = (1..n) \ freed /\ freed \in SUBSET (1..n)
        /\ P = {k \in 1..Len(dict.preds) : ~dict.preds[k].rm}
        /\ gone = {ix[k].off : k \in freed}
    BY DEF Staying, InUse, Gone
  <1>6. c \in Nat
    <2>1. c \in 0..n
      <3> HIDE DEF B, n
      <3> QED BY <1>2, <1>3, RankOrder, Zenon
    <2> HIDE DEF c
    <2> QED BY <2>1
  <1>7. /\ block2 \in Seq(Lemmas) /\ Len(block2) = c
        /\ \A s \in B : block2[Rank(B, s)] = dict.block[s]
    <2>1. \A s \in B : dict.block[s] \in Lemmas
      BY <1>2, <1>3
    <2>2. n \in Nat /\ B \in SUBSET (1..n)
      BY <1>2, <1>3
    <2>3. PackedFrom(block2, dict.block, B, Lemmas)
      <3> HIDE DEF B, n
      <3> QED BY <2>1, <2>2, PackedHas
    <2> HIDE DEF block2, B, n
    <2> QED BY <2>3 DEF PackedFrom
  <1>8. /\ packed \in Seq(Entry) /\ Len(packed) = c
        /\ \A p \in A : packed[Rank(A, p)] = ix[p]
        /\ \A k \in 1..c : \E p \in A : Rank(A, p) = k /\ packed[k] = ix[p]
    <2>1. \A p \in A : ix[p] \in Entry
      BY <1>2, <1>3
    <2>2. n \in Nat /\ A \in SUBSET (1..n)
      BY <1>2, <1>3
    <2>3. PackedFrom(packed, ix, A, Entry)
      <3> HIDE DEF A, n, ix
      <3> QED BY <2>1, <2>2, PackedHas
    <2> HIDE DEF packed, c, A
    <2> QED BY <1>3, <2>3 DEF PackedFrom
  <1>9. rest \in Seq(Entry)
    <2>1. \A p \in freed : ix[p] \in Entry
      BY <1>2, <1>5
    <2>2. n \in Nat /\ freed \in SUBSET (1..n)
      BY <1>2, <1>5
    <2>3. PackedFrom(rest, ix, freed, Entry)
      <3> HIDE DEF freed, n, ix
      <3> QED BY <2>1, <2>2, PackedHas
    <2> HIDE DEF rest
    <2> QED BY <2>3 DEF PackedFrom
  <1>10. /\ kept \in Seq(Flagged) /\ Len(kept) = c
         /\ \A p \in P : kept[Rank(P, p)] = dict.preds[p]
         /\ \A k \in 1..c : \E p \in P : Rank(P, p) = k /\ kept[k] = dict.preds[p]
    <2>1. \A p \in P : dict.preds[p] \in Flagged
      BY <1>2, <1>4
    <2>2. n \in Nat /\ P \in SUBSET (1..n)
      BY <1>2, <1>4
    <2>3. PackedFrom(kept, dict.preds, P, Flagged)
      <3> HIDE DEF P, n
      <3> QED BY <2>1, <2>2, PackedHas
    <2> HIDE DEF kept, c, P
    <2> QED BY <1>4, <2>3 DEF PackedFrom
  <1>11. r = [dict EXCEPT !.block = block2, !.index = index2, !.by_id = by_id2, !.preds = preds2,
                          !.syncs = syncs2, !.free_count = 0, !.state = DEFRAGMENTED]
    <2>1. /\ (1..Len(dict.block)) \ gone = B /\ Len(kept) = c
      BY <1>2, <1>5, <1>10
    <2> QED BY <1>5, <2>1, Zenon DEF Defragment, Gone
  <1> HIDE DEF r, A, B, P, gone, freed, c, packed, rest, kept, block2, syncs2, n, ix
  <1>12. \A k \in 1..c : index[k] = packed[k]
    <2>1. \A k \in 1..c : (packed \o rest)[k] = packed[k]
      BY <1>8, <1>9
    <2>2. packed \o rest \in Seq(Entry) /\ c <= Len(packed \o rest)
      BY <1>6, <1>8, <1>9, LenProperties
    <2> DEFINE all == packed \o rest
    <2> HIDE DEF all
    <2>3. \A k \in 1..c : SubSeq(all, 1, c)[k] = all[k]
      BY <1>6, <2>2
    <2> QED BY <2>1, <2>3 DEF all
  <1> HIDE DEF index
  <1>13. /\ \A s \in B : Moved(gone, s) = Rank(B, s) /\ Moved(gone, s) \in Nat
         /\ \A s \in Nat : Moved(gone, s) \in Nat
    <2>1. /\ \A s \in (1..n) \ gone : Moved(gone, s) = Rank((1..n) \ gone, s)
          /\ \A s \in Nat : Moved(gone, s) \in Nat
      BY <1>2, <1>3, MovedIsRank
    <2>2. \A s \in B : s \in Nat
      BY <1>3
    <2> QED BY <1>5, <2>1, <2>2
  <1>14. /\ index2 \in [1..c -> Entry]
         /\ \A k \in 1..c : /\ index2[k].off = Moved(gone, packed[k].off) /\ index2[k].id = k
                            /\ index2[k].rm = packed[k].rm /\ index2[k].score = packed[k].score
    <2> SUFFICES ASSUME NEW k \in 1..c
                 PROVE  /\ index2[k] \in Entry
                        /\ index2[k].off = Moved(gone, packed[k].off) /\ index2[k].id = k
                        /\ index2[k].rm = packed[k].rm /\ index2[k].score = packed[k].score
      BY Zenon
    <2> DEFINE e == packed[k]
    <2>1. index2[k] = [e EXCEPT !.off = Moved(gone, e.off), !.id = k]
      BY <1>12
    <2>2. e \in Entry
      BY <1>8, ElementOfSeq
    <2>3. k \in Nat /\ Moved(gone, e.off) \in Nat
      BY <1>6, <1>13, <2>2 DEF Entry
    <2> HIDE DEF index2, e
    <2>4. /\ index2[k] \in Entry
          /\ index2[k].off = Moved(gone, e.off) /\ index2[k].id = k
          /\ index2[k].rm = e.rm /\ index2[k].score = e.score
      BY <2>1, <2>2, <2>3 DEF Entry
    <2> QED BY <2>4 DEF e
  <1>15. /\ preds2 \in [1..c -> Flagged]
         /\ \A k \in 1..c : preds2[k].off = Moved(gone, kept[k].off) /\ preds2[k].rm = kept[k].rm
    <2> SUFFICES ASSUME NEW k \in 1..c
                 PROVE  /\ preds2[k] \in Flagged
                        /\ preds2[k].off = Moved(gone, kept[k].off) /\ preds2[k].rm = kept[k].rm
      BY Zenon
    <2> DEFINE e == kept[k]
    <2>1. preds2[k] = [e EXCEPT !.off = Moved(gone, e.off)]
      OBVIOUS
    <2>2. e \in Flagged
      BY <1>10, ElementOfSeq
    <2>3. Moved(gone, e.off) \in Nat
      BY <1>13, <2>2 DEF Flagged
    <2> HIDE DEF preds2, e
    <2>4. preds2[k] \in Flagged /\ preds2[k].off = Moved(gone, e.off) /\ preds2[k].rm = e.rm
      BY <2>1, <2>2, <2>3 DEF Flagged
    <2> QED BY <2>4 DEF e
  <1>16. /\ by_id2 \in [1..c -> Nat]
         /\ \A k \in 1..c : by_id2[k] = Moved(gone, packed[k].off)
    <2> SUFFICES ASSUME NEW k \in 1..c
                 PROVE  Moved(gone, index[k].off) \in Nat
                        /\ Moved(gone, index[k].off) = Moved(gone, packed[k].off)
      OBVIOUS
    <2>1. index[k] = packed[k] /\ packed[k] \in Entry
      BY <1>8, <1>12, ElementOfSeq
    <2> QED BY <1>13, <2>1 DEF Entry
  <1> HIDE DEF index2, preds2, by_id2
  <1>17. /\ index2 \in Seq(Entry) /\ Len(index2) = c /\ preds2 \in Seq(Flagged) /\ Len(preds2) = c
         /\ by_id2 \in Seq(Nat) /\ Len(by_id2) = c
    BY <1>6, <1>14, <1>15, <1>16, FcnIsSeq
  <1>18. Compacted(index2, ix) /\ \A p \in A : index2[Rank(A, p)].score = ix[p].score
    <2> SUFFICES ASSUME NEW p \in A
                 PROVE  /\ index2[Rank(A, p)].off = Rank(B, ix[p].off)
                        /\ index2[Rank(A, p)].rm = FALSE
                        /\ index2[Rank(A, p)].score = ix[p].score
      BY <1>17, Zenon DEF Compacted, A, B, c
    <2>1. Rank(A, p) \in 1..c /\ packed[Rank(A, p)] = ix[p]
      BY <1>2, <1>3, <1>8, RankOrder
    <2>2. ix[p].off \in B /\ ix[p].rm = FALSE
      <3>1. p \in 1..Len(ix) /\ ~ix[p].rm
        BY DEF A, InUse
      <3>2. ix[p].rm \in BOOLEAN
        BY <1>1, <3>1 DEF Numbered
      <3> QED BY <1>3, <3>1, <3>2
    <2> DEFINE k == Rank(A, p)
    <2>3. k \in 1..c /\ packed[k] = ix[p] /\ Moved(gone, ix[p].off) = Rank(B, ix[p].off)
      BY <1>13, <2>1, <2>2
    <2> HIDE DEF k
    <2>4. /\ index2[k].off = Rank(B, ix[p].off)
          /\ index2[k].rm = FALSE /\ index2[k].score = ix[p].score
      BY <1>14, <2>2, <2>3
    <2> QED BY <2>4 DEF k
  <1>19. Compacted(preds2, dict.preds)
    <2> SUFFICES ASSUME NEW p \in P
                 PROVE  /\ preds2[Rank(P, p)].off = Rank(B, dict.preds[p].off)
                        /\ preds2[Rank(P, p)].rm = FALSE
      BY <1>4, <1>17, Zenon DEF Compacted, P, c
    <2>1. Rank(P, p) \in 1..c /\ kept[Rank(P, p)] = dict.preds[p]
      BY <1>2, <1>4, <1>10, RankOrder
    <2>2. dict.preds[p].off \in B /\ dict.preds[p].rm = FALSE
      <3>1. p \in 1..Len(dict.preds) /\ ~dict.preds[p].rm
        BY DEF P, InUse
      <3>2. dict.preds[p].rm \in BOOLEAN
        BY <1>1, <3>1 DEF Numbered
      <3> QED BY <1>4, <3>1, <3>2
    <2> QED BY <1>13, <1>15, <2>1, <2>2
  <1>20. syncs2 \in Seq(Nat)
    <2>1. Len(dict.syncs) \in Nat /\ \A i \in 1..Len(dict.syncs) : dict.syncs[i] \in Nat
      BY <1>1, LenProperties, ElementOfSeq
    <2>2. \A i \in 1..Len(dict.syncs) : Moved(gone, dict.syncs[i]) \in Nat
      BY <1>13, <2>1
    <2>3. syncs2 \in [1..Len(dict.syncs) -> Nat]
      <3> DEFINE In(i) == dict.syncs[i] \in (1..Len(dict.block)) \ gone
      <3>1. syncs2 = [i \in 1..Len(dict.syncs) |->
                         IF In(i) THEN Moved(gone, dict.syncs[i]) ELSE dict.syncs[i]]
        BY Zenon DEF syncs2, MovedQueue
      <3> HIDE DEF In
      <3> QED BY <2>1, <2>2, <3>1
    <2> QED BY <2>1, <2>3, FcnIsSeq
  <1>21. r = [state |-> DEFRAGMENTED, block |-> block2, index |-> index2, by_id |-> by_id2,
              preds |-> preds2, syncs |-> syncs2, left |-> dict.left, limit |-> dict.limit,
              free_count |-> 0, hits |-> dict.hits, misses |-> dict.misses]
    BY <1>1, <1>11 DEF Whole
  <1>22. /\ Whole(r) /\ r.state = DEFRAGMENTED /\ r.left = dict.left /\ r.limit = dict.limit
         /\ r.free_count = 0 /\ r.syncs = syncs2 /\ r.block = block2 /\ r.index = index2
         /\ r.by_id = by_id2 /\ r.preds = preds2
    BY <1>21 DEF Whole
  <1>23. \A k \in 1..c : by_id2[k] = index2[k].off /\ index2[k].id = k
    BY <1>14, <1>16
  <1> QED BY <1>7, <1>17, <1>18, <1>19, <1>20, <1>22, <1>23, Zenon DEF r, A, B, c, ix

(* What defragment leaves is in order, too, and is written as a whole. *)
LEMMA DefragmentOK ==
    ASSUME NEW dict, NEW f, SyncOK(dict, f), Gone(dict.index) # {}
    PROVE  LET r == Defragment(dict)
               b == Bare(r)
           IN  /\ Whole(r) /\ r.state = DEFRAGMENTED /\ r.syncs \in Seq(Nat) /\ r.limit \in Limits
               /\ DictOK(b) /\ Orderly(b.block, b.index, b.preds) /\ Single(b.block, b.index)
               /\ Len(b.index) <= MaxSlots
  <1> DEFINE r  == Defragment(dict)
             b  == Bare(r)
             ix == dict.index
             A  == InUse(ix)
             B  == Staying(ix)
             c  == Cardinality(B)
  <1>1. /\ Whole(r) /\ r.state = DEFRAGMENTED /\ r.left = dict.left
        /\ r.limit = dict.limit /\ r.free_count = 0 /\ r.syncs \in Seq(Nat)
        /\ r.block \in Seq(Lemmas) /\ Len(r.block) = c
        /\ \A s \in B : r.block[Rank(B, s)] = dict.block[s]
        /\ r.index \in Seq(Entry) /\ Compacted(r.index, ix)
        /\ \A p \in A : r.index[Rank(A, p)].score = ix[p].score
        /\ \A k \in 1..c : r.index[k].id = k
        /\ r.by_id \in Seq(Nat) /\ Len(r.by_id) = c
        /\ \A k \in 1..c : r.by_id[k] = r.index[k].off
        /\ r.preds \in Seq(Flagged) /\ Compacted(r.preds, dict.preds)
    BY DefragmentFields
  <1>2. /\ b.state = r.state /\ b.block = r.block /\ b.index = r.index /\ b.by_id = r.by_id
        /\ b.preds = r.preds /\ b.syncs = <<>> /\ b.left = r.left /\ b.limit = NoLimit
        /\ b.free_count = r.free_count
    BY BareFields
  <1>3. /\ Numbered(ix) /\ Numbered(dict.preds)
        /\ Orderly(dict.block, ix, dict.preds) /\ Single(dict.block, ix)
    BY SyncNumbered
  <1>4. /\ Len(dict.preds) = Len(ix) /\ dict.left \in 0..PreAlloc /\ Len(ix) \in Nat
    BY SyncTypes
  <1>5. dict.limit \in Limits
    BY DEF SyncOK
  <1>6. Len(ix) <= MaxSlots
    <2> DEFINE old == Bare(dict)
    <2>1. Len(old.index) <= MaxSlots
      BY DEF SyncOK, Exact
    <2>2. old.index = ix
      BY BareFields
    <2> HIDE DEF old
    <2> QED BY <2>1, <2>2
  <1>13. b = Bare(r) /\ Whole(r)
    BY <1>1
  <1> HIDE DEF r, b, A, B, c, ix
  <1>7. Orderly(r.block, r.index, r.preds) /\ Single(r.block, r.index)
    <2>1. \A s \in Staying(ix) : r.block[Rank(Staying(ix), s)] = dict.block[s]
      BY <1>1 DEF B
    <2>2. Compacted(r.index, ix) /\ Compacted(r.preds, dict.preds)
      BY <1>1
    <2> QED BY <1>3, <1>4, <2>1, <2>2, CompactedOrderly, Zenon
  <1>8. /\ Len(r.index) = c /\ c \in 0..Len(ix) /\ ComesFrom(r.index, ix, A, B)
    <2>1. Len(r.index) = c
      BY <1>1 DEF Compacted, B, c
    <2>2. Compacted(r.index, ix)
      BY <1>1
    <2>3. Len(r.index) \in 0..Len(ix) /\ ComesFrom(r.index, ix, A, B)
      BY <1>3, <2>2, CompactedFrom, Zenon DEF A, B
    <2> QED BY <2>1, <2>3
  <1>9. /\ Len(r.preds) = c
        /\ ComesFrom(r.preds, dict.preds, InUse(dict.preds), B)
    <2>1. Staying(dict.preds) = B
      BY <1>3, <1>4, MirrorsGone DEF B, Orderly
    <2>2. /\ Len(r.preds) = Cardinality(Staying(dict.preds))
          /\ ComesFrom(r.preds, dict.preds, InUse(dict.preds), Staying(dict.preds))
      BY <1>1, <1>3, CompactedFrom DEF Compacted
    <2> QED BY <2>1, <2>2 DEF c
  <1>11. DictOK(b)
    <2>1. b \in DictTypes(b)
      <3> DEFINE st == SYNC..DEFRAGMENTED
                 le == 0..PreAlloc
                 li == [count : Nat, ratio : Nat]
      <3>1. DEFRAGMENTED \in st /\ r.left \in le /\ 0 \in Nat /\ NoLimit \in li
        BY <1>1, <1>4 DEF NoLimit
      <3>2. <<>> \in Seq(Nat)
        OBVIOUS
      <3> HIDE DEF st, le, li
      <3>3. b = [state |-> DEFRAGMENTED, block |-> r.block, index |-> r.index, by_id |-> r.by_id,
                 preds |-> r.preds, syncs |-> <<>>, left |-> r.left, limit |-> NoLimit,
                 free_count |-> 0, hits |-> r.hits, misses |-> r.misses]
        BY <1>1, <1>13, Zenon DEF Bare
      <3>4. b \in [state : st, block : Seq(Lemmas), index : Seq(Entry), by_id : Seq(Nat),
                   preds : Seq(Flagged), syncs : Seq(Nat), left : le, limit : li,
                   free_count : Nat, hits : {b.hits}, misses : {b.misses}]
        BY <1>1, <3>1, <3>2, <3>3
      <3> QED BY <3>4, Zenon DEF DictTypes, Entry, st, le, li
    <2>2. InRange(b)
      <3>1. c \in Nat
        BY <1>4, <1>8
      <3>2. \A k \in 1..c : r.index[k].off \in 1..c
        <4> SUFFICES ASSUME NEW k \in 1..c PROVE r.index[k].off \in 1..c
          OBVIOUS
        <4>1. PICK p \in A : r.index[k].off = Rank(B, ix[p].off)
          BY <1>8 DEF ComesFrom
        <4>2. ix[p].off \in B
          BY <1>3, SlotsInUse DEF A, B
        <4> QED BY <1>8, <4>1, <4>2 DEF ComesFrom
      <3>3. \A k \in 1..c : r.preds[k].off \in 1..c
        <4> SUFFICES ASSUME NEW k \in 1..c PROVE r.preds[k].off \in 1..c
          OBVIOUS
        <4>1. PICK p \in InUse(dict.preds) : r.preds[k].off = Rank(B, dict.preds[p].off)
          BY <1>9 DEF ComesFrom
        <4>2. dict.preds[p].off \in B
          <5>1. dict.preds[p].off \in Staying(dict.preds)
            BY <1>3, SlotsInUse
          <5>2. Staying(dict.preds) = B
            BY <1>3, <1>4, MirrorsGone DEF B, Orderly
          <5> QED BY <5>1, <5>2
        <4> QED BY <1>9, <4>1, <4>2 DEF ComesFrom
      <3>4. \A k \in 1..c : /\ r.index[k].id \in 1..c /\ r.by_id[k] \in 1..c
        BY <1>1, <3>2
      <3>5. Len(b.syncs) = 0 /\ 1..0 = {}
        BY <1>2
      <3> QED BY <1>1, <1>2, <1>8, <1>9, <3>2, <3>3, <3>4, <3>5, Zenon DEF InRange
    <2> QED BY <2>1, <2>2 DEF DictOK
  <1>12. Len(b.index) <= MaxSlots
    <2>1. c \in Int /\ c <= Len(ix) /\ Len(ix) \in Int /\ MaxSlots \in Int
      BY <1>4, <1>8
    <2>2. Len(b.index) = c
      BY <1>2, <1>8
    <2> QED BY <1>6, <2>1, <2>2
  <1>14. /\ Whole(r) /\ r.state = DEFRAGMENTED /\ r.syncs \in Seq(Nat) /\ r.limit \in Limits
         /\ DictOK(b) /\ Orderly(b.block, b.index, b.preds) /\ Single(b.block, b.index)
         /\ Len(b.index) <= MaxSlots
    BY <1>1, <1>2, <1>5, <1>7, <1>11, <1>12
  <1> QED BY <1>14 DEF r, b

(* The queue after defragment. *)
LEMMA DefragmentQueue ==
    ASSUME NEW dict, Whole(dict), Gone(dict.index) # {}
    PROVE  Defragment(dict).syncs = MovedQueue(dict, Gone(dict.index))
  <1> DEFINE gone  == Gone(dict.index)
             syncs == MovedQueue(dict, gone)
             r     == Defragment(dict)
  <1>1. PICK block, index, by_id, preds :
            r = [dict EXCEPT !.block = block, !.index = index, !.by_id = by_id, !.preds = preds,
                             !.syncs = syncs, !.free_count = 0, !.state = DEFRAGMENTED]
    BY Zenon DEF Defragment, Gone
  <1> HIDE DEF r, syncs, gone
  <1>2. r.syncs = syncs
    BY <1>1 DEF Whole
  <1> QED BY <1>2 DEF r, syncs, gone

(* A lemma in use moves to the same place in the block and in the queue. *)
LEMMA DefragmentPasses ==
    ASSUME NEW dict, NEW f, SyncOK(dict, f), Gone(dict.index) # {}
    PROVE  LET r == Defragment(dict) IN Slotted(r) /\ Passes(dict, r)
  <1> DEFINE r    == Defragment(dict)
             ix   == dict.index
             n    == Len(ix)
             A    == InUse(ix)
             B    == Staying(ix)
             gone == Gone(ix)
             m    == Len(dict.syncs)
  <1>1. /\ Len(r.block) = Cardinality(B)
        /\ \A s \in B : r.block[Rank(B, s)] = dict.block[s]
        /\ Compacted(r.index, ix)
    BY DefragmentFields
  <1>2. /\ Numbered(ix) /\ Slotted(dict) /\ Whole(dict) /\ dict.syncs \in Seq(Nat)
        /\ Len(dict.block) = n /\ n \in Nat
    BY SyncNumbered, SyncSlotted, SyncTypes DEF SyncOK
  <1>3. r.syncs = MovedQueue(dict, gone)
    BY <1>2, DefragmentQueue
  <1>4. /\ gone \in SUBSET (1..n) /\ B = (1..n) \ gone
        /\ \A k \in A : ix[k].off \in B
    BY <1>2, SlotsInUse DEF Staying
  <1>5. \A s \in B : Moved(gone, s) = Rank(B, s)
    BY <1>2, <1>4, MovedIsRank
  <1>6. ComesFrom(r.index, ix, A, B) /\ Len(r.index) = Cardinality(B)
    BY <1>1, <1>2, CompactedFrom DEF Compacted
  <1>7. \A k \in A : k \in 1..n /\ ~ix[k].rm
    BY DEF InUse
  <1>8. \A k \in 1..n : ~ix[k].rm => k \in A
    BY DEF InUse
  <1> HIDE DEF r, ix, A, B, gone, n
  <1>9. ASSUME NEW k \in 1..Len(r.index)
        PROVE  \E p \in A : /\ r.index[k].off = Rank(B, ix[p].off) /\ ix[p].off \in B
                            /\ r.index[k].off \in 1..Len(r.block)
                            /\ r.block[r.index[k].off] = dict.block[ix[p].off]
    <2>1. PICK p \in A : r.index[k].off = Rank(B, ix[p].off)
      BY <1>6 DEF ComesFrom
    <2>2. ix[p].off \in B
      BY <1>4
    <2>3. r.index[k].off \in 1..Len(r.block)
      BY <1>1, <1>6, <2>1, <2>2 DEF ComesFrom
    <2> QED BY <1>1, <2>1, <2>2, <2>3
  <1>10. Slotted(r)
    BY <1>9 DEF Slotted
  <1>11. ASSUME NEW w \in LemmasInUse(r) PROVE w \in LemmasInUse(dict)
    <2>1. PICK k \in 1..Len(r.index) : r.block[r.index[k].off] = w
      BY <1>10, InUseIs
    <2>2. PICK p \in A : r.block[r.index[k].off] = dict.block[ix[p].off]
      BY <1>9
    <2>3. p \in 1..Len(dict.index) /\ ~dict.index[p].rm /\ dict.block[dict.index[p].off] = w
      BY <1>7, <2>1, <2>2 DEF ix, n
    <2> QED BY <1>2, <2>3, InUseIs
  <1>12. ASSUME NEW w \in Due(dict) PROVE w \in Due(r)
    <2>1. PICK i \in 1..m, k \in 1..n :
              /\ dict.syncs[i] = ix[k].off /\ ~ix[k].rm /\ dict.block[ix[k].off] = w
      BY <1>2, DueIs DEF ix, n
    <2> DEFINE s == ix[k].off
               q == Rank(A, k)
    <2>2. k \in A /\ s \in B
      BY <1>4, <1>8, <2>1
    <2>3. /\ q \in 1..Len(r.index) /\ r.index[q].off = Rank(B, s) /\ r.index[q].rm = FALSE
      BY <1>1, <1>6, <2>2 DEF Compacted, ComesFrom, A, B
    <2>4. r.block[Rank(B, s)] = w
      BY <1>1, <2>1, <2>2
    <2>5. Len(r.syncs) = m /\ r.syncs[i] = Rank(B, s)
      <3> DEFINE In(j) == dict.syncs[j] \in (1..Len(dict.block)) \ gone
      <3>1. m \in Nat
        BY <1>2, LenProperties
      <3>2. r.syncs = [j \in 1..m |-> IF In(j) THEN Moved(gone, dict.syncs[j]) ELSE dict.syncs[j]]
        BY <1>3, Zenon DEF MovedQueue
      <3>3. In(i) /\ dict.syncs[i] = s
        BY <1>2, <1>4, <2>1, <2>2
      <3> HIDE DEF In, s, m
      <3>4. Len(r.syncs) = m
        BY <3>1, <3>2
      <3>5. r.syncs[i] = Moved(gone, s)
        BY <3>2, <3>3
      <3> QED BY <1>5, <2>2, <3>4, <3>5
    <2> HIDE DEF s, q, m
    <2> QED BY <1>10, <2>3, <2>4, <2>5, DueIs
  <1> QED BY <1>10, <1>11, <1>12 DEF Passes, r

(* An object that is in order is loaded back from its image. *)
LEMMA ImageExact ==
    ASSUME NEW b, DictOK(b), Orderly(b.block, b.index, b.preds), Single(b.block, b.index),
           Len(b.index) <= MaxSlots
    PROVE  Exact(Load(Image(b)), Image(b))
  <1> DEFINE g == Image(b)
  <1>1. FileOK(g) /\ Len(OffsetsOf(b.index)) = Len(b.index) /\ Len(b.index) \in Nat
    BY ImageOK, SegmentsOfIndex
  <1>2. g.block = b.block /\ g.offs = OffsetsOf(b.index) /\ g.scores = ScoresOf(b.index)
        /\ g.preds = b.preds
    BY DEF Image
  <1> HIDE DEF g
  <1>3. Len(g.offs) = Len(b.index)
        /\ \A k \in 1..Len(b.index) :
              /\ g.offs[k].off = b.index[k].off /\ g.offs[k].rm = b.index[k].rm
              /\ g.scores[k] = b.index[k].score
    BY <1>1, <1>2 DEF OffsetsOf, ScoresOf
  <1>4. Orderly(g.block, g.offs, g.preds)
    <2>1. Orderly(b.block, g.offs, b.preds)
      BY <1>3, OrderlySame
    <2> QED BY <1>2, <2>1
  <1>5. Single(g.block, g.offs)
    <2>1. Single(b.block, g.offs)
      BY <1>3, SingleSame
    <2> QED BY <1>2, <2>1
  <1>6. /\ Exact(Load(g), g) /\ Len(Load(g).index) = Len(g.offs)
        /\ \A k \in 1..Len(g.offs) : Load(g).index[k].score = g.scores[k]
    BY <1>1, <1>3, <1>4, <1>5, LoadExact
  <1> QED BY <1>6 DEF g

(* reclaim, defragment and flush_cache. *)
LEMMA MadeRoomSync ==
    ASSUME NEW dict, NEW f, SyncOK(dict, f), NEW room \in MadeRoom(dict, f)
    PROVE  SyncOK(room.d, room.file)
  <1> DEFINE less  == Reclaim(dict)
             small == Defragment(less)
             b     == Bare(small)
             f1    == WriteBack(small, f, small.syncs)
             f2    == Accepted(f1)
  <1>1. SyncOK(less, f)
    BY ReclaimSync
  <1>2. room = FlushCache(small, f, small.syncs)
    BY DEF MadeRoom
  <1>3. CASE Gone(less.index) = {}
    <2>1. small = less
      BY <1>3 DEF Defragment, Gone
    <2> HIDE DEF less, small
    <2>2. less.syncs \in Seq(Nat)
      BY <1>1 DEF SyncOK
    <2> QED BY <1>1, <1>2, <2>1, <2>2, FlushSync
  <1>4. CASE Gone(less.index) # {}
    <2>1. /\ Whole(small) /\ small.state = DEFRAGMENTED /\ small.syncs \in Seq(Nat)
          /\ small.limit \in Limits
          /\ DictOK(b) /\ Orderly(b.block, b.index, b.preds) /\ Single(b.block, b.index)
          /\ Len(b.index) <= MaxSlots
      <3> HIDE DEF less
      <3> QED BY <1>1, <1>4, DefragmentOK
    <2>2. Exact(Load(Image(b)), Image(b))
      <3> HIDE DEF b
      <3> QED BY <2>1, ImageExact
    <2>3. room.d = Load(f2) /\ room.file = f2 /\ f2 = IF Validate(f1) THEN f1 ELSE EmptyFile
      BY <1>2 DEF FlushCache, Accepted
    <2>4. WholeFile(f1) /\ BareFile(f1) = Image(b) /\ f1.syncs = small.syncs
          /\ f1.info = InfoOf(small)
      <3>1. WholeFile(f) /\ small.state \in SYNC..DEFRAGMENTED /\ small.state # SYNC
        BY <1>1, <2>1 DEF SyncOK
      <3> HIDE DEF small
      <3> QED BY <2>1, <3>1, WriteBackBare
    <2>5. InfoOf(small).limit = small.limit
      BY DEF InfoOf
    <2> HIDE DEF less, small, b, f1, f2
    <2>6. CASE Validate(f1)
      <3>1. room.d = Load(f1) /\ room.file = f1
        BY <2>3, <2>6
      <3>2. /\ Whole(room.d) /\ Bare(room.d) = Load(Image(b))
            /\ room.d.syncs = f1.syncs /\ room.d.limit = f1.info.limit
        BY <2>4, <3>1, LoadBare
      <3>3. room.d.index = Load(Image(b)).index
        BY <3>2, BareFields
      <3>4. Len(f1.syncs) = f1.info.syncs
        BY <2>6 DEF Validate
      <3> QED BY <2>1, <2>2, <2>4, <2>5, <3>1, <3>2, <3>3, <3>4, Zenon DEF SyncOK
    <2>7. CASE ~Validate(f1)
      BY <2>3, <2>7, EmptySync
    <2> QED BY <2>6, <2>7
  <1> QED BY <1>3, <1>4

(* The file that holds an object and its queue is accepted. *)
LEMMA ImageValid ==
    ASSUME NEW b, DictOK(b), NEW f, BareFile(f) = Image(b), Len(f.syncs) = f.info.syncs
    PROVE  Validate(f)
  <1> DEFINE g == BareFile(f)
  <1>1. Validate(g)
    BY ImageOK DEF FileOK
  <1>2. /\ g.block = f.block /\ g.offs = f.offs /\ g.preds = f.preds /\ g.scores = f.scores
        /\ g.info.lemmas = f.info.lemmas /\ g.info.count = f.info.count
    BY DEF BareFile
  <1> HIDE DEF g
  <1> QED BY <1>1, <1>2 DEF Validate

(* The image of an object has its lemmas. *)
LEMMA ImageSame ==
    ASSUME NEW b, DictOK(b), NEW x, x.index = Load(Image(b)).index, x.block = Load(Image(b)).block
    PROVE  SameLemmas(x, b)
  <1> DEFINE im == Image(b)
             n  == Len(b.index)
  <1>1. im.block = b.block /\ im.offs = OffsetsOf(b.index) /\ im.scores = ScoresOf(b.index)
    BY DEF Image
  <1>2. n \in Nat /\ Len(OffsetsOf(b.index)) = n
    BY SegmentsOfIndex
  <1>3. \A k \in 1..n : im.offs[k].off = b.index[k].off /\ im.offs[k].rm = b.index[k].rm
    BY <1>1 DEF OffsetsOf
  <1>0. x.index = Load(im).index /\ x.block = Load(im).block
    OBVIOUS
  <1> HIDE DEF im, n
  <1>4. /\ Load(im).block = b.block
        /\ Load(im).index = [k \in 1..n |-> [off |-> im.offs[k].off, rm |-> im.offs[k].rm,
                                             score |-> im.scores[k], id |-> k]]
    BY <1>1, <1>2 DEF Load
  <1>5. Len(Load(im).index) = n
    BY <1>2, <1>4
  <1>6. \A k \in 1..n : /\ Load(im).index[k].off = b.index[k].off
                        /\ Load(im).index[k].rm = b.index[k].rm
    BY <1>3, <1>4
  <1>7. x.block = b.block /\ Len(x.index) = n
    BY <1>0, <1>4, <1>5, Zenon
  <1>8. \A k \in 1..n : x.index[k].off = b.index[k].off /\ x.index[k].rm = b.index[k].rm
    BY <1>0, <1>6, Zenon
  <1> QED BY <1>7, <1>8, Zenon DEF SameLemmas, n

(* flush_cache brings the queue back, or nothing if it wrote another. *)
LEMMA FlushedQueue ==
    ASSUME NEW dict, NEW f, SyncOK(dict, f), QueueSaved(dict, f), NEW written \in Seq(Nat)
    PROVE  LET r == FlushCache(dict, f, written)
           IN  /\ QueueSaved(r.d, r.file)
               /\ \/ Len(r.d.index) = 0 /\ Len(written) # Len(dict.syncs)
                  \/ /\ SameLemmas(r.d, dict)
                     /\ \/ r.d.syncs = dict.syncs
                        \/ r.d.syncs = written /\ Len(written) = Len(dict.syncs)
  <1> DEFINE b  == Bare(dict)
             g  == BareFile(f)
             f1 == WriteBack(dict, f, written)
             f2 == Accepted(f1)
             r  == FlushCache(dict, f, written)
             info == InfoOf(dict)
  <1>1. WholeFile(f) /\ Good(b, g) /\ Len(f.syncs) = f.info.syncs
    BY DEF SyncOK, Exact, Kept
  <1>2. dict.state \in SYNC..DEFRAGMENTED
    <2>1. dict.state \in SYNC..LEMMA_DIRTY
      BY SyncTypes
    <2> QED BY <2>1
  <1>3. b.block = dict.block /\ b.index = dict.index /\ b.syncs = <<>>
    BY BareFields
  <1>4. r.d = Load(f2) /\ r.file = f2 /\ f2 = IF Validate(f1) THEN f1 ELSE EmptyFile
    BY DEF FlushCache, Accepted
  <1>5. /\ BareFile(f1) = WriteBack(b, g, <<>>)
        /\ dict.state = SYNC => f1 = f
        /\ dict.state # SYNC => f1.syncs = written /\ f1.info = info
    BY <1>1, <1>2, WriteBackBare
  <1>6. info.syncs = Len(dict.syncs)
    BY DEF InfoOf
  <1> HIDE DEF b, g, r, f1, f2, info
  <1>7. BareFile(f1) = Image(b) /\ DictOK(b)
    BY <1>1, <1>3, <1>5, WriteBackIsImage DEF Good
  <1>8. QueueSaved(r.d, r.file)
    BY <1>4, LoadBare DEF QueueSaved
  <1>9. CASE Validate(f1)
    <2>1. r.d = Load(f1) /\ r.d.syncs = f1.syncs /\ Bare(r.d) = Load(Image(b))
      BY <1>4, <1>7, <1>9, LoadBare
    <2>2. r.d.index = Load(Image(b)).index /\ r.d.block = Load(Image(b)).block
      BY <2>1, BareFields
    <2>3. SameLemmas(r.d, dict)
      BY <1>3, <1>7, <2>2, ImageSame DEF SameLemmas
    <2>4. Len(f1.syncs) = f1.info.syncs
      BY <1>9 DEF Validate
    <2>5. CASE dict.state = SYNC
      BY <1>5, <1>8, <2>1, <2>3, <2>5 DEF QueueSaved, r
    <2>6. CASE dict.state # SYNC
      BY <1>5, <1>6, <1>8, <2>1, <2>3, <2>4, <2>6 DEF r
    <2> QED BY <2>5, <2>6
  <1>10. CASE ~Validate(f1)
    <2>1. Len(f1.syncs) # f1.info.syncs
      BY <1>7, <1>10, ImageValid
    <2>2. Len(written) # Len(dict.syncs)
      BY <1>1, <1>5, <1>6, <2>1
    <2>3. Len(r.d.index) = 0
      BY <1>4, <1>10, EmptySync
    <2> QED BY <1>8, <2>2, <2>3 DEF r
  <1> QED BY <1>9, <1>10

(* A flush that writes the queue loses none of it. *)
LEMMA FlushPasses ==
    ASSUME NEW dict, NEW f, SyncOK(dict, f), QueueSaved(dict, f)
    PROVE  LET r == FlushCache(dict, f, dict.syncs)
           IN  /\ QueueSaved(r.d, r.file)
               /\ SameLemmas(r.d, dict) /\ r.d.syncs = dict.syncs /\ Passes(dict, r.d)
  <1> DEFINE r == FlushCache(dict, f, dict.syncs)
  <1>1. dict.syncs \in Seq(Nat) /\ Slotted(dict)
    BY SyncSlotted DEF SyncOK
  <1>2. QueueSaved(r.d, r.file) /\ SameLemmas(r.d, dict) /\ r.d.syncs = dict.syncs
    BY <1>1, FlushedQueue
  <1> HIDE DEF r
  <1>3. Passes(dict, r.d)
    BY <1>1, <1>2, SamePasses
  <1> QED BY <1>2, <1>3 DEF r

(* reclaim, defragment and flush_cache lose nothing of the queue but what
   reclaim removed. *)
LEMMA MadeRoomPasses ==
    ASSUME NEW dict, NEW f, SyncOK(dict, f), QueueSaved(dict, f), NEW room \in MadeRoom(dict, f)
    PROVE  Passes(dict, room.d) /\ QueueSaved(room.d, room.file)
  <1> DEFINE less  == Reclaim(dict)
             small == Defragment(less)
             b     == Bare(small)
             f1    == WriteBack(small, f, small.syncs)
             f2    == Accepted(f1)
  <1>1. SyncOK(less, f) /\ Passes(dict, less) /\ QueueSaved(less, f)
    BY ReclaimSync DEF Follows
  <1>2. room = FlushCache(small, f, small.syncs)
    BY DEF MadeRoom
  <1>3. CASE Gone(less.index) = {}
    <2>1. small = less
      BY <1>3 DEF Defragment, Gone
    <2> HIDE DEF less, small
    <2>2. Passes(less, room.d) /\ QueueSaved(room.d, room.file)
      BY <1>1, <1>2, <2>1, FlushPasses
    <2> QED BY <1>1, <2>2, PassesOn
  <1>4. CASE Gone(less.index) # {}
    <2>1. Whole(small) /\ small.state = DEFRAGMENTED /\ small.syncs \in Seq(Nat) /\ DictOK(b)
      <3> HIDE DEF less
      <3> QED BY <1>1, <1>4, DefragmentOK
    <2>2. Slotted(small) /\ Passes(less, small)
      <3> HIDE DEF less
      <3> QED BY <1>1, <1>4, DefragmentPasses
    <2>3. room.d = Load(f2) /\ room.file = f2 /\ f2 = IF Validate(f1) THEN f1 ELSE EmptyFile
      BY <1>2 DEF FlushCache, Accepted
    <2>4. BareFile(f1) = Image(b) /\ f1.syncs = small.syncs /\ f1.info = InfoOf(small)
      <3>1. WholeFile(f) /\ small.state \in SYNC..DEFRAGMENTED /\ small.state # SYNC
        BY <1>1, <2>1 DEF SyncOK
      <3> HIDE DEF small
      <3> QED BY <2>1, <3>1, WriteBackBare
    <2>5. InfoOf(small).syncs = Len(small.syncs)
      BY DEF InfoOf
    <2>6. b.block = small.block /\ b.index = small.index
      BY BareFields
    <2> HIDE DEF less, small, b, f1, f2
    <2>7. Validate(f1)
      BY <2>1, <2>4, <2>5, ImageValid
    <2>8. room.d = Load(f1) /\ room.d.syncs = small.syncs /\ Bare(room.d) = Load(Image(b))
      <3>1. room.d = Load(f1)
        BY <2>3, <2>7
      <3>2. Load(f1).syncs = f1.syncs /\ Bare(Load(f1)) = Load(BareFile(f1))
        BY LoadBare
      <3> QED BY <2>4, <3>1, <3>2, Zenon
    <2>9. room.d.index = Load(Image(b)).index /\ room.d.block = Load(Image(b)).block
      BY <2>8, BareFields
    <2>10. SameLemmas(room.d, small)
      <3>1. SameLemmas(room.d, b)
        BY <2>1, <2>9, ImageSame
      <3> QED BY <2>6, <3>1, Zenon DEF SameLemmas
    <2>11. Passes(small, room.d) /\ QueueSaved(room.d, room.file)
      <3>1. Passes(small, room.d)
        BY <2>2, <2>8, <2>10, SamePasses
      <3>2. room.d = Load(f1) /\ room.file = f1
        BY <2>3, <2>7
      <3>3. QueueSaved(room.d, room.file)
        BY <3>2, LoadBare DEF QueueSaved
      <3> QED BY <3>1, <3>3
    <2> QED BY <1>1, <2>2, <2>11, PassesOn
  <1> QED BY <1>3, <1>4

-----------------------------------------------------------------------------
(* put_lemma_no_sync. *)

(* One try, whatever the memory holds it reads for the queue. *)
LEMMA PutOnceSync ==
    ASSUME NEW dict, NEW f, SyncOK(dict, f), NEW w \in Lemmas,
           NEW count \in Nat, NEW week \in Nat, NEW junk \in Nat,
           Len(PutOnce(dict, f, w, count, week, junk).d.block) <= MaxSlots
    PROVE  LET r == PutOnce(dict, f, w, count, week, junk) IN SyncOK(r.d, r.file)
  <1> DEFINE k      == LocateInOffsets(dict, w)
             score  == BuildScore(week, count)
             none   == <<>>
             flush  == FlushCache(dict, f, none)
             fresh  == AppendALemma(flush.d, w, score)
             added  == AppendALemma(dict, w, score)
             queued == QueueLemmaForSync(fresh, Len(fresh.index))
             syncs  == [i \in 1..Len(queued.syncs) |->
                           IF i <= Len(dict.syncs) THEN dict.syncs[i] ELSE junk]
             last   == [queued EXCEPT !.syncs = syncs]
             r      == PutOnce(dict, f, w, count, week, junk)
  <1>1. score \in Score
    BY BuildScoreFits
  <1>2. /\ Len(dict.index) \in Nat /\ Len(dict.block) = Len(dict.index)
        /\ dict.block \in Seq(Lemmas) /\ dict.left \in 0..PreAlloc
    BY SyncTypes
  <1>3. /\ k \in 0..Len(dict.index)
        /\ k = 0 => \A m \in 1..Len(dict.index) :
                        ~dict.index[m].rm => dict.block[dict.index[m].off] # w
    BY FoundSync
  <1>4. Whole(dict) /\ dict.syncs \in Seq(Nat) /\ none \in Seq(Nat)
    BY DEF SyncOK
  <1>0. Len(r.d.block) <= MaxSlots
    OBVIOUS
  <1>5. \/ k # 0 /\ r.d = Scored(dict, k, score) /\ r.file = f
        \/ r.d = dict /\ r.file = f
        \/ k = 0 /\ dict.left > 0 /\ r.d = added /\ r.file = f
        \/ k = 0 /\ ~(dict.left > 0) /\ r.d = last /\ r.file = flush.file
    <2>1. \/ k # 0 /\ r = [d |-> Scored(dict, k, score), file |-> f, done |-> TRUE]
          \/ r = [d |-> dict, file |-> f, done |-> FALSE]
          \/ k = 0 /\ dict.left > 0 /\ r = [d |-> added, file |-> f, done |-> TRUE]
          \/ k = 0 /\ ~(dict.left > 0) /\ r = [d |-> last, file |-> flush.file, done |-> TRUE]
      BY Zenon DEF PutOnce, Scored
    <2> HIDE DEF k, score, flush, fresh, added, queued, syncs, last, r, none
    <2> QED BY <2>1
  <1> HIDE DEF k, score, r, none
  <1>6. CASE k # 0 /\ r.d = Scored(dict, k, score) /\ r.file = f
    <2>1. k \in 1..Len(dict.index)
      BY <1>2, <1>3, <1>6
    <2> QED BY <1>1, <1>6, <2>1, ScoreSync DEF r
  <1>7. CASE r.d = dict /\ r.file = f
    BY <1>7 DEF r
  <1>8. CASE k = 0 /\ dict.left > 0 /\ r.d = added /\ r.file = f
    <2>1. added.block = Append(dict.block, w)
      BY <1>4, AppendBare
    <2>2. Len(added.block) = Len(dict.block) + 1
      BY <1>2, <2>1, AppendProperties
    <2>3. Len(dict.index) < MaxSlots /\ dict.left # 0
      <3> HIDE DEF added
      <3> QED BY <1>0, <1>2, <1>8, <2>2
    <2>4. SyncOK(added, f)
      <3> HIDE DEF flush
      <3> QED BY <1>1, <1>3, <1>8, <2>3, AppendSync
    <2> QED BY <1>8, <2>4 DEF r
  <1>9. CASE k = 0 /\ ~(dict.left > 0) /\ r.d = last /\ r.file = flush.file
    <2>1. SyncOK(flush.d, flush.file)
      BY <1>4, FlushSync
    <2>2. /\ Whole(flush.d) /\ flush.d.block \in Seq(Lemmas)
          /\ Len(flush.d.block) = Len(flush.d.index) /\ Len(flush.d.index) \in Nat
      <3> HIDE DEF flush
      <3> QED BY <2>1, SyncTypes DEF SyncOK
    <2>3. Len(fresh.block) = Len(flush.d.index) + 1 /\ Whole(fresh)
      <3> HIDE DEF flush
      <3>1. fresh.block = Append(flush.d.block, w) /\ Whole(fresh)
        BY <2>2, AppendBare
      <3>2. Len(Append(flush.d.block, w)) = Len(flush.d.block) + 1
        BY <2>2, AppendProperties
      <3> HIDE DEF fresh
      <3> QED BY <2>2, <3>1, <3>2
    <2>4. Whole(queued) /\ Bare(queued) = Bare(fresh) /\ queued.limit = fresh.limit
      <3> DEFINE s == Append(fresh.syncs, fresh.by_id[Len(fresh.index)])
      <3>1. queued = [fresh EXCEPT !.syncs = s]
        BY Zenon DEF QueueLemmaForSync
      <3> HIDE DEF fresh, s, queued
      <3> QED BY <2>3, <3>1, QueueOnlyBare
    <2>5. Whole(last) /\ Bare(last) = Bare(queued) /\ last.syncs = syncs /\ last.limit = queued.limit
      <3> HIDE DEF queued, syncs
      <3> QED BY <2>4, QueueOnlyBare
    <2>6. last.block = fresh.block
      <3>1. Bare(last).block = last.block /\ Bare(fresh).block = fresh.block
        BY BareFields
      <3> HIDE DEF last, fresh, queued
      <3> QED BY <2>4, <2>5, <3>1
    <2> HIDE DEF last
    <2>7. Len(flush.d.index) < MaxSlots
      <3> HIDE DEF fresh, flush
      <3>1. Len(fresh.block) <= MaxSlots
        BY <1>0, <1>9, <2>6
      <3> QED BY <2>2, <2>3, <3>1
    <2>8. SyncOK(fresh, flush.file) /\ Len(fresh.index) \in Nat \ {0}
      BY <1>1, <1>4, <1>9, <2>7, RoomSync DEF k
    <2> HIDE DEF fresh
    <2>9. SyncOK(queued, flush.file)
      <3>1. Len(fresh.index) \in 1..Len(fresh.index)
        BY <2>8
      <3> HIDE DEF flush
      <3> QED BY <2>8, <3>1, QueueSync
    <2>10. syncs \in Seq(Nat)
      <3> DEFINE m == Len(queued.syncs)
      <3>1. queued.syncs \in Seq(Nat) /\ queued.limit \in Limits
        BY <2>9 DEF SyncOK
      <3> HIDE DEF queued
      <3>2. m \in Nat /\ Len(dict.syncs) \in Nat
        BY <1>4, <3>1, LenProperties
      <3>3. \A i \in 1..Len(dict.syncs) : dict.syncs[i] \in Nat
        BY <1>4, ElementOfSeq
      <3>4. syncs \in [1..m -> Nat]
        BY <3>2, <3>3
      <3> QED BY <3>2, <3>4, FcnIsSeq
    <2>11. queued.limit \in Limits
      BY <2>9 DEF SyncOK
    <2> HIDE DEF queued, syncs, flush
    <2>12. SyncOK(last, flush.file)
      BY <2>5, <2>9, <2>10, <2>11, QueueAside
    <2> QED BY <1>9, <2>12 DEF r
  <1> QED BY <1>5, <1>6, <1>7, <1>8, <1>9

(* A try that failed has left everything as it was. *)
LEMMA FailedPut ==
    ASSUME NEW dict, NEW f, NEW w, NEW count, NEW week, NEW junk
    PROVE  LET r == PutOnce(dict, f, w, count, week, junk)
           IN  ~r.done => r.d = dict /\ r.file = f
  BY DEF PutOnce

(* All outcomes that the bound of the model allows. *)
LEMMA PutNoSync ==
    ASSUME NEW dict, NEW f, SyncOK(dict, f), NEW w \in Lemmas,
           NEW count \in Nat, NEW week \in Nat,
           NEW r \in PutLemmaNoSync(dict, f, w, count, week), Len(r.d.block) <= MaxSlots
    PROVE  SyncOK(r.d, r.file)
  <1> DEFINE try(o) == {PutOnce(o.d, o.file, w, count, week, junk) : junk \in JunkSlots}
             start == [d |-> dict, file |-> f]
             all(once) == IF once.done \/ ~LimitReached(once.d) THEN {once}
                          ELSE UNION {try(room) : room \in MadeRoom(once.d, once.file)}
  <1>1. PutLemmaNoSync(dict, f, w, count, week) = UNION {all(once) : once \in try(start)}
    BY DEF PutLemmaNoSync
  <1>2. ASSUME NEW o, SyncOK(o.d, o.file), r \in try(o) PROVE SyncOK(r.d, r.file)
    <2>1. PICK junk \in JunkSlots : r = PutOnce(o.d, o.file, w, count, week, junk)
      BY <1>2
    <2>2. junk \in Nat
      BY SyncAssumption
    <2> QED BY <1>2, <2>1, <2>2, PutOnceSync
  <1>3. SyncOK(start.d, start.file) /\ start.d = dict /\ start.file = f
    OBVIOUS
  <1> HIDE DEF start, all
  <1>4. PICK once \in try(start) : r \in all(once)
    BY <1>1
  <1>5. r = once \/ (~once.done /\ r \in UNION {try(room) : room \in MadeRoom(once.d, once.file)})
    BY <1>4 DEF all
  <1>6. CASE r = once
    <2>1. r \in try(start)
      BY <1>4, <1>6
    <2> HIDE DEF try
    <2> QED BY <1>2, <1>3, <2>1
  <1>7. CASE ~once.done /\ r \in UNION {try(room) : room \in MadeRoom(once.d, once.file)}
    <2>1. once.d = dict /\ once.file = f
      <3>1. PICK junk \in JunkSlots : once = PutOnce(start.d, start.file, w, count, week, junk)
        BY <1>4
      <3> QED BY <1>3, <1>7, <3>1, FailedPut
    <2> HIDE DEF try
    <2>2. PICK room \in MadeRoom(dict, f) : r \in try(room)
      BY <1>7, <2>1
    <2>3. SyncOK(room.d, room.file)
      BY MadeRoomSync
    <2> QED BY <1>2, <2>2, <2>3
  <1> QED BY <1>5, <1>6, <1>7

-----------------------------------------------------------------------------
(* get_lemmas and clear_last_got. *)

(* An object that has only another queue, and is dirty for it. *)
LEMMA QueueDirtySync ==
    ASSUME NEW dict, NEW f, SyncOK(dict, f), NEW syncs \in Seq(Nat)
    PROVE  LET r == Requeued(dict, syncs, Dirty(dict, SYNC_DIRTY))
           IN  /\ SyncOK(r, f) /\ r.syncs = syncs
               /\ r.block = dict.block /\ r.index = dict.index
  <1> DEFINE b  == Bare(dict)
             g  == BareFile(f)
             st == Dirty(dict, SYNC_DIRTY)
             r  == Requeued(dict, syncs, st)
             rb == [b EXCEPT !.state = st]
  <1>1. /\ Whole(dict) /\ WholeFile(f) /\ Exact(b, g)
        /\ f.syncs \in Seq(Nat) /\ Len(f.syncs) = f.info.syncs
        /\ dict.limit \in Limits /\ f.info.limit \in Limits
    BY DEF SyncOK
  <1>2. b.state = dict.state /\ b.index = dict.index /\ b.block = dict.block
    BY BareFields
  <1>3. Whole(r) /\ Bare(r) = rb /\ r.syncs = syncs /\ r.limit = dict.limit
    <2> HIDE DEF st
    <2> QED BY <1>1, QueueSetBare
  <1>4. Bare(r).index = r.index /\ Bare(r).block = r.block
    BY BareFields
  <1>5. dict.state \in SYNC..LEMMA_DIRTY
    BY SyncTypes
  <1>6. st \in SYNC..LEMMA_DIRTY /\ dict.state <= st
    BY <1>5 DEF Dirty
  <1> HIDE DEF b, g, st
  <1>7. rb.index = b.index /\ rb.block = b.block
    <2>1. b = Bare(dict)
      BY DEF b
    <2> QED BY <2>1 DEF Bare
  <1>8. Exact(rb, g)
    BY <1>1, <1>2, <1>6, RaiseExact
  <1> HIDE DEF r, rb
  <1>9. r.index = dict.index /\ r.block = dict.block
    BY <1>2, <1>3, <1>4, <1>7
  <1>10. SyncOK(r, f)
    BY <1>1, <1>3, <1>8, <1>9, Zenon DEF SyncOK, g
  <1> QED BY <1>3, <1>9, <1>10 DEF r, st

(* get_sync_lemmas_in_utf16le_string_from_beginning. *)
LEMMA GetLemmasSync ==
    ASSUME NEW dict, NEW f, SyncOK(dict, f), NEW n
    PROVE  LET r == GetSyncLemmas(dict, n)
           IN  /\ SyncOK(r, f) /\ r.syncs = dict.syncs
               /\ r.block = dict.block /\ r.index = dict.index
  <1> DEFINE st == Dirty(dict, SYNC_DIRTY)
             x  == [dict EXCEPT !.state = st]
             y  == Requeued(dict, dict.syncs, st)
             lit == [state |-> st, block |-> dict.block, index |-> dict.index,
                     by_id |-> dict.by_id, preds |-> dict.preds, syncs |-> dict.syncs,
                     left |-> dict.left, limit |-> dict.limit, free_count |-> dict.free_count,
                     hits |-> dict.hits, misses |-> dict.misses]
  <1>1. Whole(dict) /\ dict.syncs \in Seq(Nat)
    BY DEF SyncOK
  <1>2. x = [dict EXCEPT !.state = st] /\ y = [dict EXCEPT !.syncs = dict.syncs, !.state = st]
    BY DEF Requeued
  <1>3. SyncOK(y, f) /\ y.syncs = dict.syncs /\ y.block = dict.block /\ y.index = dict.index
    BY <1>1, QueueDirtySync
  <1>4. n # 0 => GetSyncLemmas(dict, n) = x
    BY DEF GetSyncLemmas
  <1>5. n = 0 => GetSyncLemmas(dict, n) = dict
    BY DEF GetSyncLemmas
  <1> HIDE DEF x, y, st
  <1>6. x = lit
    BY <1>1, <1>2 DEF Whole
  <1>7. y = lit
    BY <1>1, <1>2 DEF Whole
  <1> HIDE DEF lit
  <1> QED BY <1>3, <1>4, <1>5, <1>6, <1>7

(* clear_sync_lemmas(0, end). *)
LEMMA ClearSync ==
    ASSUME NEW dict, NEW f, SyncOK(dict, f), NEW end \in Nat
    PROVE  /\ SyncOK(ClearSyncLemmas(dict, end), f)
           /\ ClearSyncLemmas(dict, end).syncs = SubSeq(dict.syncs, end + 1, Len(dict.syncs))
  <1> DEFINE syncs == SubSeq(dict.syncs, end + 1, Len(dict.syncs))
  <1>1. dict.syncs \in Seq(Nat)
    BY DEF SyncOK
  <1>2. syncs \in Seq(Nat)
    <2>1. Len(dict.syncs) \in Nat /\ \A i \in 1..Len(dict.syncs) : dict.syncs[i] \in Nat
      BY <1>1
    <2>2. end + 1 \in Nat \ {0}
      OBVIOUS
    <2>3. \A i \in (end + 1)..Len(dict.syncs) : dict.syncs[i] \in Nat
      BY <2>1
    <2> QED BY <1>1, SubSeqProperties, <2>1, <2>2, <2>3
  <1> HIDE DEF syncs
  <1>3. ClearSyncLemmas(dict, end)
            = Requeued(dict, syncs, Dirty(dict, SYNC_DIRTY))
    BY DEF ClearSyncLemmas, Requeued, syncs
  <1>4. LET r == Requeued(dict, syncs, Dirty(dict, SYNC_DIRTY))
        IN  SyncOK(r, f) /\ r.syncs = syncs
    BY <1>2, QueueDirtySync
  <1> QED BY <1>3, <1>4 DEF syncs

(* What can be sent of the first n entries of the queue was handed out. *)
Handed(dict, n, given) ==
    \A i \in 1..Len(dict.syncs) :
        i <= n /\ Sendable(dict, dict.syncs[i]) => dict.syncs[i] \in given

(* FirstN takes n at most, and none of the first n positions is left out. *)
LEMMA FirstNTakes ==
    ASSUME NEW m \in Nat, NEW S \in SUBSET (1..m), NEW n \in Nat
    PROVE  /\ Cardinality(FirstN(S, n)) \in Nat
           /\ \A i \in S : i <= Cardinality(FirstN(S, n)) => i \in FirstN(S, n)
  <1> DEFINE G == FirstN(S, n)
             c == Cardinality(G)
  <1>1. G \in SUBSET (1..m) /\ G \subseteq S
    BY DEF FirstN
  <1> HIDE DEF G
  <1>2. /\ c \in 0..m
        /\ \A k \in 1..c : \E p \in G : Rank(G, p) = k
    BY <1>1, RankOrder
  <1>4. ASSUME NEW i \in 1..m
        PROVE  /\ IsFiniteSet({j \in S : j <= i}) /\ Cardinality({j \in S : j <= i}) \in Nat
               /\ Cardinality({j \in S : j <= i}) <= i
    <2> DEFINE T == {j \in S : j <= i}
    <2>1. T \subseteq 1..i /\ i \in Nat
      <3>1. \A j \in 1..m : j <= i => j \in 1..i
        OBVIOUS
      <3>2. \A j \in S : j \in 1..m
        OBVIOUS
      <3>3. i \in Nat
        OBVIOUS
      <3>4. \A j \in T : j \in S /\ j <= i
        OBVIOUS
      <3> HIDE DEF T
      <3> QED BY <3>1, <3>2, <3>3, <3>4, Zenon
    <2>2. IsFiniteSet(1..i) /\ Cardinality(1..i) = i
      BY <2>1, UpToCount
    <2> HIDE DEF T
    <2>3. IsFiniteSet(T) /\ Cardinality(T) <= Cardinality(1..i)
      BY <2>1, <2>2, FS_Subset
    <2>4. Cardinality(T) \in Nat
      BY <2>3, FS_CardinalityType
    <2> QED BY <2>2, <2>3, <2>4 DEF T
  <1>5. c <= n
    <2>1. CASE c = 0
      BY <2>1
    <2>2. CASE c # 0
      <3>1. c \in 1..c
        BY <1>2, <2>2
      <3>2. PICK p \in G : Rank(G, p) = c
        BY <1>2, <3>1
      <3>3. p \in 1..m /\ Cardinality({j \in S : j <= p}) <= n
        BY <1>1, <3>2 DEF G, FirstN
      <3> DEFINE T == {j \in S : j <= p}
                 R == {q \in G : q <= p}
      <3>4. R \subseteq T /\ IsFiniteSet(T) /\ Cardinality(T) \in Nat
        BY <1>1, <1>4, <3>3
      <3>5. Cardinality(R) = c
        BY <3>2 DEF Rank
      <3> HIDE DEF T, R
      <3>6. Cardinality(R) <= Cardinality(T)
        BY <3>4, FS_Subset
      <3>7. Cardinality(T) <= n
        BY <3>3 DEF T
      <3> HIDE DEF c
      <3> QED BY <1>2, <3>4, <3>5, <3>6, <3>7
    <2> QED BY <2>1, <2>2
  <1>6. ASSUME NEW i \in S, i <= c PROVE i \in G
    <2>1. i \in 1..m
      OBVIOUS
    <2>2. Cardinality({j \in S : j <= i}) \in Nat /\ Cardinality({j \in S : j <= i}) <= i
      BY <1>4, <2>1
    <2> DEFINE x == Cardinality({j \in S : j <= i})
    <2> HIDE DEF x, c
    <2>3. x <= n
      BY <1>2, <1>5, <1>6, <2>1, <2>2 DEF x
    <2> QED BY <2>3 DEF x, G, FirstN
  <1> QED BY <1>2, <1>6 DEF G

(* locate_in_offsets finds the entry that is in use for a lemma. *)
LEMMA FoundEntry ==
    ASSUME NEW dict, NEW f, SyncOK(dict, f), NEW j \in 1..Len(dict.index), ~dict.index[j].rm
    PROVE  LocateInOffsets(dict, dict.block[dict.index[j].off]) = j
  <1> DEFINE b == Bare(dict)
             w == dict.block[dict.index[j].off]
             k == LocateInOffsets(b, w)
  <1>1. Exact(b, BareFile(f))
    BY DEF SyncOK
  <1>2. b.block = dict.block /\ b.index = dict.index
    BY BareFields
  <1>3. k = LocateInOffsets(dict, w)
    BY LocateBare
  <1>4. w \in Lemmas
    BY SyncTypes
  <1> HIDE DEF b
  <1>5. Indexed(b.block, b.index) /\ Unsearched(b) /\ Single(b.block, b.index)
    BY <1>1, KeptIndexed DEF Exact
  <1>6. ~b.index[j].rm /\ LemmaAt(b.block, b.index, j) = w /\ j \in 1..Len(b.index)
    BY <1>2 DEF LemmaAt
  <1> HIDE DEF w
  <1>7. {m \in 1..Len(b.index) : ~b.index[m].rm /\ LemmaAt(b.block, b.index, m) = w} = {k}
    BY <1>4, <1>5, <1>6, LocateOnly
  <1> HIDE DEF k
  <1>8. j = k
    BY <1>6, <1>7
  <1> QED BY <1>3, <1>8 DEF w

(* get_lemmas passes over no entry that can be sent: what can be sent of as
   many entries as it counted has been handed out. *)
LEMMA GotHanded ==
    ASSUME NEW dict, NEW f, SyncOK(dict, f), NEW size \in Nat, NEW stale
    PROVE  LET got == FirstN(Uploadable(dict, stale), size)
           IN  /\ Cardinality(got) \in Nat
               /\ Handed(dict, Cardinality(got), {dict.syncs[i] : i \in got})
  <1> DEFINE U   == Uploadable(dict, stale)
             got == FirstN(U, size)
             m   == Len(dict.syncs)
  <1>1. m \in Nat
    BY DEF SyncOK
  <1>2. U \in SUBSET (1..m)
    BY DEF Uploadable
  <1>3. ASSUME NEW i \in 1..m, Sendable(dict, dict.syncs[i]) PROVE i \in U
    <2> DEFINE slot == dict.syncs[i]
               k    == LocateInOffsets(dict, dict.block[slot])
    <2>1. PICK j \in 1..Len(dict.index) :
              /\ dict.index[j].off = slot
              /\ ~dict.index[j].rm
              /\ ExtractFreq(dict.index[j].score) # 0
      BY <1>3 DEF Sendable
    <2>2. /\ dict.index[j].off \in 1..Len(dict.index) /\ Len(dict.block) = Len(dict.index)
          /\ Len(dict.index) \in Nat
      BY SyncTypes
    <2>3. ~(slot > Len(dict.block))
      BY <2>1, <2>2
    <2>4. k = j /\ j # 0
      BY <2>1, <2>2, FoundEntry
    <2> HIDE DEF m, k
    <2>5. k # 0 /\ ExtractFreq(dict.index[k].score) # 0
      BY <2>1, <2>4
    <2> QED BY <2>3, <2>5 DEF Uploadable, m, k
  <1> HIDE DEF U
  <1>4. Cardinality(got) \in Nat /\ \A i \in U : i <= Cardinality(got) => i \in got
    BY <1>1, <1>2, FirstNTakes
  <1>5. Handed(dict, Cardinality(got), {dict.syncs[i] : i \in got})
    <2> HIDE DEF got
    <2> QED BY <1>3, <1>4 DEF Handed
  <1> QED BY <1>4, <1>5 DEF U

-----------------------------------------------------------------------------
(* What the steps do to the queue.  Slots keep their lemmas and the queue its
   entries while lemmas are appended. *)
Grown(old, new) ==
    /\ \A s \in 1..Len(old.block) : s \in 1..Len(new.block) /\ new.block[s] = old.block[s]
    /\ \A i \in 1..Len(old.syncs) : \E j \in 1..Len(new.syncs) : new.syncs[j] = old.syncs[i]

LEMMA GrownKeeps ==
    ASSUME NEW old, NEW new, Grown(old, new)
    PROVE  QueuedLemmas(old) \subseteq QueuedLemmas(new)
  <1> SUFFICES ASSUME NEW w \in QueuedLemmas(old) PROVE w \in QueuedLemmas(new)
    OBVIOUS
  <1>1. PICK i \in 1..Len(old.syncs) :
            old.syncs[i] \in 1..Len(old.block) /\ old.block[old.syncs[i]] = w
    BY DEF QueuedLemmas, LemmasAt, Queued
  <1>2. PICK j \in 1..Len(new.syncs) : new.syncs[j] = old.syncs[i]
    BY DEF Grown
  <1>3. new.syncs[j] \in 1..Len(new.block) /\ new.block[new.syncs[j]] = w
    BY <1>1, <1>2 DEF Grown
  <1> QED BY <1>3 DEF QueuedLemmas, LemmasAt, Queued

LEMMA GrownSame ==
    ASSUME NEW old, NEW new, new.block = old.block, new.syncs = old.syncs
    PROVE  Grown(old, new)
  BY DEF Grown

(* A new score touches neither. *)
LEMMA ScoredQueue ==
    ASSUME NEW dict, NEW f, SyncOK(dict, f), NEW k \in 1..Len(dict.index), NEW score
    PROVE  LET r == Scored(dict, k, score)
           IN  SameLemmas(r, dict) /\ r.syncs = dict.syncs /\ r.state # SYNC
  <1> DEFINE b  == Bare(dict)
             g  == BareFile(f)
             r  == Scored(dict, k, score)
             rb == Scored(b, k, score)
  <1>1. Whole(dict) /\ Good(b, g)
    BY DEF SyncOK, Exact, Kept
  <1>2. /\ b.index = dict.index /\ b.block = dict.block
        /\ Bare(r).index = r.index /\ Bare(r).block = r.block /\ Bare(r).state = r.state
    BY BareFields
  <1>3. Bare(r) = rb /\ r.syncs = dict.syncs
    BY <1>1, ScoredBare
  <1>4. /\ rb.block = b.block /\ Len(rb.index) = Len(b.index)
        /\ \A j \in 1..Len(b.index) :
              rb.index[j].off = b.index[j].off /\ rb.index[j].rm = b.index[j].rm
    <2>1. k \in 1..Len(b.index)
      BY <1>2
    <2> HIDE DEF b, g
    <2>2. LET x == Scored(b, k, score)
          IN  /\ x.block = b.block /\ Len(x.index) = Len(b.index)
              /\ \A j \in 1..Len(b.index) :
                    x.index[j].off = b.index[j].off /\ x.index[j].rm = b.index[j].rm
      BY <1>1, <2>1, ScoreFields
    <2> QED BY <2>2
  <1>5. rb.state # SYNC
    <2>1. rb.state = Dirty(b, SCORE_DIRTY)
      BY DEF Scored, Bare
    <2> HIDE DEF b, rb
    <2> QED BY <2>1 DEF Dirty
  <1> HIDE DEF b, g, r, rb
  <1> QED BY <1>2, <1>3, <1>4, <1>5, Zenon DEF SameLemmas, r

(* append_a_lemma. *)
LEMMA AppendQueue ==
    ASSUME NEW dict, NEW f, SyncOK(dict, f), NEW w, NEW score
    PROVE  LET r == AppendALemma(dict, w, score)
           IN  /\ Whole(r) /\ r.state # SYNC /\ r.syncs = dict.syncs
               /\ Grown(dict, r)
  <1> DEFINE b  == Bare(dict)
             r  == AppendALemma(dict, w, score)
             rb == AppendALemma(b, w, score)
  <1>1. Whole(dict) /\ dict.block \in Seq(Lemmas) /\ Len(dict.block) \in Nat
    BY SyncTypes DEF SyncOK
  <1>2. Bare(r).state = r.state
    BY BareFields
  <1>3. Whole(r) /\ Bare(r) = rb /\ r.syncs = dict.syncs /\ r.block = Append(dict.block, w)
    BY <1>1, AppendBare
  <1>4. rb.state # SYNC
    <2>1. rb.state = Dirty(b, LEMMA_DIRTY)
      BY DEF AppendALemma, CacheInit, Bare
    <2> HIDE DEF b, rb
    <2> QED BY <2>1 DEF Dirty
  <1> HIDE DEF b, r, rb
  <1>5. \A s \in 1..Len(dict.block) : s \in 1..Len(r.block) /\ r.block[s] = dict.block[s]
    BY <1>1, <1>3, Z3
  <1>6. Grown(dict, r)
    BY <1>3, <1>5 DEF Grown
  <1> QED BY <1>2, <1>3, <1>4, <1>6 DEF r

(* It brings one lemma into use. *)
LEMMA AppendInUse ==
    ASSUME NEW dict, NEW f, SyncOK(dict, f), dict.left # 0, NEW w \in Lemmas, NEW score \in Score
    PROVE  LemmasInUse(AppendALemma(dict, w, score)) \subseteq LemmasInUse(dict) \cup {w}
  <1> DEFINE b  == Bare(dict)
             g  == BareFile(f)
             r  == AppendALemma(dict, w, score)
             rb == AppendALemma(b, w, score)
             n  == Len(dict.index)
             e  == [off |-> n + 1, rm |-> FALSE, score |-> score, id |-> n + 1]
  <1>1. Whole(dict) /\ Good(b, g)
    BY DEF SyncOK, Exact, Kept
  <1>2. /\ b.index = dict.index /\ b.block = dict.block /\ b.left = dict.left
        /\ Bare(r).index = r.index /\ Bare(r).block = r.block
    BY BareFields
  <1>3. Bare(r) = rb
    BY <1>1, AppendBare
  <1>4. /\ rb.block[n + 1] = w /\ \A i \in 1..n : rb.block[i] = b.block[i]
        /\ \E p : Placed(rb.index, b.index, p, e)
    <2>1. LET q == AppendALemma(b, w, score)
              m == Len(b.index)
          IN  /\ q.block[m + 1] = w /\ \A i \in 1..m : q.block[i] = b.block[i]
              /\ Placed(q.index, b.index, InsertPosition(q.block, b.index, w),
                        [off |-> m + 1, rm |-> FALSE, score |-> score, id |-> m + 1])
      <3>1. b.left # 0
        BY <1>2
      <3>2. LET q == AppendALemma(b, w, score)
                m == Len(b.index)
            IN  Placed(q.index, b.index, InsertPosition(q.block, b.index, w),
                       [off |-> m + 1, rm |-> FALSE, score |-> score, id |-> m + 1])
        <4> HIDE DEF b, g, r, n
        <4> QED BY <1>1, <3>1, AppendPlaces, Zenon
      <3>3. LET q == AppendALemma(b, w, score)
                m == Len(b.index)
            IN  q.block[m + 1] = w /\ \A i \in 1..m : q.block[i] = b.block[i]
        <4> HIDE DEF b, g, r, n
        <4> QED BY <1>1, <3>1, AppendPlaces, Zenon
      <3> QED BY <3>2, <3>3
    <2>2. Len(b.index) = n
      BY <1>2
    <2> HIDE DEF b, n
    <2> QED BY <2>1, <2>2, Zenon
  <1>5. /\ n \in Nat /\ Len(dict.block) = n /\ \A k \in 1..n : dict.index[k].off \in 1..n
    BY SyncTypes
  <1>6. e.off = n + 1
    OBVIOUS
  <1> HIDE DEF b, g, r, rb, n, e
  <1>7. PICK p : Placed(r.index, dict.index, p, e)
    BY <1>2, <1>3, <1>4, Zenon
  <1>8. /\ Len(r.index) = n + 1
        /\ \A k \in 1..n + 1 : r.index[k] = e \/ \E j \in 1..n : r.index[k] = dict.index[j]
    <2>1. /\ p \in 1..n + 1 /\ Len(r.index) = n + 1 /\ r.index[p] = e
          /\ \A j \in 1..p - 1 : r.index[j] = dict.index[j]
          /\ \A j \in p + 1..n + 1 : r.index[j] = dict.index[j - 1]
      BY <1>7 DEF Placed, n
    <2>2. ASSUME NEW k \in 1..n + 1
          PROVE  r.index[k] = e \/ \E j \in 1..n : r.index[k] = dict.index[j]
      <3>1. CASE k = p
        BY <2>1, <3>1
      <3>2. CASE k < p
        <4>1. k \in 1..p - 1 /\ k \in 1..n
          BY <1>5, <2>1, <3>2
        <4> QED BY <2>1, <4>1
      <3>3. CASE k > p
        <4>1. k \in p + 1..n + 1 /\ k - 1 \in 1..n
          BY <1>5, <2>1, <3>3
        <4> QED BY <2>1, <4>1
      <3>4. k = p \/ k < p \/ k > p
        BY <1>5, <2>1
      <3> QED BY <3>1, <3>2, <3>3, <3>4
    <2> QED BY <2>1, <2>2
  <1>9. Len(r.block) = n + 1 /\ r.block[n + 1] = w /\ \A i \in 1..n : r.block[i] = dict.block[i]
    <2>1. r.block = Append(dict.block, w) /\ dict.block \in Seq(Lemmas)
      BY <1>1, AppendBare, SyncTypes DEF r
    <2>2. Len(r.block) = n + 1
      BY <1>5, <2>1
    <2> QED BY <1>2, <1>3, <1>4, <2>2
  <1>10. Slotted(r)
    <2> SUFFICES ASSUME NEW k \in 1..Len(r.index) PROVE r.index[k].off \in 1..Len(r.block)
      BY DEF Slotted
    <2>1. \A s \in 1..n : s \in 1..n + 1
      BY <1>5
    <2>2. n + 1 \in 1..n + 1
      BY <1>5
    <2>3. CASE r.index[k] = e
      BY <1>6, <1>9, <2>2, <2>3
    <2>4. ASSUME NEW j \in 1..n, r.index[k] = dict.index[j] PROVE r.index[k].off \in 1..Len(r.block)
      BY <1>5, <1>9, <2>1, <2>4
    <2> QED BY <1>8, <2>3, <2>4
  <1>11. ASSUME NEW v \in LemmasInUse(r) PROVE v \in LemmasInUse(dict) \/ v = w
    <2>1. PICK k \in 1..Len(r.index) : ~r.index[k].rm /\ r.block[r.index[k].off] = v
      BY <1>10, InUseIs
    <2>2. CASE r.index[k] = e
      BY <1>6, <1>9, <2>1, <2>2
    <2>3. ASSUME NEW j \in 1..n, r.index[k] = dict.index[j] PROVE v \in LemmasInUse(dict)
      <3>1. ~dict.index[j].rm /\ dict.block[dict.index[j].off] = v
        BY <1>5, <1>9, <2>1, <2>3
      <3>2. Slotted(dict)
        BY SyncSlotted
      <3> QED BY <3>1, <3>2, InUseIs DEF n
    <2> QED BY <1>8, <2>1, <2>2, <2>3
  <1> QED BY <1>11 DEF r

(* _put_lemma, as the input method calls it, and update_lemma: the queue only
   grows. *)
LEMMA QueueGrows ==
    ASSUME NEW dict, Whole(dict), dict.syncs \in Seq(Nat), NEW id
    PROVE  LET r == QueueLemmaForSync(dict, id)
           IN  /\ Grown(dict, r) /\ r.block = dict.block /\ r.index = dict.index
               /\ r.state = dict.state
               /\ r.syncs = Append(dict.syncs, dict.by_id[id])
  <1> DEFINE syncs == Append(dict.syncs, dict.by_id[id])
             r     == QueueLemmaForSync(dict, id)
  <1>1. r = [dict EXCEPT !.syncs = syncs]
    BY Zenon DEF QueueLemmaForSync
  <1>2. \A i \in 1..Len(dict.syncs) : i \in 1..Len(syncs) /\ syncs[i] = dict.syncs[i]
    BY Z3
  <1> HIDE DEF r, syncs
  <1>3. Bare(r) = Bare(dict) /\ r.syncs = syncs
    BY <1>1, QueueOnlyBare
  <1>4. r.block = dict.block /\ r.index = dict.index /\ r.state = dict.state
    BY <1>3, BareFields
  <1>5. Grown(dict, r)
    BY <1>2, <1>3, <1>4 DEF Grown
  <1> QED BY <1>3, <1>4, <1>5 DEF r, syncs

LEMMA PutQueue ==
    ASSUME NEW dict, NEW f, SyncOK(dict, f), QueueSaved(dict, f), NEW w, NEW count, NEW week
    PROVE  LET r == PutLemma(dict, f, w, count, week)
           IN  QueueSaved(r.d, r.file) /\ QueuedLemmas(dict) \subseteq QueuedLemmas(r.d)
  <1> DEFINE k     == LocateInOffsets(dict, w)
             score == BuildScore(week, count)
             room  == IF NoRoom(dict) THEN FlushCache(dict, f, dict.syncs)
                                       ELSE [d |-> dict, file |-> f]
             added == AppendALemma(room.d, w, score)
             id    == Len(added.index)
             last  == QueueLemmaForSync(added, id)
             r     == PutLemma(dict, f, w, count, week)
  <1>1. k \in 0..Len(dict.index) /\ Len(dict.index) \in Nat
    BY SyncTypes, FoundSync
  <1>2. dict.syncs \in Seq(Nat)
    BY DEF SyncOK
  <1>3. \/ k # 0 /\ r = [d |-> Scored(dict, k, score), file |-> f]
        \/ r = [d |-> dict, file |-> f]
        \/ r = [d |-> last, file |-> room.file]
    BY Zenon DEF PutLemma, Scored
  <1> HIDE DEF k, score, r, last
  <1>4. CASE k # 0 /\ r = [d |-> Scored(dict, k, score), file |-> f]
    <2>1. k \in 1..Len(dict.index)
      BY <1>1, <1>4
    <2> DEFINE x == Scored(dict, k, score)
    <2>2. x.block = dict.block /\ x.syncs = dict.syncs /\ x.state # SYNC
      BY <2>1, ScoredQueue DEF SameLemmas
    <2> HIDE DEF x
    <2>3. r.d = x /\ r.file = f
      BY <1>4 DEF x
    <2>4. QueuedLemmas(dict) \subseteq QueuedLemmas(x)
      BY <2>2, GrownSame, GrownKeeps
    <2> QED BY <2>2, <2>3, <2>4 DEF QueueSaved, r
  <1>5. CASE r = [d |-> dict, file |-> f]
    BY <1>5 DEF r
  <1>6. CASE r = [d |-> last, file |-> room.file]
    <2>1. /\ SyncOK(room.d, room.file)
          /\ room.d.block = dict.block /\ room.d.syncs = dict.syncs
      <3>1. CASE NoRoom(dict)
        <4>1. room = FlushCache(dict, f, dict.syncs)
          BY <3>1
        <4> HIDE DEF room
        <4> QED BY <1>2, <4>1, FlushSync, FlushPasses DEF SameLemmas
      <3>2. CASE ~NoRoom(dict)
        BY <3>2
      <3> QED BY <3>1, <3>2
    <2> HIDE DEF room
    <2>2. Whole(added) /\ added.state # SYNC /\ added.syncs = room.d.syncs /\ Grown(room.d, added)
      BY <2>1, AppendQueue
    <2>3. added.syncs \in Seq(Nat)
      BY <1>2, <2>1, <2>2
    <2> HIDE DEF added, id
    <2>4. Grown(added, last) /\ last.state = added.state
      BY <2>2, <2>3, QueueGrows DEF last
    <2>5. Grown(dict, room.d)
      BY <2>1, GrownSame
    <2>6. QueuedLemmas(dict) \subseteq QueuedLemmas(last)
      BY <2>2, <2>4, <2>5, GrownKeeps
    <2>7. r.d = last
      BY <1>6
    <2> QED BY <2>2, <2>4, <2>6, <2>7 DEF QueueSaved, r
  <1> QED BY <1>3, <1>4, <1>5, <1>6

LEMMA UpdateQueue ==
    ASSUME NEW dict, NEW f, SyncOK(dict, f), QueueSaved(dict, f), NEW id, NEW week
    PROVE  LET r == UpdateLemma(dict, id, 1, TRUE, week)
           IN  QueueSaved(r, f) /\ QueuedLemmas(dict) \subseteq QueuedLemmas(r)
  <1> DEFINE k     == LocateInOffsets(dict, dict.block[dict.by_id[id]])
             score == BuildScore(week, UpdatedCount(ExtractFreq(dict.index[k].score), 1))
             s     == Scored(dict, k, score)
             r     == UpdateLemma(dict, id, 1, TRUE, week)
  <1>1. k \in 0..Len(dict.index) /\ Len(dict.index) \in Nat
    BY SyncTypes, FoundSync
  <1>2. Whole(dict) /\ dict.syncs \in Seq(Nat)
    BY DEF SyncOK
  <1> HIDE DEF k
  <1>3. CASE k = 0
    BY <1>3 DEF UpdateLemma, k
  <1>4. CASE k # 0
    <2>1. k \in 1..Len(dict.index)
      BY <1>1, <1>4
    <2>2. r = QueueLemmaForSync(s, dict.index[k].id)
      BY <1>4 DEF UpdateLemma, Scored, k
    <2> HIDE DEF score, r
    <2>3. Whole(s) /\ s.block = dict.block /\ s.syncs = dict.syncs /\ s.state # SYNC
      BY <1>2, <2>1, ScoredBare, ScoredQueue DEF SameLemmas
    <2> HIDE DEF s
    <2>4. Grown(s, r) /\ r.state = s.state
      BY <1>2, <2>2, <2>3, QueueGrows
    <2>5. QueuedLemmas(dict) \subseteq QueuedLemmas(r)
      BY <2>3, <2>4, GrownSame, GrownKeeps
    <2> QED BY <2>3, <2>4, <2>5 DEF QueueSaved, r
  <1> QED BY <1>3, <1>4

(* One try of put_lemma_no_sync. *)
LEMMA PutOnceQueue ==
    ASSUME NEW dict, NEW f, SyncOK(dict, f), QueueSaved(dict, f), NEW w \in Lemmas,
           NEW count \in Nat, NEW week \in Nat, NEW junk \in Nat
    PROVE  LET r == PutOnce(dict, f, w, count, week, junk)
           IN  /\ QueueSaved(r.d, r.file)
               /\ ~NoRoom(dict) => Due(dict) \subseteq QueuedLemmas(r.d)
               /\ \A v \in Due(dict) : v \in QueuedLemmas(r.d) \/ v \notin LemmasInUse(r.d)
               /\ LemmasInUse(r.d) \subseteq LemmasInUse(dict) \cup {w}
               /\ ~r.done => r.d = dict /\ r.file = f /\ w \notin LemmasInUse(dict)
  <1> DEFINE k      == LocateInOffsets(dict, w)
             score  == BuildScore(week, count)
             none   == <<>>
             flush  == FlushCache(dict, f, none)
             fresh  == AppendALemma(flush.d, w, score)
             added  == AppendALemma(dict, w, score)
             queued == QueueLemmaForSync(fresh, Len(fresh.index))
             syncs  == [i \in 1..Len(queued.syncs) |->
                           IF i <= Len(dict.syncs) THEN dict.syncs[i] ELSE junk]
             last   == [queued EXCEPT !.syncs = syncs]
             r      == PutOnce(dict, f, w, count, week, junk)
             Goal(x, g, done) ==
                 /\ QueueSaved(x, g)
                 /\ ~NoRoom(dict) => Due(dict) \subseteq QueuedLemmas(x)
                 /\ \A v \in Due(dict) : v \in QueuedLemmas(x) \/ v \notin LemmasInUse(x)
                 /\ LemmasInUse(x) \subseteq LemmasInUse(dict) \cup {w}
                 /\ ~done => x = dict /\ g = f /\ w \notin LemmasInUse(dict)
  <1>1. score \in Score
    BY BuildScoreFits
  <1>2. /\ Len(dict.index) \in Nat /\ dict.left \in 0..PreAlloc
        /\ k \in 0..Len(dict.index)
        /\ k = 0 => \A m \in 1..Len(dict.index) :
                        ~dict.index[m].rm => dict.block[dict.index[m].off] # w
    BY SyncTypes, FoundSync
  <1>3. Whole(dict) /\ dict.syncs \in Seq(Nat) /\ none \in Seq(Nat) /\ Slotted(dict)
    BY SyncSlotted DEF SyncOK
  <1>4. k = 0 => w \notin LemmasInUse(dict)
    BY <1>2, <1>3, InUseIs
  <1>5. Due(dict) \subseteq LemmasInUse(dict) /\ Due(dict) \subseteq QueuedLemmas(dict)
    BY <1>3, DueInUse
  <1>6. \/ k # 0 /\ r = [d |-> Scored(dict, k, score), file |-> f, done |-> TRUE]
        \/ k = 0 /\ r = [d |-> dict, file |-> f, done |-> FALSE]
        \/ k = 0 /\ dict.left > 0 /\ r = [d |-> added, file |-> f, done |-> TRUE]
        \/ k = 0 /\ ~(dict.left > 0) /\ r = [d |-> last, file |-> flush.file, done |-> TRUE]
    BY Zenon DEF PutOnce, Scored
  <1>7. CASE k # 0 /\ r = [d |-> Scored(dict, k, score), file |-> f, done |-> TRUE]
    <2> DEFINE x == Scored(dict, k, score)
    <2>1. k \in 1..Len(dict.index)
      BY <1>2, <1>7
    <2>2. SameLemmas(x, dict) /\ x.syncs = dict.syncs /\ x.state # SYNC
      <3> HIDE DEF k, score
      <3> QED BY <2>1, ScoredQueue
    <2> HIDE DEF x
    <2>3. Passes(dict, x)
      BY <1>3, <2>2, SamePasses
    <2>4. QueuedLemmas(dict) \subseteq QueuedLemmas(x)
      BY <2>2, GrownSame, GrownKeeps DEF SameLemmas
    <2>5. Goal(x, f, TRUE)
      BY <1>5, <2>2, <2>3, <2>4 DEF Passes, QueueSaved
    <2> HIDE DEF Goal, r, k, score
    <2>6. r.d = x /\ r.file = f /\ r.done
      BY <1>7 DEF x
    <2>7. Goal(r.d, r.file, r.done)
      BY <2>5, <2>6
    <2> QED BY <2>7 DEF Goal, r
  <1>8. CASE k = 0 /\ r = [d |-> dict, file |-> f, done |-> FALSE]
    <2>1. Goal(dict, f, FALSE)
      BY <1>4, <1>5, <1>8
    <2> HIDE DEF Goal, r, k
    <2>2. r.d = dict /\ r.file = f /\ r.done = FALSE
      BY <1>8
    <2>3. Goal(r.d, r.file, r.done)
      BY <2>1, <2>2
    <2> QED BY <2>3 DEF Goal, r
  <1>9. CASE k = 0 /\ dict.left > 0 /\ r = [d |-> added, file |-> f, done |-> TRUE]
    <2>1. added.state # SYNC /\ Grown(dict, added)
      BY AppendQueue
    <2>2. LemmasInUse(added) \subseteq LemmasInUse(dict) \cup {w}
      <3>1. dict.left # 0
        BY <1>2, <1>9
      <3> HIDE DEF score
      <3> QED BY <1>1, <3>1, AppendInUse
    <2> HIDE DEF added
    <2>3. QueuedLemmas(dict) \subseteq QueuedLemmas(added)
      BY <2>1, GrownKeeps
    <2>4. Goal(added, f, TRUE)
      BY <1>5, <2>1, <2>2, <2>3 DEF QueueSaved
    <2> HIDE DEF Goal, r, k
    <2>5. r.d = added /\ r.file = f /\ r.done
      BY <1>9
    <2>6. Goal(r.d, r.file, r.done)
      BY <2>4, <2>5
    <2> QED BY <2>6 DEF Goal, r
  <1>10. CASE k = 0 /\ ~(dict.left > 0) /\ r = [d |-> last, file |-> flush.file, done |-> TRUE]
    <2>1. /\ SyncOK(flush.d, flush.file) /\ flush.d.left # 0
      BY <1>3, FlushSync
    <2>2. \/ Len(flush.d.index) = 0
          \/ /\ SameLemmas(flush.d, dict)
             /\ flush.d.syncs = dict.syncs \/ Len(dict.syncs) = 0
      <3>1. Len(none) = 0
        OBVIOUS
      <3> HIDE DEF none
      <3> QED BY <1>3, <3>1, FlushedQueue
    <2> HIDE DEF flush, score
    <2>3. Whole(fresh) /\ fresh.state # SYNC /\ fresh.syncs = flush.d.syncs /\ Grown(flush.d, fresh)
      BY <2>1, AppendQueue
    <2>4. LemmasInUse(fresh) \subseteq LemmasInUse(flush.d) \cup {w}
      BY <1>1, <2>1, AppendInUse
    <2>5. fresh.syncs \in Seq(Nat)
      BY <2>1, <2>3 DEF SyncOK
    <2> HIDE DEF fresh
    <2>6. /\ queued.block = fresh.block /\ queued.index = fresh.index /\ queued.state = fresh.state
          /\ queued.syncs = Append(fresh.syncs, fresh.by_id[Len(fresh.index)])
      BY <2>3, <2>5, QueueGrows
    <2>7. Whole(queued)
      <3> DEFINE s == Append(fresh.syncs, fresh.by_id[Len(fresh.index)])
      <3>1. queued = [fresh EXCEPT !.syncs = s]
        BY Zenon DEF QueueLemmaForSync
      <3> HIDE DEF s, queued
      <3> QED BY <2>3, <3>1, QueueOnlyBare
    <2>8. Len(queued.syncs) = Len(fresh.syncs) + 1
      BY <2>5, <2>6, Z3
    <2> HIDE DEF queued, syncs
    <2>9. Bare(last) = Bare(queued) /\ last.syncs = syncs
      BY <2>7, QueueOnlyBare
    <2> HIDE DEF last
    <2>10. last.block = fresh.block /\ last.index = fresh.index /\ last.state = fresh.state
      BY <2>6, <2>9, BareFields
    <2>11. LemmasInUse(last) = LemmasInUse(fresh)
      BY <2>10 DEF LemmasInUse, LiveSlot, LemmasAt
    <2>12. LemmasInUse(last) \subseteq LemmasInUse(dict) \cup {w}
           /\ \A v \in Due(dict) : v \in QueuedLemmas(last) \/ v \notin LemmasInUse(last)
      <3>1. CASE Len(flush.d.index) = 0
        <4>1. LemmasInUse(last) \subseteq {w}
          BY <2>4, <2>11, <3>1, EmptyPasses
        <4>2. w \notin Due(dict)
          BY <1>4, <1>5, <1>10
        <4> QED BY <4>1, <4>2
      <3>2. CASE SameLemmas(flush.d, dict) /\ (flush.d.syncs = dict.syncs \/ Len(dict.syncs) = 0)
        <4>1. LemmasInUse(flush.d) \subseteq LemmasInUse(dict)
          <5>1. Slotted(flush.d)
            BY <2>1, SyncSlotted
          <5>2. \A v : v \in LemmasInUse(flush.d) => v \in LemmasInUse(dict)
            BY <1>3, <3>2, <5>1, InUseIs DEF SameLemmas
          <5> QED BY <5>2
        <4>2. \A i \in 1..Len(dict.syncs) : \E j \in 1..Len(last.syncs) : last.syncs[j] = dict.syncs[i]
          <5>1. CASE Len(dict.syncs) = 0
            BY <5>1
          <5>2. CASE flush.d.syncs = dict.syncs
            <6>1. Len(queued.syncs) = Len(dict.syncs) + 1 /\ Len(dict.syncs) \in Nat
              BY <1>3, <2>3, <2>8, <5>2
            <6>2. Len(syncs) = Len(queued.syncs)
                  /\ \A i \in 1..Len(dict.syncs) : syncs[i] = dict.syncs[i]
              BY <6>1 DEF syncs
            <6>3. \A i \in 1..Len(dict.syncs) : i \in 1..Len(syncs)
              BY <6>1, <6>2
            <6> QED BY <2>9, <6>2, <6>3
          <5> QED BY <3>2, <5>1, <5>2
        <4>3. Grown(dict, last)
          BY <2>3, <2>10, <3>2, <4>2 DEF Grown, SameLemmas
        <4>4. QueuedLemmas(dict) \subseteq QueuedLemmas(last)
          BY <4>3, GrownKeeps
        <4> QED BY <1>5, <2>4, <2>11, <4>1, <4>4
      <3> QED BY <2>2, <3>1, <3>2
    <2>13. NoRoom(dict)
      <3>1. dict.left = 0
        BY <1>2, <1>10
      <3> QED BY <3>1 DEF NoRoom
    <2>14. Goal(last, flush.file, TRUE)
      BY <2>3, <2>10, <2>12, <2>13 DEF QueueSaved
    <2> HIDE DEF Goal, r, k
    <2>15. r.d = last /\ r.file = flush.file /\ r.done
      BY <1>10
    <2>16. Goal(r.d, r.file, r.done)
      BY <2>14, <2>15
    <2> QED BY <2>16 DEF Goal, r
  <1> HIDE DEF k, score, flush, fresh, added, queued, syncs, last, r, none
  <1> QED BY <1>6, <1>7, <1>8, <1>9, <1>10

(* put_lemma_no_sync.  What is due stays queued below the limit while there is
   room; otherwise it may only leave together with the lemma. *)
LEMMA PutNoSyncQueue ==
    ASSUME NEW dict, NEW f, SyncOK(dict, f), QueueSaved(dict, f), NEW w \in Lemmas,
           NEW count \in Nat, NEW week \in Nat,
           NEW r \in PutLemmaNoSync(dict, f, w, count, week)
    PROVE  /\ QueueSaved(r.d, r.file)
           /\ ~NoRoom(dict) /\ ~LimitReached(dict) => Due(dict) \subseteq QueuedLemmas(r.d)
           /\ \A v \in Due(dict) : v \in QueuedLemmas(r.d) \/ v \notin LemmasInUse(r.d)
  <1> DEFINE try(o) == {PutOnce(o.d, o.file, w, count, week, junk) : junk \in JunkSlots}
             start == [d |-> dict, file |-> f]
             all(once) == IF once.done \/ ~LimitReached(once.d) THEN {once}
                          ELSE UNION {try(room) : room \in MadeRoom(once.d, once.file)}
             Tried(a, g, x) ==
                 /\ QueueSaved(x.d, x.file)
                 /\ ~NoRoom(a) => Due(a) \subseteq QueuedLemmas(x.d)
                 /\ \A v \in Due(a) : v \in QueuedLemmas(x.d) \/ v \notin LemmasInUse(x.d)
                 /\ LemmasInUse(x.d) \subseteq LemmasInUse(a) \cup {w}
                 /\ ~x.done => x.d = a /\ x.file = g /\ w \notin LemmasInUse(a)
  <1>1. PutLemmaNoSync(dict, f, w, count, week) = UNION {all(once) : once \in try(start)}
    BY DEF PutLemmaNoSync
  <1>2. ASSUME NEW a, NEW g, SyncOK(a, g), QueueSaved(a, g), NEW x,
               \E junk \in JunkSlots : x = PutOnce(a, g, w, count, week, junk)
        PROVE  Tried(a, g, x)
    <2>1. PICK junk \in JunkSlots : x = PutOnce(a, g, w, count, week, junk)
      BY <1>2
    <2>2. junk \in Nat
      BY SyncAssumption
    <2> DEFINE y == PutOnce(a, g, w, count, week, junk)
    <2>3. Tried(a, g, y)
      BY <1>2, <2>2, PutOnceQueue
    <2> HIDE DEF Tried
    <2> QED BY <2>1, <2>3
  <1>3. start.d = dict /\ start.file = f
    OBVIOUS
  <1> HIDE DEF start, all
  <1>4. PICK once \in try(start) : r \in all(once)
    BY <1>1
  <1>5. \/ r = once
        \/ /\ ~once.done /\ LimitReached(once.d)
           /\ r \in UNION {try(room) : room \in MadeRoom(once.d, once.file)}
    BY <1>4 DEF all
  <1>6. Tried(dict, f, once)
    <2>1. \E junk \in JunkSlots : once = PutOnce(dict, f, w, count, week, junk)
      BY <1>3, <1>4
    <2> HIDE DEF Tried
    <2> QED BY <1>2, <2>1
  <1> HIDE DEF try
  <1>7. CASE ~once.done /\ LimitReached(once.d)
             /\ r \in UNION {try(room) : room \in MadeRoom(once.d, once.file)}
    <2>1. once.d = dict /\ once.file = f /\ w \notin LemmasInUse(dict) /\ LimitReached(dict)
      BY <1>6, <1>7
    <2>2. PICK room \in MadeRoom(dict, f) : r \in try(room)
      BY <1>7, <2>1
    <2>3. SyncOK(room.d, room.file) /\ QueueSaved(room.d, room.file) /\ Passes(dict, room.d)
      BY MadeRoomSync, MadeRoomPasses
    <2>4. Tried(room.d, room.file, r)
      <3>1. \E junk \in JunkSlots : r = PutOnce(room.d, room.file, w, count, week, junk)
        BY <2>2 DEF try
      <3> HIDE DEF Tried
      <3> QED BY <1>2, <2>3, <3>1
    <2>5. Due(dict) \subseteq LemmasInUse(dict)
      BY SyncSlotted, DueInUse
    <2>6. ASSUME NEW v \in Due(dict) PROVE v \in QueuedLemmas(r.d) \/ v \notin LemmasInUse(r.d)
      <3>1. v # w
        BY <2>1, <2>5
      <3>2. v \in Due(room.d) \/ v \notin LemmasInUse(room.d)
        BY <2>3 DEF Passes
      <3> QED BY <2>4, <3>1, <3>2
    <2> QED BY <2>1, <2>4, <2>6
  <1> QED BY <1>5, <1>6, <1>7

-----------------------------------------------------------------------------
(* The specification. *)

SyncInv ==
    /\ SyncOK(d, file)
    /\ last_got \in Nat
    /\ phase = "got" => Handed(d, last_got, sent)

THEOREM SyncInvInductive == SyncSpec => []SyncInv
  <1>1. SyncInit => SyncInv
    <2> SUFFICES ASSUME SyncInit PROVE SyncInv
      OBVIOUS
    <2>1. SyncOK(d, file) /\ last_got \in Nat /\ phase # "got"
      BY EmptySync DEF SyncInit, Init
    <2> QED BY <2>1 DEF SyncInv
  <1>2. SyncInv /\ [SyncNext]_syncVars => SyncInv'
    <2> SUFFICES ASSUME SyncInv, [SyncNext]_syncVars PROVE SyncInv'
      OBVIOUS
    <2>0. SyncOK(d, file) /\ last_got \in Nat /\ d.syncs \in Seq(Nat)
      BY DEF SyncInv, SyncOK
    <2>1. ASSUME NEW w \in Lemmas, NEW week \in Weeks, ImePut(w, week) PROVE SyncInv'
      <3>1. week \in Nat /\ 1 \in Nat
        BY SizesAssumption
      <3>2. LocateInOffsets(d, w) = 0 => Len(d.block) < MaxSlots
        BY <2>1 DEF ImePut, Put
      <3>3. SyncOK(PutLemma(d, file, w, 1, week).d, PutLemma(d, file, w, 1, week).file)
        BY <2>0, <3>1, <3>2, PutSync
      <3>4. /\ d' = PutLemma(d, file, w, 1, week).d /\ file' = PutLemma(d, file, w, 1, week).file
            /\ phase' # "got" /\ last_got' = last_got
        BY <2>1 DEF ImePut, Put
      <3> QED BY <2>0, <3>3, <3>4 DEF SyncInv
    <2>2. ASSUME NEW id \in 1..Len(d.index), NEW week \in Weeks, ImeUpdate(id, week)
          PROVE  SyncInv'
      <3>1. week \in Nat
        BY SizesAssumption
      <3>2. SyncOK(UpdateLemma(d, id, 1, TRUE, week), file)
        BY <2>0, <3>1, UpdateSync
      <3>3. /\ d' = UpdateLemma(d, id, 1, TRUE, week) /\ file' = file
            /\ phase' # "got" /\ last_got' = last_got
        BY <2>2 DEF ImeUpdate, Update
      <3> QED BY <2>0, <3>2, <3>3 DEF SyncInv
    <2>3. CASE Begin
      <3> DEFINE r == FlushCache(d, file, d.syncs)
      <3>1. SyncOK(r.d, r.file)
        BY <2>0, FlushSync
      <3>2. /\ d' = [r.d EXCEPT !.limit = SyncLimit] /\ file' = r.file
            /\ phase' # "got" /\ last_got' = last_got
        BY <2>3 DEF Begin
      <3> HIDE DEF r
      <3>3. Whole(r.d) /\ r.d.syncs \in Seq(Nat) /\ SyncLimit \in Limits
        BY <3>1 DEF SyncOK, Limits
      <3>4. /\ Whole(d') /\ Bare(d') = Bare(r.d) /\ d'.syncs = r.d.syncs /\ d'.limit = SyncLimit
        BY <3>2, <3>3, LimitOnlyBare
      <3>5. SyncOK(d', file')
        BY <3>1, <3>2, <3>3, <3>4, QueueAside
      <3> QED BY <2>0, <3>2, <3>5 DEF SyncInv
    <2>4. ASSUME NEW w \in Lemmas, NEW count \in Counts, NEW week \in Weeks,
                 Download(w, count, week)
          PROVE  SyncInv'
      <3>1. week \in Nat
        BY SizesAssumption
      <3>2. count \in Nat
        <4>1. count \in 0..MaxFrequency
          BY SyncAssumption
        <4> QED BY <4>1
      <3>3. PICK r \in PutLemmaNoSync(d, file, w, count, week) :
                Len(r.d.block) <= MaxSlots /\ d' = r.d /\ file' = r.file
        BY <2>4 DEF Download
      <3>4. phase' # "got" /\ last_got' = last_got
        BY <2>4 DEF Download
      <3>5. SyncOK(r.d, r.file)
        BY <2>0, <3>1, <3>2, <3>3, PutNoSync
      <3> QED BY <2>0, <3>3, <3>4, <3>5 DEF SyncInv
    <2>5. ASSUME NEW size \in Buffers, NEW stale, GetLemmas(size, stale) PROVE SyncInv'
      <3> DEFINE got == FirstN(Uploadable(d, stale), size)
                 n   == Cardinality(got)
                 r   == GetSyncLemmas(d, n)
      <3>1. size \in Nat
        BY SyncAssumption
      <3>2. n \in Nat /\ Handed(d, n, {d.syncs[i] : i \in got})
        BY <2>0, <3>1, GotHanded
      <3>3. d' = r /\ last_got' = n /\ sent' = {d.syncs[i] : i \in got} /\ file' = file
        BY <2>5 DEF GetLemmas
      <3> HIDE DEF n, got
      <3>4. /\ SyncOK(r, file) /\ r.syncs = d.syncs /\ r.block = d.block /\ r.index = d.index
        BY <2>0, GetLemmasSync
      <3> HIDE DEF r
      <3>5. Handed(d', last_got', sent')
        BY <3>2, <3>3, <3>4 DEF Handed, Sendable
      <3> QED BY <3>2, <3>3, <3>4, <3>5 DEF SyncInv
    <2>6. CASE ClearLastGot
      <3>1. d' = ClearSyncLemmas(d, last_got) /\ file' = file /\ last_got' = 0 /\ phase' # "got"
        BY <2>6 DEF ClearLastGot
      <3>2. SyncOK(ClearSyncLemmas(d, last_got), file)
        BY <2>0, ClearSync
      <3> QED BY <3>1, <3>2 DEF SyncInv
    <2>7. CASE Finish
      <3>1. SyncOK(FlushCache(d, file, d.syncs).d, FlushCache(d, file, d.syncs).file)
        BY <2>0, FlushSync
      <3>2. /\ d' = FlushCache(d, file, d.syncs).d /\ file' = FlushCache(d, file, d.syncs).file
            /\ phase' # "got" /\ last_got' = last_got
        BY <2>7 DEF Finish
      <3> QED BY <2>0, <3>1, <3>2 DEF SyncInv
    <2>8. CASE UNCHANGED syncVars
      BY <2>8 DEF syncVars, SyncInv
    <2> QED BY <2>1, <2>2, <2>3, <2>4, <2>5, <2>6, <2>7, <2>8 DEF SyncNext
  <1> QED BY <1>1, <1>2, PTL DEF SyncSpec

(* What clear_last_got drops of the queue: get_lemmas has handed out what is
   in use among it, although it passes entries over and clear_last_got counts
   from the front. *)
LEMMA ClearedSent ==
    ASSUME NEW dict, NEW f, SyncOK(dict, f), NEW end \in Nat, NEW given, Handed(dict, end, given),
           NEW w \in Waiting(dict)
    PROVE  LET r == ClearSyncLemmas(dict, end)
           IN  w \in QueuedLemmas(r) \/ w \in LemmasAt(dict, given)
  <1> DEFINE r == ClearSyncLemmas(dict, end)
  <1>1. r.syncs = SubSeq(dict.syncs, end + 1, Len(dict.syncs)) /\ r.block = dict.block
    <2>1. SubSeq(dict.syncs, end + 1, Len(dict.syncs)) = r.syncs
      BY ClearSync
    <2>2. Whole(dict)
      BY DEF SyncOK
    <2> QED BY <2>1, <2>2 DEF ClearSyncLemmas, Whole
  <1> HIDE DEF r
  <1>2. PICK i \in 1..Len(dict.syncs) :
            /\ dict.syncs[i] \in 1..Len(dict.block) /\ w = dict.block[dict.syncs[i]]
            /\ Sendable(dict, dict.syncs[i])
    BY DEF Waiting, LemmasAt, Queued
  <1>3. dict.syncs \in Seq(Nat) /\ Len(dict.syncs) \in Nat
    BY DEF SyncOK
  <1>4. CASE i <= end
    BY <1>2, <1>4 DEF Handed, LemmasAt
  <1>5. CASE i > end
    <2> DEFINE j == i - end
    <2>1. /\ j \in 1..(Len(dict.syncs) - end) /\ end + 1 + j - 1 = i
          /\ end + 1 <= Len(dict.syncs) + 1
      BY <1>3, <1>5
    <2>2. Len(r.syncs) = Len(dict.syncs) - end /\ r.syncs[j] = dict.syncs[i]
      <3> DEFINE q == dict.syncs
      <3>1. q \in Seq(Nat) /\ Len(q) \in Nat
        BY <1>3
      <3> HIDE DEF q, j
      <3>2. Len(SubSeq(q, end + 1, Len(q))) = Len(q) - end
            /\ SubSeq(q, end + 1, Len(q))[j] = q[end + 1 + j - 1]
        BY <2>1, <3>1 DEF q
      <3> QED BY <1>1, <2>1, <3>2 DEF q
    <2> HIDE DEF j
    <2>3. dict.syncs[i] \in Queued(r)
      BY <2>1, <2>2 DEF Queued
    <2> QED BY <1>1, <1>2, <2>3 DEF QueuedLemmas, LemmasAt, r
  <1> QED BY <1>3, <1>4, <1>5

(* get_lemmas and clear_last_got leave the object dirty or as it was. *)
LEMMA QueueDirtySaved ==
    ASSUME NEW dict, NEW f, SyncOK(dict, f), QueueSaved(dict, f), NEW n, NEW end
    PROVE  QueueSaved(GetSyncLemmas(dict, n), f) /\ QueueSaved(ClearSyncLemmas(dict, end), f)
  <1>1. Whole(dict) /\ dict.state \in SYNC..LEMMA_DIRTY
    BY SyncTypes DEF SyncOK
  <1>2. Dirty(dict, SYNC_DIRTY) # SYNC
    BY <1>1 DEF Dirty, SYNC, SYNC_DIRTY, LEMMA_DIRTY
  <1> DEFINE st == Dirty(dict, SYNC_DIRTY)
  <1> HIDE DEF st
  <1>3. [dict EXCEPT !.state = st].state = st
    BY <1>1 DEF Whole
  <1>4. ClearSyncLemmas(dict, end).state = st
    BY <1>1 DEF Whole, ClearSyncLemmas, st
  <1> QED BY <1>2, <1>3, <1>4 DEF QueueSaved, GetSyncLemmas, st

(* A dictionary in step with its file has the queue of the file, so that a
   flush writes and reads back the queue it has. *)
LEMMA QueueStep ==
    ASSUME SyncInv, QueueSaved(d, file), SyncNext
    PROVE  /\ QueueSaved(d', file')
           /\ \A w \in Waiting(d) \ QueuedLemmas(d') :
                 \/ phase = "got" /\ w \in LemmasAt(d, sent)
                 \/ phase = "put" /\ (LimitReached(d) \/ NoRoom(d)) /\ w \notin LemmasInUse(d')
  <1>1. SyncOK(d, file) /\ last_got \in Nat /\ Slotted(d)
    BY SyncSlotted DEF SyncInv
  <1>2. Waiting(d) \subseteq Due(d) /\ Due(d) \subseteq QueuedLemmas(d)
    BY <1>1, DueInUse
  <1>3. ASSUME NEW w \in Lemmas, NEW week \in Weeks, ImePut(w, week)
        PROVE  QueueSaved(d', file') /\ Waiting(d) \subseteq QueuedLemmas(d')
    <2> DEFINE r == PutLemma(d, file, w, 1, week)
    <2>1. QueueSaved(r.d, r.file) /\ QueuedLemmas(d) \subseteq QueuedLemmas(r.d)
      BY <1>1, PutQueue
    <2>2. d' = r.d /\ file' = r.file
      BY <1>3 DEF ImePut, Put
    <2> HIDE DEF r
    <2> QED BY <1>2, <2>1, <2>2
  <1>4. ASSUME NEW id \in 1..Len(d.index), NEW week \in Weeks, ImeUpdate(id, week)
        PROVE  QueueSaved(d', file') /\ Waiting(d) \subseteq QueuedLemmas(d')
    <2> DEFINE r == UpdateLemma(d, id, 1, TRUE, week)
    <2>1. QueueSaved(r, file) /\ QueuedLemmas(d) \subseteq QueuedLemmas(r)
      BY <1>1, UpdateQueue
    <2>2. d' = r /\ file' = file
      BY <1>4 DEF ImeUpdate, Update
    <2> HIDE DEF r
    <2> QED BY <1>2, <2>1, <2>2
  <1>5. CASE Begin
    <2> DEFINE r == FlushCache(d, file, d.syncs)
    <2>1. /\ QueueSaved(r.d, r.file) /\ r.d.block = d.block /\ r.d.syncs = d.syncs
          /\ SyncOK(r.d, r.file)
      <3>1. d.syncs \in Seq(Nat)
        BY <1>1 DEF SyncOK
      <3> QED BY <1>1, <3>1, FlushSync, FlushPasses DEF SameLemmas
    <2>2. d' = [r.d EXCEPT !.limit = SyncLimit] /\ file' = r.file
      BY <1>5 DEF Begin
    <2> HIDE DEF r
    <2>3. Bare(d') = Bare(r.d) /\ d'.syncs = r.d.syncs
      BY <2>1, <2>2, LimitOnlyBare DEF SyncOK
    <2>4. d'.state = r.d.state /\ d'.block = r.d.block
      BY <2>3, BareFields
    <2>5. QueuedLemmas(d) \subseteq QueuedLemmas(d')
      BY <2>1, <2>3, <2>4, GrownSame, GrownKeeps
    <2> QED BY <1>2, <2>1, <2>2, <2>3, <2>4, <2>5 DEF QueueSaved
  <1>6. ASSUME NEW w \in Lemmas, NEW count \in Counts, NEW week \in Weeks,
               Download(w, count, week)
        PROVE  /\ QueueSaved(d', file') /\ phase = "put"
               /\ ~NoRoom(d) /\ ~LimitReached(d) => Waiting(d) \subseteq QueuedLemmas(d')
               /\ \A v \in Waiting(d) : v \in QueuedLemmas(d') \/ v \notin LemmasInUse(d')
    <2>1. week \in Nat
      BY SizesAssumption
    <2>2. count \in Nat
      <3>1. count \in 0..MaxFrequency
        BY SyncAssumption
      <3> QED BY <3>1
    <2>3. PICK r \in PutLemmaNoSync(d, file, w, count, week) : d' = r.d /\ file' = r.file
      BY <1>6 DEF Download
    <2>4. phase = "put"
      BY <1>6 DEF Download
    <2>5. /\ QueueSaved(r.d, r.file)
          /\ ~NoRoom(d) /\ ~LimitReached(d) => Due(d) \subseteq QueuedLemmas(r.d)
          /\ \A v \in Due(d) : v \in QueuedLemmas(r.d) \/ v \notin LemmasInUse(r.d)
      BY <1>1, <2>1, <2>2, PutNoSyncQueue
    <2> QED BY <1>2, <2>3, <2>4, <2>5
  <1>7. ASSUME NEW size \in Buffers, NEW stale, GetLemmas(size, stale)
        PROVE  QueueSaved(d', file') /\ Waiting(d) \subseteq QueuedLemmas(d')
    <2> DEFINE n == Cardinality(FirstN(Uploadable(d, stale), size))
    <2>1. d' = GetSyncLemmas(d, n) /\ file' = file
      BY <1>7 DEF GetLemmas
    <2> HIDE DEF n
    <2>2. d'.syncs = d.syncs /\ d'.block = d.block /\ QueueSaved(d', file')
      BY <1>1, <2>1, GetLemmasSync, QueueDirtySaved
    <2>3. QueuedLemmas(d) \subseteq QueuedLemmas(d')
      BY <2>2, GrownSame, GrownKeeps
    <2> QED BY <1>2, <2>2, <2>3
  <1>8. CASE ClearLastGot
    <2>1. phase = "got" /\ d' = ClearSyncLemmas(d, last_got) /\ file' = file
      BY <1>8 DEF ClearLastGot
    <2>2. Handed(d, last_got, sent)
      BY <2>1 DEF SyncInv
    <2>3. QueueSaved(d', file')
      BY <1>1, <2>1, QueueDirtySaved
    <2>4. \A w \in Waiting(d) : w \in QueuedLemmas(d') \/ w \in LemmasAt(d, sent)
      BY <1>1, <2>1, <2>2, ClearedSent
    <2> QED BY <2>1, <2>3, <2>4
  <1>9. CASE Finish
    <2> DEFINE r == FlushCache(d, file, d.syncs)
    <2>1. QueueSaved(r.d, r.file) /\ r.d.block = d.block /\ r.d.syncs = d.syncs
      BY <1>1, FlushPasses DEF SameLemmas
    <2>2. d' = r.d /\ file' = r.file
      BY <1>9 DEF Finish
    <2> HIDE DEF r
    <2>3. QueuedLemmas(d) \subseteq QueuedLemmas(d')
      BY <2>1, <2>2, GrownSame, GrownKeeps
    <2> QED BY <1>2, <2>1, <2>2, <2>3
  <1> QED BY <1>3, <1>4, <1>5, <1>6, <1>7, <1>8, <1>9 DEF SyncNext

(* A lemma that can be sent stays queued in every step, until clear_last_got
   after it was handed out; only a download at the limit, or without room, may
   take it out, and only together with the lemma. *)
THEOREM UploadCorrect == SyncSpec => UploadedBeforeDequeued
  <1> DEFINE Saved == QueueSaved(d, file)
             Step  == \A w \in Waiting(d) \ QueuedLemmas(d') :
                         \/ phase = "got" /\ w \in LemmasAt(d, sent)
                         \/ phase = "put" /\ (LimitReached(d) \/ NoRoom(d)) /\ w \notin LemmasInUse(d')
  <1>1. SyncInit => Saved
    <2> SUFFICES ASSUME SyncInit PROVE file.syncs = d.syncs
      BY DEF QueueSaved
    <2>1. file = EmptyFile /\ d = Load(EmptyFile)
      BY DEF SyncInit, Init
    <2> DEFINE e == EmptyFile
    <2> HIDE DEF e
    <2>2. Load(e).syncs = e.syncs
      BY DEF Load
    <2> QED BY <2>1, <2>2 DEF e
  <1>2. Saved /\ UNCHANGED syncVars => Saved'
    BY DEF QueueSaved, syncVars
  <1>3. SyncInv /\ Saved /\ [SyncNext]_syncVars => Saved' /\ [Step]_syncVars
    BY <1>2, QueueStep
  <1>4. SyncSpec => []SyncInv
    BY SyncInvInductive
  <1> HIDE DEF Saved
  <1> QED BY <1>1, <1>3, <1>4, PTL DEF SyncSpec, UploadedBeforeDequeued

(* Through downloads, reclaim and defragment the prediction list stays that
   of the index: defragment takes the number of lemmas from it. *)
THEOREM SyncPredictions == SyncSpec => []PredictsMirrorOffsets
  <1>1. ASSUME SyncInv PROVE PredictsMirrorOffsets
    <2> DEFINE b == Bare(d)
    <2>1. b.preds = d.preds /\ b.index = d.index
      BY BareFields
    <2>2. SyncOK(d, file) /\ Exact(b, BareFile(file))
      BY <1>1 DEF SyncInv, SyncOK
    <2> HIDE DEF b
    <2>3. Distinct(d.preds) /\ Mirrors(d.preds, d.index)
      BY <2>1, <2>2 DEF Exact, Kept, Orderly
    <2>4. Len(d.preds) = Len(d.index) /\ \A k \in 1..Len(d.index) : d.preds[k] \in Flagged
      BY <2>2, SyncTypes
    <2> QED BY <2>3, <2>4, MirrorsSame DEF PredictsMirrorOffsets, Positions
  <1> QED BY <1>1, SyncInvInductive, PTL

(* A lemma has one entry and is found there after its slot has moved. *)
THEOREM SyncLocate == SyncSpec => []FoundOnce
  <1>1. ASSUME SyncInv PROVE FoundOnce
    <2> DEFINE b == Bare(d)
    <2>1. b.block = d.block /\ b.index = d.index
      BY BareFields
    <2>2. Exact(b, BareFile(file))
      BY <1>1 DEF SyncInv, SyncOK
    <2>3. \A w \in Lemmas : LocateInOffsets(b, w) = LocateInOffsets(d, w)
      BY LocateBare
    <2> HIDE DEF b
    <2>4. Indexed(b.block, b.index) /\ Unsearched(b) /\ Single(b.block, b.index)
      BY <2>2, KeptIndexed DEF Exact
    <2> SUFFICES ASSUME NEW w \in Lemmas
                 PROVE  LET k  == LocateInOffsets(d, w)
                            at == {j \in Positions : ~d.index[j].rm
                                                     /\ LemmaAt(d.block, d.index, j) = w}
                        IN  /\ at # {} => at = {k}
                            /\ k # 0 => /\ ~d.index[k].rm
                                        /\ Begins(LemmaAt(d.block, d.index, k), w)
      BY Zenon DEF FoundOnce
    <2> DEFINE k == LocateInOffsets(b, w)
               at == {j \in 1..Len(b.index) :
                         ~b.index[j].rm /\ LemmaAt(b.block, b.index, j) = w}
    <2>5. /\ (\E j \in 1..Len(b.index) : ~b.index[j].rm /\ LemmaAt(b.block, b.index, j) = w) =>
                 at = {k}
          /\ k # 0 => ~b.index[k].rm /\ Begins(LemmaAt(b.block, b.index, k), w)
      BY <2>4, LocateOnly
    <2>6. k = LocateInOffsets(d, w)
      BY <2>3
    <2> HIDE DEF k
    <2>7. at # {} => at = {k}
      BY <2>5
    <2> QED BY <2>1, <2>5, <2>6, <2>7 DEF Positions
  <1> QED BY <1>1, SyncInvInductive, PTL
=============================================================================
