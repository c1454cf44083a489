---------------------------- MODULE MsgQueue_proofs ----------------------------
(***************************************************************************)
(* Proofs about MsgQueue for any number of cells, timestamps and nested    *)
(* updates: the linked lists share the cells out without loss, the tail is *)
(* right where it is used, an update leaves nothing due, and the lists     *)
(* implement TimedQueue.                                                   *)
(***************************************************************************)
EXTENDS MsgQueue, SequenceTheorems, FiniteSetTheorems, WellFoundedInduction, TLAPS

(* Induction on a number, for a property given as the set where it holds *)

LEMMA SmallestNat ==
  ASSUME NEW T, T \subseteq Nat, T # {}
  PROVE  \E n \in T : \A m \in T : n <= m
<1> DEFINE R == {ss \in Nat \X Nat : ss[1] < ss[2]}
<1>1. IsWellFoundedOn(R, Nat)
  BY NatLessThanWellFounded DEF OpToRel
<1> HIDE DEF R
<1>2. PICK n \in T : \A m \in T : ~ (<<m, n>> \in R)
  BY <1>1, WFMin
<1>3. \A m \in T : ~ (m < n)
  BY <1>2 DEF R
<1> QED BY <1>3

LEMMA UpTo ==
  ASSUME NEW N \in Nat, NEW S, 0 \in S,
         \A k \in 0 .. N - 1 : k \in S => k + 1 \in S
  PROVE  0 .. N \subseteq S
<1> SUFFICES ASSUME (0 .. N) \ S # {} PROVE FALSE
  OBVIOUS
<1> DEFINE T == (0 .. N) \ S
<1>1. T \subseteq Nat /\ T # {}
  OBVIOUS
<1> HIDE DEF T
<1>2. PICK n \in T : \A m \in T : n <= m
  BY <1>1, SmallestNat
<1>3. n - 1 \in 0 .. N - 1
  BY <1>2 DEF T
<1>4. n - 1 \in S
  BY <1>2, <1>3 DEF T
<1> QED BY <1>2, <1>3, <1>4 DEF T

LEMMA FunctionIsSeq ==
  ASSUME NEW S, NEW n \in Nat, NEW f \in [1 .. n -> S]
  PROVE  f \in Seq(S) /\ Len(f) = n
<1>1. f \in Seq(S)
  BY SeqDef
<1>2. Len(f) \in Nat /\ 1 .. Len(f) = 1 .. n
  BY <1>1, LenProperties
<1> QED BY <1>1, <1>2

-----------------------------------------------------------------------------
(* A list of cells and the links that hold it together *)

\* The i-th cell, NULL behind the last one
At(q, i) == IF i \in 1 .. Len(q) THEN q[i] ELSE NULL

Linked(links, ptr, q) ==
  /\ ptr = At(q, 1)
  /\ \A i \in 1 .. Len(q) : links[q[i]] = At(q, i + 1)

LEMMA CellShape == \A c \in Cell : c \in Nat /\ c # NULL
BY NumCellsAssumption DEF Cell, NULL

LEMMA AtShape ==
  ASSUME NEW q \in Seq(Cell), NEW i \in Nat
  PROVE  /\ i \in 1 .. Len(q) => At(q, i) = q[i] /\ At(q, i) \in Cell /\ At(q, i) # NULL
         /\ i \notin 1 .. Len(q) => At(q, i) = NULL
BY ElementOfSeq, CellShape DEF At

\* Chain() follows the links: it returns the list they hold together.
LEMMA ChainIs ==
  ASSUME NEW q \in Seq(Cell), Len(q) <= NumCells,
         NEW links, NEW ptr, Linked(links, ptr, q)
  PROVE  Chain(links, ptr) = q
<1> DEFINE Follows(f) ==
             f = [n \in 0 .. NumCells |->
                    IF n = 0 THEN ptr
                    ELSE IF f[n - 1] = NULL THEN NULL ELSE links[f[n - 1]]]
           L == Len(q)
<1>1. L \in Nat /\ NumCells \in Nat /\ L <= NumCells
  BY LenProperties, NumCellsAssumption
<1>2. ASSUME NEW n \in 1 .. NumCells
      PROVE  At(q, n + 1) = IF At(q, n) = NULL THEN NULL ELSE links[At(q, n)]
  <2>1. CASE n \in 1 .. Len(q)
    BY <2>1, AtShape DEF Linked
  <2>2. CASE n \notin 1 .. Len(q)
    <3>1. n + 1 \notin 1 .. Len(q)
      BY <1>1, <2>2
    <3> QED BY <2>2, <3>1 DEF At
  <2> QED BY <2>1, <2>2
<1>3. \E f : Follows(f)
  <2> DEFINE g == [n \in 0 .. NumCells |-> At(q, n + 1)]
  <2>1. ASSUME NEW n \in 0 .. NumCells
        PROVE  g[n] = IF n = 0 THEN ptr
                      ELSE IF g[n - 1] = NULL THEN NULL ELSE links[g[n - 1]]
    <3>1. CASE n = 0
      BY <1>1, <3>1 DEF Linked
    <3>2. CASE n # 0
      <4>1. n \in 1 .. NumCells /\ n - 1 \in 0 .. NumCells /\ (n - 1) + 1 = n
        BY <1>1, <3>2
      <4>2. g[n - 1] = At(q, n) /\ g[n] = At(q, n + 1)
        BY <4>1
      <4> QED BY <1>2, <3>2, <4>1, <4>2
    <3> QED BY <3>1, <3>2
  <2>2. Follows(g)
    BY <2>1
  <2> QED BY <2>2
<1> DEFINE cell == CHOOSE f : Follows(f)
<1>4. Follows(cell)
  BY <1>3, Zenon
<1> HIDE DEF cell
<1>5. \A n \in 0 .. NumCells :
        cell[n] = IF n = 0 THEN ptr
                  ELSE IF cell[n - 1] = NULL THEN NULL ELSE links[cell[n - 1]]
  BY <1>4, Zenon
<1>6. \A n \in 0 .. NumCells : cell[n] = At(q, n + 1)
  <2> DEFINE S == {n \in 0 .. NumCells : cell[n] = At(q, n + 1)}
  <2>1. 0 \in S
    BY <1>1, <1>5 DEF Linked
  <2>2. ASSUME NEW k \in 0 .. NumCells - 1, k \in S
        PROVE  k + 1 \in S
    <3>1. /\ k + 1 \in 0 .. NumCells /\ k + 1 \in 1 .. NumCells
          /\ k + 1 # 0 /\ (k + 1) - 1 = k
      BY <1>1
    <3>2. cell[k + 1] = IF cell[k] = NULL THEN NULL ELSE links[cell[k]]
      BY <1>5, <3>1, Zenon
    <3>3. cell[k] = At(q, k + 1)
      BY <2>2
    <3>4. cell[k + 1] = At(q, (k + 1) + 1)
      BY <1>2, <3>1, <3>2, <3>3, Zenon
    <3> QED BY <3>1, <3>4
  <2> HIDE DEF S
  <2>3. 0 .. NumCells \subseteq S
    BY <1>1, <2>1, <2>2, UpTo
  <2> QED BY <2>3 DEF S
<1> DEFINE Ends(n) == /\ n = NumCells \/ cell[n] = NULL
                      /\ \A k \in 0 .. n - 1 : cell[k] # NULL
           len == CHOOSE n \in 0 .. NumCells : Ends(n)
<1>7. \A k \in 0 .. L - 1 : cell[k] = q[k + 1] /\ cell[k] # NULL
  BY <1>1, <1>6, AtShape
<1>8. L = NumCells \/ cell[L] = NULL
  BY <1>1, <1>6 DEF At
<1>9. L \in 0 .. NumCells /\ Ends(L)
  BY <1>1, <1>7, <1>8
<1>10. len \in 0 .. NumCells /\ Ends(len)
  BY <1>9, Zenon
<1> HIDE DEF len
<1>11. len = L
  <2>1. ~ (len < L)
    BY <1>1, <1>7, <1>10
  <2>2. ~ (L < len)
    BY <1>1, <1>6, <1>10 DEF At
  <2> QED BY <1>1, <1>10, <2>1, <2>2
<1>12. Chain(links, ptr) = [i \in 1 .. len |-> cell[i - 1]]
  BY DEF Chain, len, cell
<1>13. [i \in 1 .. L |-> cell[i - 1]] = [i \in 1 .. L |-> q[i]]
  <2>1. ASSUME NEW i \in 1 .. L PROVE cell[i - 1] = q[i]
    <3>1. i - 1 \in 0 .. L - 1 /\ (i - 1) + 1 = i
      BY <1>1
    <3> QED BY <1>7, <3>1, Zenon
  <2> QED BY <2>1
<1>14. q = [i \in 1 .. L |-> q[i]]
  BY LenProperties
<1> QED BY <1>11, <1>12, <1>13, <1>14

-----------------------------------------------------------------------------
(* The inductive invariant: two disjoint lists and the running messages *)

Frame == [until : Time, cell : Cell \cup {NULL}]

TypeOK ==
  /\ next \in [Cell -> Cell \cup {NULL}]
  /\ t \in [Cell -> Time]
  /\ calls \in Seq(Frame)
  /\ mNow \in Time

\* The updates that are running a message
Busy == {i \in 1 .. Len(calls) : calls[i].cell # NULL}

Distinct(q) == \A i, j \in 1 .. Len(q) : q[i] = q[j] => i = j

\* q is queued and p is pooled.
Held(q, p) ==
  /\ q \in Seq(Cell) /\ Linked(next, mHead, q)
  /\ p \in Seq(Cell) /\ Linked(next, mPool, p)

\* No cell is in two places ...
Apart(q, p) ==
  /\ Distinct(q) /\ Distinct(p)
  /\ \A i \in 1 .. Len(q), j \in 1 .. Len(p) : q[i] # p[j]
  /\ \A b \in Busy, i \in 1 .. Len(q) : calls[b].cell # q[i]
  /\ \A b \in Busy, j \in 1 .. Len(p) : calls[b].cell # p[j]
  /\ \A b, d \in Busy : calls[b].cell = calls[d].cell => b = d

\* ... and none is nowhere.
Placed(q, p) ==
  /\ \A c \in Cell : \/ \E i \in 1 .. Len(q) : q[i] = c
                     \/ \E j \in 1 .. Len(p) : p[j] = c
                     \/ \E b \in Busy : calls[b].cell = c
  /\ Len(q) + Len(p) + Cardinality(Busy) = NumCells

\* The queue is in the order of time, and mTail is right unless it is empty.
InOrder(q) ==
  /\ \A i, j \in 1 .. Len(q) : i < j => t[q[i]] <= t[q[j]]
  /\ Len(q) # 0 => mTail = q[Len(q)]

Lists(q, p) == Held(q, p) /\ Apart(q, p) /\ Placed(q, p) /\ InOrder(q)

IInv == TypeOK /\ \E q, p \in Seq(Cell) : Lists(q, p)

LEMMA BusyIsFinite ==
  ASSUME TypeOK
  PROVE  /\ Len(calls) \in Nat /\ Busy \subseteq 1 .. Len(calls)
         /\ IsFiniteSet(Busy) /\ Cardinality(Busy) \in Nat
<1>1. Len(calls) \in Nat /\ Busy \subseteq 1 .. Len(calls)
  BY LenProperties DEF TypeOK, Busy
<1>2. IsFiniteSet(1 .. Len(calls))
  BY <1>1, FS_Interval
<1> QED BY <1>1, <1>2, FS_Subset, FS_CardinalityType

\* Neither list is longer than the number of cells, so Chain() reads it whole.
LEMMA ListsAreChains ==
  ASSUME TypeOK, NEW q, NEW p, Lists(q, p)
  PROVE  /\ Queued = q /\ Pooled = p
         /\ q \in Seq(Cell) /\ Len(q) \in Nat /\ p \in Seq(Cell) /\ Len(p) \in Nat
<1>1. q \in Seq(Cell) /\ p \in Seq(Cell) /\ Len(q) \in Nat /\ Len(p) \in Nat
  BY LenProperties DEF Lists, Held
<1>2. Len(q) <= NumCells /\ Len(p) <= NumCells
  BY <1>1, BusyIsFinite, NumCellsAssumption DEF Lists, Placed
<1> QED BY <1>1, <1>2, ChainIs DEF Lists, Held, Queued, Pooled

LEMMA InitIInv == Init => IInv
<1> SUFFICES ASSUME Init PROVE IInv
  OBVIOUS
<1> DEFINE p == [i \in 1 .. NumCells |-> i]
<1>1. NumCells \in Nat /\ NumCells >= 1 /\ Cell = 1 .. NumCells
  BY NumCellsAssumption DEF Cell
<1>2. p \in Seq(Cell) /\ Len(p) = NumCells
  BY <1>1, FunctionIsSeq
<1>3. <<>> \in Seq(Cell) /\ Len(<<>>) = 0
  BY EmptySeq
<1>4. TypeOK
  BY <1>1, MaxTimeAssumption DEF Init, TypeOK, Time
<1>5. Held(<<>>, p)
  BY <1>1, <1>2, <1>3 DEF Init, Held, Linked, At
<1>6. Busy = {} /\ Cardinality(Busy) = 0
  BY FS_EmptySet DEF Init, Busy
<1>7. Apart(<<>>, p) /\ Placed(<<>>, p) /\ InOrder(<<>>)
  BY <1>1, <1>2, <1>3, <1>6 DEF Apart, Distinct, Placed, InOrder
<1> QED BY <1>2, <1>3, <1>4, <1>5, <1>7 DEF IInv, Lists

-----------------------------------------------------------------------------
(* sched(): its four cases insert the first pooled cell at one place *)

\* The place: behind the first i messages of q, those that are due no later
Inserted(q, i, at) ==
  /\ ClientRuns
  /\ mPool \in Cell
  /\ i \in 0 .. Len(q)
  /\ \A j \in 1 .. i : t[q[j]] <= at
  /\ \A j \in i + 1 .. Len(q) : at < t[q[j]]
  /\ t' = [t EXCEPT ![mPool] = at]
  /\ next' = [c \in Cell |-> IF c = mPool THEN At(q, i + 1)
                             ELSE IF i # 0 /\ c = q[i] THEN mPool ELSE next[c]]
  /\ mPool' = next[mPool]
  /\ mHead' = IF i = 0 THEN mPool ELSE mHead
  /\ mTail' = IF i = Len(q) THEN mPool ELSE mTail
  /\ UNCHANGED <<mNow, calls>>

LEMMA QueueFacts ==
  ASSUME TypeOK, NEW q, NEW p, Lists(q, p)
  PROVE  /\ Len(q) \in Nat /\ \A i \in 1 .. Len(q) : q[i] \in Cell
         /\ \A c \in Cell : t[c] \in Nat
         /\ mHead = NULL <=> Len(q) = 0
         /\ mHead # NULL => mHead = q[1] /\ mTail = q[Len(q)] /\ 1 \in 1 .. Len(q)
         /\ \A i \in 1 .. Len(q) : next[q[i]] = At(q, i + 1)
         /\ \A i, j \in 1 .. Len(q) : i <= j => t[q[i]] <= t[q[j]]
<1>1. Len(q) \in Nat /\ q \in Seq(Cell)
  BY LenProperties DEF Lists, Held
<1>2. \A i \in 1 .. Len(q) : q[i] \in Cell
  BY <1>1, ElementOfSeq
<1>3. \A c \in Cell : t[c] \in Nat
  BY MaxTimeAssumption DEF TypeOK, Time
<1>4. mHead = At(q, 1) /\ \A i \in 1 .. Len(q) : next[q[i]] = At(q, i + 1)
  BY DEF Lists, Held, Linked
<1>5. 1 \in 1 .. Len(q) <=> Len(q) # 0
  BY <1>1
<1>6. /\ mHead = NULL <=> Len(q) = 0
      /\ mHead # NULL => mHead = q[1] /\ mTail = q[Len(q)] /\ 1 \in 1 .. Len(q)
  BY <1>1, <1>4, <1>5, AtShape DEF Lists, InOrder
<1>7. \A i, j \in 1 .. Len(q) : i <= j => t[q[i]] <= t[q[j]]
  <2> TAKE i, j \in 1 .. Len(q)
  <2> HAVE i <= j
  <2>1. CASE i = j
    BY <1>2, <1>3, <2>1
  <2>2. CASE i < j
    BY <2>2 DEF Lists, InOrder
  <2> QED BY <1>1, <2>1, <2>2
<1> QED BY <1>1, <1>2, <1>3, <1>4, <1>6, <1>7

LEMMA SchedFirstInserts ==
  ASSUME TypeOK, NEW q, NEW p, Lists(q, p), NEW at \in Time, SchedFirst(at)
  PROVE  Inserted(q, 0, at)
<1>1. Len(q) = 0 /\ mPool \in Cell
  <2>1. p \in Seq(Cell) /\ mPool = At(p, 1)
    BY DEF Lists, Held, Linked
  <2> QED BY <2>1, AtShape, QueueFacts DEF SchedFirst
<1>2. next' = [c \in Cell |-> IF c = mPool THEN At(q, 0 + 1) ELSE next[c]]
  BY <1>1 DEF SchedFirst, Insert, At
<1> QED BY <1>1, <1>2 DEF SchedFirst, Insert, Inserted

LEMMA PooledFirst ==
  ASSUME NEW q, NEW p, Lists(q, p), mPool # NULL
  PROVE  mPool \in Cell /\ 1 \in 1 .. Len(p) /\ mPool = p[1]
<1>1. p \in Seq(Cell) /\ mPool = At(p, 1)
  BY DEF Lists, Held, Linked
<1> QED BY <1>1, AtShape

LEMMA SchedPrependInserts ==
  ASSUME TypeOK, NEW q, NEW p, Lists(q, p), NEW at \in Time, SchedPrepend(at)
  PROVE  Inserted(q, 0, at)
<1>1. mPool \in Cell /\ mHead # NULL /\ at \in Nat
  BY PooledFirst, MaxTimeAssumption DEF SchedPrepend, Time
<1>2. next' = [c \in Cell |-> IF c = mPool THEN At(q, 0 + 1) ELSE next[c]]
  <2>1. At(q, 0 + 1) = mHead
    BY DEF Lists, Held, Linked
  <2> QED BY <2>1 DEF SchedPrepend, Insert
<1>3. \A j \in 0 + 1 .. Len(q) : at < t[q[j]]
  <2> TAKE j \in 0 + 1 .. Len(q)
  <2>1. Len(q) \in Nat /\ 1 \in 1 .. Len(q) /\ j \in 1 .. Len(q) /\ 1 <= j
    BY <1>1, QueueFacts
  <2>2. t[q[1]] <= t[q[j]] /\ t[q[1]] \in Nat /\ t[q[j]] \in Nat /\ at < t[q[1]]
    BY <1>1, <2>1, QueueFacts DEF SchedPrepend
  <2> QED BY <1>1, <2>2
<1>4. 0 # Len(q) /\ Len(q) \in Nat
  BY <1>1, QueueFacts
<1> QED BY <1>1, <1>2, <1>3, <1>4 DEF SchedPrepend, Insert, Inserted

LEMMA SchedAppendInserts ==
  ASSUME TypeOK, NEW q, NEW p, Lists(q, p), NEW at \in Time, SchedAppend(at)
  PROVE  Inserted(q, Len(q), at)
<1> DEFINE L == Len(q)
<1>1. /\ mPool \in Cell /\ at \in Nat /\ L \in Nat /\ L # 0 /\ L \in 1 .. L
      /\ mTail = q[L]
  BY PooledFirst, QueueFacts, MaxTimeAssumption DEF SchedAppend, Time
<1>2. q[L] # mPool
  BY <1>1, PooledFirst DEF SchedAppend, Lists, Apart
<1>3. At(q, L + 1) = NULL
  BY <1>1 DEF At
<1>4. next' = [c \in Cell |-> IF c = mPool THEN At(q, L + 1)
                              ELSE IF L # 0 /\ c = q[L] THEN mPool ELSE next[c]]
  BY <1>1, <1>2, <1>3 DEF SchedAppend, Insert
<1>5. \A j \in 1 .. L : t[q[j]] <= at
  <2> TAKE j \in 1 .. L
  <2>1. t[q[j]] <= t[q[L]] /\ t[q[j]] \in Nat /\ t[q[L]] \in Nat /\ t[q[L]] <= at
    BY <1>1, QueueFacts DEF SchedAppend
  <2> QED BY <1>1, <2>1
<1> QED BY <1>1, <1>4, <1>5 DEF SchedAppend, Insert, Inserted

\* The walk of the last case stops where the new message belongs.
LEMMA WalkStops ==
  ASSUME TypeOK, NEW q, NEW p, Lists(q, p), NEW at \in Time,
         mHead # NULL, at >= t[mHead], at < t[mTail]
  PROVE  /\ WalkFrom(at) \in 1 .. Len(q) - 1
         /\ \A j \in 1 .. WalkFrom(at) : t[q[j]] <= at
         /\ \A j \in WalkFrom(at) + 1 .. Len(q) : at < t[q[j]]
<1> DEFINE L == Len(q)
           Stop(i) == i = L \/ t[q[i + 1]] > at
           Here(i) == Stop(i) /\ \A j \in 1 .. i - 1 : t[q[j + 1]] <= at
           w == CHOOSE i \in 1 .. L : Here(i)
<1>1. /\ at \in Nat /\ L \in Nat /\ 1 \in 1 .. L /\ L \in 1 .. L
      /\ mHead = q[1] /\ mTail = q[L]
      /\ \A i \in 1 .. L : t[q[i]] \in Nat
      /\ \A i, j \in 1 .. L : i <= j => t[q[i]] <= t[q[j]]
  BY QueueFacts, MaxTimeAssumption DEF Time
<1>2. WalkFrom(at) = w
  <2>1. Queued = q
    BY ListsAreChains
  <2> QED BY <2>1, Zenon DEF WalkFrom
<1>3. \E i \in 1 .. L : Here(i)
  <2> DEFINE T == {i \in 1 .. L : Stop(i)}
  <2>1. T \subseteq Nat /\ T # {}
    BY <1>1
  <2>2. PICK i \in T : \A j \in T : i <= j
    BY <2>1, SmallestNat
  <2>3. ASSUME NEW j \in 1 .. i - 1 PROVE t[q[j + 1]] <= at
    <3>1. j \in 1 .. L /\ j # L /\ ~ (i <= j) /\ j + 1 \in 1 .. L
      BY <1>1, <2>2
    <3>2. ~ (t[q[j + 1]] > at)
      BY <2>2, <3>1
    <3> QED BY <1>1, <3>1, <3>2
  <2> QED BY <2>2, <2>3
<1>4. w \in 1 .. L /\ Here(w)
  BY <1>3, Zenon
<1> HIDE DEF w
<1>5. ASSUME NEW j \in 1 .. w PROVE t[q[j]] <= at
  <2>1. CASE j = 1
    BY <1>1, <2>1
  <2>2. CASE j # 1
    <3>1. j - 1 \in 1 .. w - 1 /\ (j - 1) + 1 = j
      BY <1>4, <2>2
    <3> QED BY <1>4, <3>1, Zenon
  <2> QED BY <2>1, <2>2
<1>6. w # L
  <2>1. ASSUME w = L PROVE FALSE
    <3>1. t[q[L]] <= at
      BY <1>1, <1>5, <2>1
    <3> QED BY <1>1, <3>1
  <2> QED BY <2>1
<1>7. ASSUME NEW j \in w + 1 .. L PROVE at < t[q[j]]
  <2>1. w + 1 \in 1 .. L /\ j \in 1 .. L /\ w + 1 <= j
    BY <1>1, <1>4, <1>6
  <2>2. t[q[w + 1]] > at /\ t[q[w + 1]] <= t[q[j]]
    BY <1>1, <1>4, <1>6, <2>1
  <2> QED BY <1>1, <2>1, <2>2
<1>8. w \in 1 .. L - 1
  BY <1>1, <1>4, <1>6
<1> QED BY <1>2, <1>5, <1>7, <1>8

LEMMA SchedBetweenInserts ==
  ASSUME TypeOK, NEW q, NEW p, Lists(q, p), NEW at \in Time, SchedBetween(at)
  PROVE  Inserted(q, WalkFrom(at), at)
<1> DEFINE w == WalkFrom(at)
<1>1. /\ w \in 1 .. Len(q) - 1
      /\ \A j \in 1 .. w : t[q[j]] <= at
      /\ \A j \in w + 1 .. Len(q) : at < t[q[j]]
  BY WalkStops DEF SchedBetween
<1>2. mPool \in Cell /\ Len(q) \in Nat /\ Queued = q
  BY PooledFirst, QueueFacts, ListsAreChains DEF SchedBetween
<1> HIDE DEF w
<1>3. w \in 0 .. Len(q) /\ w \in 1 .. Len(q) /\ w # 0 /\ w # Len(q)
  BY <1>1, <1>2
<1>4. q[w] # mPool
  BY <1>3, PooledFirst DEF SchedBetween, Lists, Apart
<1>5. next[q[w]] = At(q, w + 1)
  BY <1>3, QueueFacts
<1>6. next' = [c \in Cell |-> IF c = mPool THEN At(q, w + 1)
                              ELSE IF w # 0 /\ c = q[w] THEN mPool ELSE next[c]]
  BY <1>2, <1>3, <1>4, <1>5 DEF SchedBetween, Insert, w
<1> QED BY <1>1, <1>2, <1>3, <1>6 DEF SchedBetween, Insert, Inserted, w

LEMMA SchedInserts ==
  ASSUME TypeOK, NEW q, NEW p, Lists(q, p), NEW at \in Time,
         \/ SchedFirst(at) \/ SchedPrepend(at) \/ SchedAppend(at) \/ SchedBetween(at)
  PROVE  \E i \in 0 .. Len(q) : Inserted(q, i, at)
BY SchedFirstInserts, SchedPrependInserts, SchedAppendInserts, SchedBetweenInserts
   DEF Inserted

\* q with the cell m behind its first i
InsertAt(q, i, m) ==
  [k \in 1 .. Len(q) + 1 |-> IF k <= i THEN q[k] ELSE IF k = i + 1 THEN m ELSE q[k - 1]]

LEMMA InsertAtShape ==
  ASSUME NEW q \in Seq(Cell), NEW i \in 0 .. Len(q), NEW m \in Cell
  PROVE  /\ InsertAt(q, i, m) \in Seq(Cell)
         /\ Len(InsertAt(q, i, m)) = Len(q) + 1
         /\ \A k \in 1 .. i : InsertAt(q, i, m)[k] = q[k]
         /\ InsertAt(q, i, m)[i + 1] = m
         /\ \A k \in i + 1 .. Len(q) : InsertAt(q, i, m)[k + 1] = q[k]
<1> DEFINE r == InsertAt(q, i, m)
<1>1. Len(q) \in Nat
  BY LenProperties
<1>2. \A k \in 1 .. Len(q) + 1 :
        r[k] = IF k <= i THEN q[k] ELSE IF k = i + 1 THEN m ELSE q[k - 1]
  BY DEF InsertAt
<1>3. ASSUME NEW k \in 1 .. Len(q) + 1 PROVE r[k] \in Cell
  <2>1. CASE k <= i
    BY <1>1, <1>2, <2>1, ElementOfSeq
  <2>2. CASE k = i + 1
    BY <1>1, <1>2, <2>2
  <2>3. CASE k > i + 1
    <3>1. k - 1 \in 1 .. Len(q) /\ ~ (k <= i) /\ k # i + 1
      BY <1>1, <2>3
    <3> QED BY <1>2, <3>1, ElementOfSeq
  <2> QED BY <1>1, <2>1, <2>2, <2>3
<1>4. r \in [1 .. Len(q) + 1 -> Cell]
  BY <1>3 DEF InsertAt
<1>5. r \in Seq(Cell) /\ Len(r) = Len(q) + 1
  BY <1>1, <1>4, FunctionIsSeq
<1>6. \A k \in 1 .. i : r[k] = q[k]
  BY <1>1, <1>2
<1>7. r[i + 1] = m
  BY <1>1, <1>2
<1>8. ASSUME NEW k \in i + 1 .. Len(q) PROVE r[k + 1] = q[k]
  <2>1. /\ k + 1 \in 1 .. Len(q) + 1 /\ ~ (k + 1 <= i) /\ k + 1 # i + 1
        /\ (k + 1) - 1 = k
    BY <1>1
  <2>2. r[k + 1] = q[(k + 1) - 1]
    BY <1>2, <2>1
  <2> QED BY <2>1, <2>2
<1> QED BY <1>5, <1>6, <1>7, <1>8

\* The k-th cell of the longer queue is the new one, or stood at Before(k).
LEMMA InsertedCells ==
  ASSUME NEW q \in Seq(Cell), NEW i \in 0 .. Len(q), NEW m \in Cell,
         NEW k \in 1 .. Len(q) + 1
  PROVE  \/ k = i + 1 /\ InsertAt(q, i, m)[k] = m
         \/ k <= i /\ k \in 1 .. Len(q) /\ InsertAt(q, i, m)[k] = q[k]
         \/ k > i + 1 /\ k - 1 \in 1 .. Len(q) /\ InsertAt(q, i, m)[k] = q[k - 1]
<1>1. Len(q) \in Nat
  BY LenProperties
<1>2. CASE k = i + 1
  BY <1>2, InsertAtShape
<1>3. CASE k <= i
  BY <1>1, <1>3, InsertAtShape
<1>4. CASE k > i + 1
  <2>1. k - 1 \in i + 1 .. Len(q) /\ k - 1 \in 1 .. Len(q) /\ (k - 1) + 1 = k
    BY <1>1, <1>4
  <2>2. InsertAt(q, i, m)[(k - 1) + 1] = q[k - 1]
    BY <2>1, InsertAtShape, Zenon
  <2> QED BY <1>4, <2>1, <2>2
<1> QED BY <1>1, <1>2, <1>3, <1>4

LEMMA TailCells ==
  ASSUME NEW p \in Seq(Cell), Len(p) # 0
  PROVE  /\ Tail(p) \in Seq(Cell) /\ Len(p) \in Nat /\ Len(Tail(p)) = Len(p) - 1
         /\ \A j \in 1 .. Len(p) - 1 : Tail(p)[j] = p[j + 1]
         /\ \A j \in Nat \ {0} : At(Tail(p), j) = At(p, j + 1)
<1>1. p # <<>> /\ Len(p) \in Nat
  BY EmptySeq, LenProperties
<1>2. /\ Tail(p) \in Seq(Cell) /\ Len(Tail(p)) = Len(p) - 1
      /\ \A j \in 1 .. Len(p) - 1 : Tail(p)[j] = p[j + 1]
  BY <1>1, HeadTailProperties
<1>3. ASSUME NEW j \in Nat \ {0} PROVE At(Tail(p), j) = At(p, j + 1)
  <2>1. j \in 1 .. Len(Tail(p)) <=> j + 1 \in 1 .. Len(p)
    BY <1>1, <1>2
  <2>2. j \in 1 .. Len(Tail(p)) => Tail(p)[j] = p[j + 1]
    BY <1>2
  <2> QED BY <2>1, <2>2 DEF At
<1> QED BY <1>1, <1>2, <1>3

LEMMA InsertedTypeOK ==
  ASSUME TypeOK, NEW q \in Seq(Cell), NEW i, NEW at \in Time, Inserted(q, i, at)
  PROVE  TypeOK'
<1>1. At(q, i + 1) \in Cell \cup {NULL}
  <2>1. Len(q) \in Nat /\ i + 1 \in Nat
    BY LenProperties DEF Inserted
  <2> QED BY <2>1, AtShape
<1>2. next' \in [Cell -> Cell \cup {NULL}]
  BY <1>1 DEF Inserted, TypeOK
<1>3. t' \in [Cell -> Time] /\ UNCHANGED <<mNow, calls>>
  BY DEF Inserted, TypeOK
<1> QED BY <1>2, <1>3 DEF TypeOK

\* Facts about an insertion that each part of the invariant needs
LEMMA InsertedFacts ==
  ASSUME TypeOK, NEW q, NEW p, Lists(q, p), NEW i, NEW at \in Time, Inserted(q, i, at)
  PROVE  /\ q \in Seq(Cell) /\ Len(q) \in Nat /\ i \in 0 .. Len(q)
         /\ p \in Seq(Cell) /\ Len(p) \in Nat /\ Len(p) # 0
         /\ mPool \in Cell /\ mPool = p[1] /\ 1 \in 1 .. Len(p)
         /\ \A k \in 1 .. Len(q) : q[k] \in Cell /\ q[k] # mPool
         /\ \A j \in 2 .. Len(p) : p[j] \in Cell /\ p[j] # mPool
         /\ Len(Tail(p)) = Len(p) - 1
         /\ \A j \in 1 .. Len(p) - 1 :
              j + 1 \in 1 .. Len(p) /\ Tail(p)[j] = p[j + 1] /\ p[j + 1] # mPool
<1>1. /\ q \in Seq(Cell) /\ Len(q) \in Nat /\ p \in Seq(Cell) /\ Len(p) \in Nat
      /\ i \in 0 .. Len(q) /\ mPool \in Cell
  BY ListsAreChains DEF Inserted
<1>2. mPool = p[1] /\ 1 \in 1 .. Len(p) /\ Len(p) # 0
  BY <1>1, CellShape, PooledFirst
<1>3. \A k \in 1 .. Len(q) : q[k] \in Cell /\ q[k] # mPool
  BY <1>1, <1>2, ElementOfSeq DEF Lists, Apart
<1>4. ASSUME NEW j \in 2 .. Len(p) PROVE p[j] \in Cell /\ p[j] # mPool
  <2>1. j \in 1 .. Len(p) /\ j # 1
    BY <1>1
  <2> QED BY <1>1, <1>2, <2>1, ElementOfSeq DEF Lists, Apart, Distinct
<1>5. Len(Tail(p)) = Len(p) - 1 /\ \A j \in 1 .. Len(p) - 1 : Tail(p)[j] = p[j + 1]
  BY <1>1, <1>2, TailCells
<1>6. \A j \in 1 .. Len(p) - 1 : j + 1 \in 1 .. Len(p) /\ j + 1 \in 2 .. Len(p)
  BY <1>1
<1> QED BY <1>1, <1>2, <1>3, <1>4, <1>5, <1>6

LEMMA InsertedHeld ==
  ASSUME TypeOK, NEW q, NEW p, Lists(q, p), NEW i, NEW at \in Time, Inserted(q, i, at),
         NEW m, m = mPool
  PROVE  Held(InsertAt(q, i, m), Tail(p))'
<1> DEFINE r == InsertAt(q, i, m)
           L == Len(q)
<1>1. /\ q \in Seq(Cell) /\ L \in Nat /\ i \in 0 .. L
      /\ p \in Seq(Cell) /\ Len(p) \in Nat /\ Len(p) # 0
      /\ m \in Cell /\ m = p[1] /\ 1 \in 1 .. Len(p)
      /\ \A k \in 1 .. L : q[k] \in Cell /\ q[k] # m
  BY InsertedFacts
<1>2. /\ r \in Seq(Cell) /\ Len(r) = L + 1 /\ r[i + 1] = m
      /\ \A k \in 1 .. i : r[k] = q[k]
      /\ \A k \in i + 1 .. L : r[k + 1] = q[k]
  <2>1. q \in Seq(Cell) /\ i \in 0 .. Len(q) /\ m \in Cell
    BY <1>1
  <2> HIDE DEF r
  <2>2. r \in Seq(Cell) /\ Len(r) = L + 1 /\ r[i + 1] = m
    BY <2>1, InsertAtShape DEF r
  <2>3. \A k \in 1 .. i : r[k] = q[k]
    BY <2>1, InsertAtShape DEF r
  <2>4. \A k \in i + 1 .. L : r[k + 1] = q[k]
    BY <2>1, InsertAtShape DEF r
  <2> QED BY <2>2, <2>3, <2>4
<1>3. \A c \in Cell : next'[c] = IF c = m THEN At(q, i + 1)
                                 ELSE IF i # 0 /\ c = q[i] THEN m ELSE next[c]
  BY DEF Inserted
<1>4. /\ \A k \in 1 .. L : next[q[k]] = At(q, k + 1)
      /\ \A k, n \in 1 .. L : q[k] = q[n] => k = n
      /\ mHead = At(q, 1)
  BY DEF Lists, Held, Linked, Apart, Distinct
<1>5. mHead' = IF i = 0 THEN m ELSE mHead
  BY DEF Inserted
<1>6. \A k \in 1 .. L + 1 : r[k] = IF k <= i THEN q[k] ELSE IF k = i + 1 THEN m ELSE q[k - 1]
  BY DEF InsertAt
<1> HIDE DEF r
<1>7. mHead' = At(r, 1)
  <2>1. At(r, 1) = r[1]
    BY <1>1, <1>2 DEF At
  <2>2. CASE i = 0
    BY <1>2, <1>5, <2>1, <2>2
  <2>3. CASE i # 0
    <3>1. 1 \in 1 .. i /\ 1 \in 1 .. L
      BY <1>1, <2>3
    <3> QED BY <1>2, <1>4, <1>5, <2>1, <2>3, <3>1 DEF At
  <2> QED BY <2>2, <2>3
<1>8. ASSUME NEW k \in 1 .. L + 1
      PROVE  next'[r[k]] = At(r, k + 1)
  <2>1. CASE k = i + 1
    <3>1. r[k] = m /\ next'[m] = At(q, i + 1)
      BY <1>1, <1>2, <1>3, <2>1
    <3>2. CASE i = L
      BY <1>1, <1>2, <2>1, <3>1, <3>2 DEF At
    <3>3. CASE i # L
      <4>1. i + 1 \in i + 1 .. L /\ i + 1 \in 1 .. L /\ k + 1 \in 1 .. L + 1
        BY <1>1, <2>1, <3>3
      <4> QED BY <1>2, <2>1, <3>1, <4>1 DEF At
    <3> QED BY <3>2, <3>3
  <2>2. CASE k = i
    <3>1. k \in 1 .. i /\ k \in 1 .. L /\ i # 0 /\ k + 1 \in 1 .. L + 1
      BY <1>1, <2>2
    <3>2. r[k] = q[i] /\ q[i] \in Cell /\ q[i] # m
      BY <1>1, <1>2, <2>2, <3>1
    <3> QED BY <1>2, <1>3, <2>2, <3>1, <3>2 DEF At
  <2>3. CASE k < i
    <3>1. /\ k \in 1 .. i /\ k \in 1 .. L /\ i \in 1 .. L /\ k # i
          /\ k + 1 \in 1 .. i /\ k + 1 \in 1 .. L /\ k + 1 \in 1 .. L + 1
      BY <1>1, <2>3
    <3>2. r[k] = q[k] /\ q[k] \in Cell /\ q[k] # m /\ q[k] # q[i] /\ r[k + 1] = q[k + 1]
      BY <1>1, <1>2, <1>4, <3>1
    <3>3. next'[r[k]] = At(q, k + 1)
      BY <1>3, <1>4, <3>1, <3>2
    <3> QED BY <1>2, <3>1, <3>2, <3>3 DEF At
  <2>4. CASE k > i + 1
    <3>1. k - 1 \in 1 .. L /\ k - 1 # i /\ ~ (k <= i) /\ k # i + 1 /\ (k - 1) + 1 = k
      BY <1>1, <2>4
    <3>2. r[k] = q[k - 1] /\ q[k - 1] \in Cell /\ q[k - 1] # m
      BY <1>1, <1>6, <3>1
    <3>3. i # 0 => q[k - 1] # q[i]
      BY <1>1, <1>4, <3>1
    <3>4. next'[r[k]] = At(q, k)
      <4>1. next[q[k - 1]] = At(q, (k - 1) + 1)
        BY <1>4, <3>1
      <4> QED BY <1>3, <3>1, <3>2, <3>3, <4>1
    <3>5. At(r, k + 1) = At(q, k)
      <4>1. CASE k = L + 1
        BY <1>1, <1>2, <4>1 DEF At
      <4>2. CASE k # L + 1
        <5>1. k \in i + 1 .. L /\ k \in 1 .. L /\ k + 1 \in 1 .. L + 1
          BY <1>1, <2>4, <4>2
        <5> QED BY <1>2, <5>1 DEF At
      <4> QED BY <4>1, <4>2
    <3> QED BY <3>4, <3>5
  <2> QED BY <1>1, <2>1, <2>2, <2>3, <2>4
<1>9. Linked(next', mPool', Tail(p))
  <2>1. /\ Tail(p) \in Seq(Cell) /\ Len(Tail(p)) = Len(p) - 1
        /\ \A j \in 1 .. Len(p) - 1 : Tail(p)[j] = p[j + 1]
        /\ \A j \in Nat \ {0} : At(Tail(p), j) = At(p, j + 1)
    BY <1>1, TailCells
  <2>2. \A j \in 1 .. Len(p) : next[p[j]] = At(p, j + 1)
    BY DEF Lists, Held, Linked
  <2>3. mPool' = At(Tail(p), 1)
    <3>1. mPool' = next[p[1]]
      BY <1>1 DEF Inserted
    <3>2. next[p[1]] = At(p, 1 + 1) /\ At(Tail(p), 1) = At(p, 1 + 1)
      BY <1>1, <2>1, <2>2
    <3> QED BY <3>1, <3>2
  <2>4. ASSUME NEW j \in 1 .. Len(p) - 1
        PROVE  next'[Tail(p)[j]] = At(Tail(p), j + 1)
    <3>1. j + 1 \in 1 .. Len(p) /\ j + 1 \in Nat \ {0}
      BY <1>1
    <3>2. p[j + 1] # m /\ p[j + 1] \in Cell
      BY <1>1, <3>1, ElementOfSeq, InsertedFacts
    <3>3. i # 0 => p[j + 1] # q[i]
      BY <1>1, <3>1 DEF Lists, Apart
    <3>4. next'[p[j + 1]] = next[p[j + 1]]
      BY <1>3, <3>2, <3>3
    <3>5. next[p[j + 1]] = At(p, (j + 1) + 1)
      BY <2>2, <3>1, Zenon
    <3> QED BY <2>1, <3>1, <3>4, <3>5
  <2> QED BY <2>1, <2>3, <2>4 DEF Linked
<1>10. Tail(p) \in Seq(Cell)
  BY <1>1, TailCells
<1>11. Linked(next', mHead', r)
  BY <1>2, <1>7, <1>8 DEF Linked
<1> QED BY <1>2, <1>9, <1>10, <1>11 DEF Held, r

LEMMA InsertedApart ==
  ASSUME TypeOK, NEW q, NEW p, Lists(q, p), NEW i, NEW at \in Time, Inserted(q, i, at),
         NEW m, m = mPool
  PROVE  Apart(InsertAt(q, i, m), Tail(p))'
<1> DEFINE r == InsertAt(q, i, m)
           s == Tail(p)
<1>1. /\ q \in Seq(Cell) /\ Len(q) \in Nat /\ i \in 0 .. Len(q) /\ m \in Cell
      /\ Len(p) \in Nat /\ 1 \in 1 .. Len(p) /\ m = p[1]
      /\ \A k \in 1 .. Len(q) : q[k] # m
      /\ Len(s) = Len(p) - 1
      /\ \A j \in 1 .. Len(p) - 1 : j + 1 \in 1 .. Len(p) /\ s[j] = p[j + 1] /\ p[j + 1] # m
  BY InsertedFacts
<1>2. Len(r) = Len(q) + 1
  BY <1>1, InsertAtShape
<1>3. \A k \in 1 .. Len(q) + 1 :
        \/ k = i + 1 /\ r[k] = m
        \/ k <= i /\ k \in 1 .. Len(q) /\ r[k] = q[k]
        \/ k > i + 1 /\ k - 1 \in 1 .. Len(q) /\ r[k] = q[k - 1]
  BY <1>1, InsertedCells
<1>4. /\ \A k, n \in 1 .. Len(q) : q[k] = q[n] => k = n
      /\ \A j, n \in 1 .. Len(p) : p[j] = p[n] => j = n
      /\ \A k \in 1 .. Len(q), j \in 1 .. Len(p) : q[k] # p[j]
      /\ \A b \in Busy, k \in 1 .. Len(q) : calls[b].cell # q[k]
      /\ \A b \in Busy, j \in 1 .. Len(p) : calls[b].cell # p[j]
      /\ \A b, d \in Busy : calls[b].cell = calls[d].cell => b = d
  BY DEF Lists, Apart, Distinct
<1>5. calls' = calls /\ Busy' = Busy
  BY DEF Inserted, Busy
<1> HIDE DEF r, s
<1>6. ASSUME NEW k \in 1 .. Len(q) + 1, NEW n \in 1 .. Len(q) + 1, k < n
      PROVE  r[k] # r[n]
  <2>1. CASE k = i + 1
    <3>1. r[k] = m /\ n - 1 \in 1 .. Len(q) /\ r[n] = q[n - 1]
      BY <1>1, <1>3, <1>6, <2>1
    <3> QED BY <1>1, <3>1
  <2>2. CASE k <= i /\ k \in 1 .. Len(q) /\ r[k] = q[k]
    <3>1. CASE n = i + 1 /\ r[n] = m
      BY <1>1, <2>2, <3>1
    <3>2. CASE n <= i /\ n \in 1 .. Len(q) /\ r[n] = q[n]
      BY <1>4, <1>6, <2>2, <3>2
    <3>3. CASE n > i + 1 /\ n - 1 \in 1 .. Len(q) /\ r[n] = q[n - 1]
      <4>1. k # n - 1
        BY <1>1, <2>2, <3>3
      <4> QED BY <1>4, <2>2, <3>3, <4>1
    <3> QED BY <1>3, <3>1, <3>2, <3>3
  <2>3. CASE k > i + 1 /\ k - 1 \in 1 .. Len(q) /\ r[k] = q[k - 1]
    <3>1. n - 1 \in 1 .. Len(q) /\ r[n] = q[n - 1] /\ k - 1 # n - 1
      BY <1>1, <1>3, <1>6, <2>3
    <3> QED BY <1>4, <2>3, <3>1
  <2> QED BY <1>3, <2>1, <2>2, <2>3
<1>7. ASSUME NEW j \in 1 .. Len(s), NEW n \in 1 .. Len(s), s[j] = s[n]
      PROVE  j = n
  <2>1. j \in 1 .. Len(p) - 1 /\ n \in 1 .. Len(p) - 1
    BY <1>1
  <2>2. s[j] = p[j + 1] /\ s[n] = p[n + 1] /\ j + 1 \in 1 .. Len(p) /\ n + 1 \in 1 .. Len(p)
    BY <1>1, <2>1
  <2>3. j + 1 = n + 1
    BY <1>4, <1>7, <2>2
  <2> QED BY <2>1, <2>3
<1>8. ASSUME NEW k \in 1 .. Len(q) + 1, NEW j \in 1 .. Len(s)
      PROVE  r[k] # s[j]
  <2>1. j \in 1 .. Len(p) - 1 /\ s[j] = p[j + 1] /\ j + 1 \in 1 .. Len(p) /\ s[j] # m
    BY <1>1
  <2> QED BY <1>3, <1>4, <2>1
<1>9. ASSUME NEW b \in Busy, NEW k \in 1 .. Len(q) + 1
      PROVE  calls[b].cell # r[k]
  <2>1. calls[b].cell # m
    BY <1>1, <1>4
  <2> QED BY <1>3, <1>4, <2>1
<1>10. ASSUME NEW b \in Busy, NEW j \in 1 .. Len(s)
       PROVE  calls[b].cell # s[j]
  <2>1. j \in 1 .. Len(p) - 1 /\ s[j] = p[j + 1] /\ j + 1 \in 1 .. Len(p)
    BY <1>1
  <2> QED BY <1>4, <2>1
<1>11. Distinct(r) /\ Distinct(s)
  <2>1. \A k, n \in 1 .. Len(q) + 1 : k # n => k < n \/ n < k
    BY <1>1
  <2> QED BY <1>2, <1>6, <1>7, <2>1 DEF Distinct
<1>12. /\ \A k \in 1 .. Len(r), j \in 1 .. Len(s) : r[k] # s[j]
       /\ \A b \in Busy', k \in 1 .. Len(r) : calls'[b].cell # r[k]
       /\ \A b \in Busy', j \in 1 .. Len(s) : calls'[b].cell # s[j]
       /\ \A b, d \in Busy' : calls'[b].cell = calls'[d].cell => b = d
  BY <1>2, <1>4, <1>5, <1>8, <1>9, <1>10
<1> QED BY <1>11, <1>12 DEF Apart, r, s

LEMMA InsertedPlaced ==
  ASSUME TypeOK, NEW q, NEW p, Lists(q, p), NEW i, NEW at \in Time, Inserted(q, i, at),
         NEW m, m = mPool
  PROVE  Placed(InsertAt(q, i, m), Tail(p))'
<1> DEFINE r == InsertAt(q, i, m)
           s == Tail(p)
<1>1. /\ q \in Seq(Cell) /\ Len(q) \in Nat /\ i \in 0 .. Len(q) /\ m \in Cell
      /\ Len(p) \in Nat /\ m = p[1]
      /\ Len(s) = Len(p) - 1 /\ \A j \in 1 .. Len(p) - 1 : s[j] = p[j + 1]
  BY InsertedFacts
<1>2. Len(r) = Len(q) + 1 /\ r[i + 1] = m
  BY <1>1, InsertAtShape
<1>3. \A k \in 1 .. i : r[k] = q[k]
  BY <1>1, InsertAtShape
<1>4. \A k \in i + 1 .. Len(q) : r[k + 1] = q[k]
  BY <1>1, InsertAtShape
<1>5. calls' = calls /\ Busy' = Busy
  BY DEF Inserted, Busy
<1> HIDE DEF r, s
<1>6. ASSUME NEW c \in Cell
      PROVE  \/ \E k \in 1 .. Len(r) : r[k] = c
             \/ \E j \in 1 .. Len(s) : s[j] = c
             \/ \E b \in Busy : calls[b].cell = c
  <2>1. CASE \E k \in 1 .. Len(q) : q[k] = c
    <3>1. PICK k \in 1 .. Len(q) : q[k] = c
      BY <2>1
    <3>2. CASE k <= i
      <4>1. k \in 1 .. i /\ k \in 1 .. Len(r)
        BY <1>1, <1>2, <3>2
      <4> QED BY <1>3, <3>1, <4>1
    <3>3. CASE k > i
      <4>1. k \in i + 1 .. Len(q) /\ k + 1 \in 1 .. Len(r)
        BY <1>1, <1>2, <3>3
      <4> QED BY <1>4, <3>1, <4>1
    <3> QED BY <1>1, <3>2, <3>3
  <2>2. CASE \E j \in 1 .. Len(p) : p[j] = c
    <3>1. PICK j \in 1 .. Len(p) : p[j] = c
      BY <2>2
    <3>2. CASE j = 1
      <4>1. i + 1 \in 1 .. Len(r) /\ c = m
        BY <1>1, <1>2, <3>1, <3>2
      <4> QED BY <1>2, <4>1
    <3>3. CASE j # 1
      <4>1. j - 1 \in 1 .. Len(p) - 1 /\ (j - 1) + 1 = j /\ j - 1 \in 1 .. Len(s)
        BY <1>1, <3>3
      <4>2. s[j - 1] = p[(j - 1) + 1]
        BY <1>1, <4>1
      <4> QED BY <3>1, <4>1, <4>2
    <3> QED BY <3>2, <3>3
  <2> QED BY <2>1, <2>2 DEF Lists, Placed
<1>7. Len(r) + Len(s) + Cardinality(Busy) = NumCells
  BY <1>1, <1>2, BusyIsFinite DEF Lists, Placed
<1> QED BY <1>5, <1>6, <1>7 DEF Placed, r, s

LEMMA InsertedInOrder ==
  ASSUME TypeOK, NEW q, NEW p, Lists(q, p), NEW i, NEW at \in Time, Inserted(q, i, at),
         NEW m, m = mPool
  PROVE  InOrder(InsertAt(q, i, m))'
<1> DEFINE r == InsertAt(q, i, m)
           L == Len(q)
<1>1. /\ q \in Seq(Cell) /\ L \in Nat /\ i \in 0 .. L /\ m \in Cell
      /\ \A k \in 1 .. L : q[k] \in Cell /\ q[k] # m
      /\ at \in Nat
  BY InsertedFacts, MaxTimeAssumption DEF Time
<1>2. Len(r) = L + 1
  BY <1>1, InsertAtShape
<1>3. \A k \in 1 .. L + 1 :
        \/ k = i + 1 /\ r[k] = m
        \/ k <= i /\ k \in 1 .. L /\ r[k] = q[k]
        \/ k > i + 1 /\ k - 1 \in 1 .. L /\ r[k] = q[k - 1]
  BY <1>1, InsertedCells
<1>4. t'[m] = at /\ \A k \in 1 .. L : t'[q[k]] = t[q[k]] /\ t[q[k]] \in Nat
  BY <1>1, QueueFacts DEF Inserted, TypeOK
<1>5. /\ \A k \in 1 .. i : t[q[k]] <= at
      /\ \A k \in i + 1 .. L : at < t[q[k]]
      /\ \A k, n \in 1 .. L : k <= n => t[q[k]] <= t[q[n]]
  BY QueueFacts DEF Inserted
<1> HIDE DEF r
<1>6. ASSUME NEW k \in 1 .. L + 1, NEW n \in 1 .. L + 1, k < n
      PROVE  t'[r[k]] <= t'[r[n]]
  <2>1. CASE k = i + 1
    <3>1. n - 1 \in i + 1 .. L /\ n - 1 \in 1 .. L /\ r[n] = q[n - 1] /\ r[k] = m
      BY <1>1, <1>3, <1>6, <2>1
    <3> QED BY <1>1, <1>4, <1>5, <3>1
  <2>2. CASE k <= i /\ k \in 1 .. L /\ r[k] = q[k]
    <3>1. k \in 1 .. i
      BY <1>1, <2>2
    <3>2. CASE n = i + 1 /\ r[n] = m
      BY <1>1, <1>4, <1>5, <2>2, <3>1, <3>2
    <3>3. CASE n <= i /\ n \in 1 .. L /\ r[n] = q[n]
      BY <1>1, <1>4, <1>5, <1>6, <2>2, <3>3
    <3>4. CASE n > i + 1 /\ n - 1 \in 1 .. L /\ r[n] = q[n - 1]
      <4>1. k <= n - 1
        BY <1>1, <1>6
      <4> QED BY <1>4, <1>5, <2>2, <3>4, <4>1
    <3> QED BY <1>3, <3>2, <3>3, <3>4
  <2>3. CASE k > i + 1 /\ k - 1 \in 1 .. L /\ r[k] = q[k - 1]
    <3>1. n - 1 \in 1 .. L /\ r[n] = q[n - 1] /\ k - 1 <= n - 1
      BY <1>1, <1>3, <1>6, <2>3
    <3> QED BY <1>4, <1>5, <2>3, <3>1
  <2> QED BY <1>3, <2>1, <2>2, <2>3
<1>7. mTail' = r[L + 1]
  <2>1. L + 1 \in 1 .. L + 1 /\ mTail' = IF i = L THEN m ELSE mTail
    BY <1>1 DEF Inserted
  <2>2. CASE i = L
    BY <1>1, <1>3, <2>1, <2>2
  <2>3. CASE i # L
    <3>1. L # 0 /\ (L + 1) - 1 = L /\ ~ (L + 1 <= i) /\ L + 1 # i + 1
      BY <1>1, <2>3
    <3>2. r[L + 1] = q[L]
      BY <1>3, <2>1, <3>1
    <3> QED BY <2>1, <2>3, <3>1, <3>2 DEF Lists, InOrder
  <2> QED BY <2>2, <2>3
<1> QED BY <1>2, <1>6, <1>7 DEF InOrder, r

LEMMA InsertedKeeps ==
  ASSUME TypeOK, NEW q, NEW p, Lists(q, p), NEW i, NEW at \in Time, Inserted(q, i, at),
         NEW m, m = mPool
  PROVE  TypeOK' /\ Lists(InsertAt(q, i, m), Tail(p))'
<1>1. TypeOK'
  BY InsertedFacts, InsertedTypeOK
<1> QED BY <1>1, InsertedHeld, InsertedApart, InsertedPlaced, InsertedInOrder DEF Lists

-----------------------------------------------------------------------------
(* update() *)

LEMMA CallsShape ==
  ASSUME TypeOK
  PROVE  /\ Len(calls) \in Nat /\ DOMAIN calls = 1 .. Len(calls)
         /\ calls # <<>> <=> Len(calls) # 0
         /\ \A i \in 1 .. Len(calls) : calls[i] \in Frame
         /\ \A i \in 1 .. Len(calls) :
              /\ calls[i].cell \in Cell \cup {NULL} /\ calls[i].until \in Time
              /\ calls[i] = [until |-> calls[i].until, cell |-> calls[i].cell]
<1>1. calls \in Seq(Frame) /\ Len(calls) \in Nat /\ DOMAIN calls = 1 .. Len(calls)
  BY LenProperties DEF TypeOK
<1>2. \A i \in 1 .. Len(calls) : calls[i] \in Frame
  BY <1>1, ElementOfSeq
<1> QED BY <1>1, <1>2, EmptySeq DEF Frame

\* An update that begins or ends runs no message: the cells stay where they are.
LEMMA SameCellsKeep ==
  ASSUME NEW q, NEW p, Lists(q, p),
         Busy' = Busy, \A b \in Busy : calls'[b].cell = calls[b].cell,
         UNCHANGED <<next, t, mHead, mTail, mPool>>
  PROVE  Lists(q, p)'
<1>1. Held(q, p)' /\ InOrder(q)'
  BY DEF Lists, Held, InOrder
<1>2. Apart(q, p)'
  BY DEF Lists, Apart
<1>3. Placed(q, p)'
  BY DEF Lists, Placed
<1> QED BY <1>1, <1>2, <1>3 DEF Lists

LEMMA UpdateKeeps ==
  ASSUME TypeOK, NEW q, NEW p, Lists(q, p), NEW until \in Time, Update(until)
  PROVE  TypeOK' /\ Lists(q, p)'
<1> DEFINE new == [until |-> until, cell |-> NULL]
           N == Len(calls)
<1>1. new \in Frame /\ N \in Nat /\ calls \in Seq(Frame)
  BY CallsShape DEF Frame, TypeOK
<1>2. /\ calls' \in Seq(Frame) /\ Len(calls') = N + 1
      /\ \A i \in 1 .. N : calls'[i] = calls[i]
      /\ calls'[N + 1] = new
  BY <1>1, AppendProperties DEF Update
<1>3. new.cell = NULL
  OBVIOUS
<1> HIDE DEF new
<1>4. TypeOK'
  BY <1>2 DEF TypeOK, Update
<1>5. Busy' = Busy
  BY <1>1, <1>2, <1>3 DEF Busy
<1>6. \A b \in Busy : calls'[b].cell = calls[b].cell
  BY <1>2 DEF Busy
<1> QED BY <1>4, <1>5, <1>6, SameCellsKeep DEF Update

LEMMA UpdateReturnKeeps ==
  ASSUME TypeOK, NEW q, NEW p, Lists(q, p), UpdateReturn
  PROVE  TypeOK' /\ Lists(q, p)'
<1> DEFINE N == Len(calls)
<1>1. /\ N \in Nat /\ N # 0 /\ N \in 1 .. N /\ calls \in Seq(Frame)
      /\ calls[N].cell = NULL /\ calls[N].until \in Time
  <2>1. N \in Nat /\ N # 0 /\ calls \in Seq(Frame) /\ calls[N].cell = NULL
    BY CallsShape DEF UpdateReturn, Updating, TypeOK
  <2>2. N \in 1 .. N
    BY <2>1
  <2> QED BY <2>1, <2>2, CallsShape
<1>2. /\ calls' \in Seq(Frame) /\ Len(calls') = N - 1
      /\ \A i \in 1 .. N - 1 : calls'[i] = calls[i]
  <2>1. \A i \in 1 .. N - 1 : calls[i] \in Frame
    BY <1>1, CallsShape
  <2>2. calls' = [i \in 1 .. N - 1 |-> calls[i]]
    BY <1>1 DEF UpdateReturn
  <2>3. calls' \in [1 .. N - 1 -> Frame] /\ N - 1 \in Nat
    BY <1>1, <2>1, <2>2
  <2> QED BY <2>2, <2>3, FunctionIsSeq
<1>3. TypeOK'
  BY <1>1, <1>2 DEF TypeOK, UpdateReturn
<1>4. Busy' = Busy
  BY <1>1, <1>2 DEF Busy
<1>5. \A b \in Busy : calls'[b].cell = calls[b].cell
  BY <1>1, <1>2 DEF Busy
<1> QED BY <1>3, <1>4, <1>5, SameCellsKeep DEF UpdateReturn

\* The head of the queue becomes the message that the innermost update runs.
LEMMA CallHeadKeeps ==
  ASSUME TypeOK, NEW q, NEW p, Lists(q, p), CallHead
  PROVE  TypeOK' /\ Lists(Tail(q), p)'
<1> DEFINE N == Len(calls)
           L == Len(q)
           s == Tail(q)
           m == q[1]
<1>1. /\ N \in Nat /\ N \in 1 .. N /\ calls[N].cell = NULL /\ N \notin Busy
  BY CallsShape DEF CallHead, Updating, Busy
<1>2. /\ L \in Nat /\ L # 0 /\ 1 \in 1 .. L /\ mHead = m /\ m \in Cell /\ m # NULL
      /\ q \in Seq(Cell) /\ p \in Seq(Cell)
  BY QueueFacts, ListsAreChains DEF CallHead, HeadIsDue
<1>3. /\ s \in Seq(Cell) /\ Len(s) = L - 1
      /\ \A j \in 1 .. L - 1 : s[j] = q[j + 1]
      /\ \A j \in Nat \ {0} : At(s, j) = At(q, j + 1)
  BY <1>2, TailCells
<1>4. calls' = [calls EXCEPT ![N].cell = m]
  BY <1>2 DEF CallHead
<1>5. /\ calls' \in Seq(Frame) /\ Len(calls') = N
      /\ calls'[N].cell = m
      /\ \A i \in 1 .. N : i # N => calls'[i] = calls[i]
  <2> DEFINE f == [calls[N] EXCEPT !.cell = m]
  <2>1. f \in Frame /\ f.cell = m
    BY <1>1, <1>2, CallsShape DEF Frame
  <2>2. calls' = [calls EXCEPT ![N] = f]
    BY <1>4
  <2> HIDE DEF f
  <2>3. calls \in Seq(Frame)
    BY DEF TypeOK
  <2>4. calls' \in Seq(Frame) /\ Len(calls') = N
    BY <1>1, <2>1, <2>2, <2>3, ExceptSeq
  <2>5. \A i \in 1 .. N : calls'[i] = IF i = N THEN f ELSE calls[i]
    BY <1>1, <2>2, CallsShape
  <2> QED BY <1>1, <2>1, <2>4, <2>5
<1>6. TypeOK'
  <2>1. mNow' \in Time
    <3>1. mNow' = mNow \/ mNow' = t[mHead]
      BY DEF CallHead, Later
    <3> QED BY <1>2, <3>1 DEF TypeOK
  <2> QED BY <1>5, <2>1 DEF TypeOK, CallHead
<1>7. Busy' = Busy \cup {N}
  BY <1>1, <1>2, <1>5 DEF Busy
<1>8. \A b \in Busy : b # N /\ calls'[b].cell = calls[b].cell
  BY <1>1, <1>5 DEF Busy
<1>9. /\ next' = next /\ t' = t /\ mPool' = mPool /\ mTail' = mTail
      /\ mHead' = next[m]
  BY <1>2 DEF CallHead
<1>10. \A j \in 1 .. L - 1 : j + 1 \in 1 .. L /\ j + 1 # 1
  BY <1>2
<1> HIDE DEF s, m
<1>11. Held(s, p)'
  <2>1. \A i \in 1 .. L : next[q[i]] = At(q, i + 1)
    BY QueueFacts
  <2>2. mHead' = At(s, 1)
    <3>1. next[m] = At(q, 1 + 1)
      BY <1>2, <2>1 DEF m
    <3>2. At(s, 1) = At(q, 1 + 1)
      BY <1>3
    <3> QED BY <1>9, <3>1, <3>2
  <2>3. ASSUME NEW j \in 1 .. Len(s) PROVE next[s[j]] = At(s, j + 1)
    <3>1. j \in 1 .. L - 1 /\ j + 1 \in 1 .. L /\ j + 1 \in Nat \ {0}
      BY <1>2, <1>3
    <3> QED BY <1>3, <2>1, <3>1
  <2>4. Linked(next', mHead', s)
    BY <1>9, <2>2, <2>3 DEF Linked
  <2>5. Linked(next', mPool', p)
    BY <1>9 DEF Lists, Held
  <2> QED BY <1>2, <1>3, <2>4, <2>5 DEF Held
<1>12. Apart(s, p)'
  <2>1. /\ \A i, j \in 1 .. L : q[i] = q[j] => i = j
        /\ Distinct(p)
        /\ \A i \in 1 .. L, j \in 1 .. Len(p) : q[i] # p[j]
        /\ \A b \in Busy, i \in 1 .. L : calls[b].cell # q[i]
        /\ \A b \in Busy, j \in 1 .. Len(p) : calls[b].cell # p[j]
        /\ \A b, d \in Busy : calls[b].cell = calls[d].cell => b = d
    BY DEF Lists, Apart, Distinct
  <2>2. Distinct(s)
    <3> SUFFICES ASSUME NEW i \in 1 .. L - 1, NEW j \in 1 .. L - 1, s[i] = s[j]
                 PROVE  i = j
      BY <1>3 DEF Distinct
    <3>1. q[i + 1] = q[j + 1]
      BY <1>3
    <3>2. i + 1 = j + 1
      BY <1>10, <2>1, <3>1, Zenon
    <3> QED BY <3>2
  <2>a. \A i \in 1 .. Len(s) : i + 1 \in 1 .. L /\ i + 1 # 1 /\ s[i] = q[i + 1]
    BY <1>3, <1>10
  <2>3. \A i \in 1 .. Len(s), j \in 1 .. Len(p) : s[i] # p[j]
    <3> TAKE i \in 1 .. Len(s), j \in 1 .. Len(p)
    <3> QED BY <2>1, <2>a
  <2>4. \A i \in 1 .. Len(s) : m # s[i]
    <3> TAKE i \in 1 .. Len(s)
    <3> QED BY <1>2, <2>1, <2>a DEF m
  <2>5. \A b \in Busy, i \in 1 .. Len(s) : calls[b].cell # s[i]
    <3> TAKE b \in Busy, i \in 1 .. Len(s)
    <3> QED BY <2>1, <2>a
  <2>6. \A j \in 1 .. Len(p) : m # p[j]
    BY <1>2, <2>1 DEF m
  <2>7. \A b \in Busy : m # calls[b].cell
    BY <1>2, <2>1 DEF m
  <2>8. /\ \A b \in Busy', i \in 1 .. Len(s) : calls'[b].cell # s[i]
        /\ \A b \in Busy', j \in 1 .. Len(p) : calls'[b].cell # p[j]
    BY <1>5, <1>7, <1>8, <2>1, <2>4, <2>5, <2>6
  <2>9. \A b, d \in Busy' : calls'[b].cell = calls'[d].cell => b = d
    BY <1>5, <1>7, <1>8, <2>1, <2>7
  <2> QED BY <2>1, <2>2, <2>3, <2>8, <2>9 DEF Apart
<1>13. Placed(s, p)'
  <2>1. ASSUME NEW c \in Cell
        PROVE  \/ \E i \in 1 .. Len(s) : s[i] = c
               \/ \E j \in 1 .. Len(p) : p[j] = c
               \/ \E b \in Busy' : calls'[b].cell = c
    <3>1. CASE \E i \in 1 .. L : q[i] = c
      <4>1. PICK i \in 1 .. L : q[i] = c
        BY <3>1
      <4>2. CASE i = 1
        BY <1>5, <1>7, <4>1, <4>2 DEF m
      <4>3. CASE i # 1
        <5>1. i - 1 \in 1 .. L - 1 /\ (i - 1) + 1 = i
          BY <1>2, <4>3
        <5>2. s[i - 1] = q[(i - 1) + 1]
          BY <1>3, <5>1
        <5> QED BY <1>3, <4>1, <5>1, <5>2
      <4> QED BY <4>2, <4>3
    <3>2. CASE \E b \in Busy : calls[b].cell = c
      BY <1>7, <1>8, <3>2
    <3> QED BY <3>1, <3>2 DEF Lists, Placed
  <2>2. Cardinality(Busy') = Cardinality(Busy) + 1 /\ Cardinality(Busy) \in Nat
    BY <1>1, <1>7, BusyIsFinite, FS_AddElement
  <2>3. Len(p) \in Nat
    BY <1>2, LenProperties
  <2>4. Len(q) + Len(p) + Cardinality(Busy) = NumCells
    BY DEF Lists, Placed
  <2>5. Len(s) + Len(p) + Cardinality(Busy') = NumCells
    BY <1>2, <1>3, <2>2, <2>3, <2>4
  <2> QED BY <2>1, <2>5 DEF Placed
<1>14. InOrder(s)'
  <2>1. ASSUME NEW i \in 1 .. L - 1, NEW j \in 1 .. L - 1, i < j
        PROVE  t[s[i]] <= t[s[j]]
    <3>1. i + 1 \in 1 .. L /\ j + 1 \in 1 .. L /\ i + 1 <= j + 1
      BY <1>2, <2>1
    <3> QED BY <1>3, <3>1, QueueFacts
  <2>2. Len(s) # 0 => mTail' = s[Len(s)]
    <3> SUFFICES ASSUME L - 1 # 0 PROVE mTail = s[L - 1]
      BY <1>3, <1>9
    <3>1. L - 1 \in 1 .. L - 1 /\ (L - 1) + 1 = L
      <4>1. L \in Nat /\ L # 0 /\ L # 1
        BY <1>2
      <4> HIDE DEF L
      <4>2. L - 1 >= 1 /\ L - 1 \in Nat
        BY <4>1
      <4> QED BY <4>1, <4>2
    <3>2. s[L - 1] = q[(L - 1) + 1]
      BY <1>3, <3>1
    <3> QED BY <1>2, <3>1, <3>2 DEF Lists, InOrder
  <2> QED BY <1>3, <1>9, <2>1, <2>2 DEF InOrder
<1> QED BY <1>6, <1>11, <1>12, <1>13, <1>14 DEF Lists, s

\* The cell of the message that returns goes to the head of the pool.
LEMMA CallReturnKeeps ==
  ASSUME TypeOK, NEW q, NEW p, Lists(q, p), CallReturn,
         NEW m, m = calls[Len(calls)].cell
  PROVE  TypeOK' /\ Lists(q, InsertAt(p, 0, m))'
<1> DEFINE N == Len(calls)
           L == Len(p)
           r == InsertAt(p, 0, m)
<1>1. /\ N \in Nat /\ N \in 1 .. N /\ m \in Cell /\ N \in Busy
  <2>1. N \in Nat /\ N # 0 /\ m # NULL
    BY CallsShape DEF CallReturn
  <2>2. N \in 1 .. N
    BY <2>1
  <2> QED BY <2>1, <2>2, CallsShape DEF Busy
<1>2. /\ q \in Seq(Cell) /\ p \in Seq(Cell) /\ L \in Nat
      /\ \A i \in 1 .. Len(q) : q[i] \in Cell
      /\ \A j \in 1 .. L : p[j] \in Cell
  BY ListsAreChains, ElementOfSeq
<1>3. /\ r \in Seq(Cell) /\ Len(r) = L + 1 /\ r[1] = m
      /\ \A j \in 1 .. L : r[j + 1] = p[j]
  <2>1. 0 \in 0 .. Len(p)
    BY <1>2
  <2> HIDE DEF r
  <2>2. r \in Seq(Cell) /\ Len(r) = L + 1 /\ r[0 + 1] = m
    BY <1>1, <1>2, <2>1, InsertAtShape DEF r
  <2>3. \A j \in 0 + 1 .. L : r[j + 1] = p[j]
    BY <1>1, <1>2, <2>1, InsertAtShape DEF r
  <2> QED BY <2>2, <2>3
<1> HIDE DEF r
<1>4. /\ calls' \in Seq(Frame) /\ Len(calls') = N
      /\ calls'[N].cell = NULL
      /\ \A i \in 1 .. N : i # N => calls'[i] = calls[i]
  <2> DEFINE f == [calls[N] EXCEPT !.cell = NULL]
  <2>1. f \in Frame /\ f.cell = NULL
    BY <1>1, CallsShape DEF Frame
  <2>2. calls' = [calls EXCEPT ![N] = f]
    BY DEF CallReturn
  <2> HIDE DEF f
  <2>3. calls \in Seq(Frame)
    BY DEF TypeOK
  <2>4. calls' \in Seq(Frame) /\ Len(calls') = N
    BY <1>1, <2>1, <2>2, <2>3, ExceptSeq
  <2>5. \A i \in 1 .. N : calls'[i] = IF i = N THEN f ELSE calls[i]
    BY <1>1, <2>2, CallsShape
  <2> QED BY <1>1, <2>1, <2>4, <2>5
<1>5. /\ next' = [next EXCEPT ![m] = mPool] /\ mPool' = m
      /\ UNCHANGED <<t, mHead, mTail, mNow>>
  BY DEF CallReturn, Recycle
<1>6. mPool = At(p, 1) /\ mPool \in Cell \cup {NULL}
  <2>1. mPool = At(p, 1)
    BY DEF Lists, Held, Linked
  <2> QED BY <1>2, <2>1, AtShape
<1>7. TypeOK'
  BY <1>1, <1>4, <1>5, <1>6 DEF TypeOK
<1>8. Busy' = Busy \ {N}
  BY <1>1, <1>4 DEF Busy
<1>9. \A b \in Busy : b # N => calls'[b].cell = calls[b].cell
  BY <1>4 DEF Busy
<1>10. /\ Distinct(q) /\ \A i, j \in 1 .. L : p[i] = p[j] => i = j
       /\ \A i \in 1 .. Len(q), j \in 1 .. L : q[i] # p[j]
       /\ \A b \in Busy, i \in 1 .. Len(q) : calls[b].cell # q[i]
       /\ \A b \in Busy, j \in 1 .. L : calls[b].cell # p[j]
       /\ \A b, d \in Busy : calls[b].cell = calls[d].cell => b = d
  BY DEF Lists, Apart, Distinct
<1>11. /\ \A i \in 1 .. Len(q) : q[i] # m
       /\ \A j \in 1 .. L : p[j] # m
       /\ \A b \in Busy : b # N => calls[b].cell # m
  BY <1>1, <1>10
<1>12. \A j \in 1 .. L + 1 : j = 1 \/ (j - 1 \in 1 .. L /\ r[j] = p[j - 1])
  <2> TAKE j \in 1 .. L + 1
  <2> SUFFICES ASSUME j # 1 PROVE j - 1 \in 1 .. L /\ r[j] = p[j - 1]
    OBVIOUS
  <2>1. j - 1 \in 1 .. L /\ (j - 1) + 1 = j
    BY <1>2
  <2>2. r[(j - 1) + 1] = p[j - 1]
    BY <1>3, <2>1, Zenon
  <2> QED BY <2>1, <2>2
<1>13. Held(q, r)'
  <2>1. /\ \A i \in 1 .. Len(q) : next[q[i]] = At(q, i + 1)
        /\ \A j \in 1 .. L : next[p[j]] = At(p, j + 1)
        /\ mHead = At(q, 1)
    BY DEF Lists, Held, Linked
  <2>2. \A c \in Cell : next'[c] = IF c = m THEN mPool ELSE next[c]
    BY <1>5 DEF TypeOK
  <2>3. Linked(next', mHead', q)
    BY <1>2, <1>5, <1>11, <2>1, <2>2 DEF Linked
  <2>4. \A j \in 1 .. L + 1 : At(r, j + 1) = At(p, j)
    <3> TAKE j \in 1 .. L + 1
    <3>1. j + 1 \in 1 .. L + 1 <=> j \in 1 .. L
      BY <1>2
    <3> QED BY <1>3, <3>1 DEF At
  <2>5. ASSUME NEW j \in 1 .. L + 1 PROVE next'[r[j]] = At(r, j + 1)
    <3>1. CASE j = 1
      <4>1. next'[r[j]] = mPool /\ 1 \in 1 .. L + 1
        BY <1>1, <1>2, <1>3, <2>2, <3>1
      <4> QED BY <1>6, <2>4, <3>1, <4>1
    <3>2. CASE j - 1 \in 1 .. L /\ r[j] = p[j - 1]
      <4>1. (j - 1) + 1 = j
        BY <1>2
      <4>2. next[p[j - 1]] = At(p, j)
        BY <2>1, <3>2, <4>1
      <4>3. next'[p[j - 1]] = next[p[j - 1]]
        BY <1>2, <1>11, <2>2, <3>2
      <4> QED BY <2>4, <3>2, <4>2, <4>3
    <3> QED BY <1>12, <3>1, <3>2
  <2>6. mPool' = At(r, 1)
    BY <1>2, <1>3, <1>5 DEF At
  <2>7. Linked(next', mPool', r)
    BY <1>3, <2>5, <2>6 DEF Linked
  <2> QED BY <1>2, <1>3, <2>3, <2>7 DEF Held
<1>14. Apart(q, r)'
  <2>1. Distinct(r)
    <3> SUFFICES ASSUME NEW i \in 1 .. L + 1, NEW j \in 1 .. L + 1, r[i] = r[j]
                 PROVE  i = j
      BY <1>3 DEF Distinct
    <3>1. CASE i = 1
      <4>1. ASSUME j # 1 PROVE FALSE
        BY <1>3, <1>11, <1>12, <3>1, <4>1
      <4> QED BY <3>1, <4>1
    <3>2. CASE i # 1
      <4>1. i - 1 \in 1 .. L /\ r[i] = p[i - 1]
        BY <1>12, <3>2
      <4>2. j # 1
        BY <1>3, <1>11, <4>1
      <4>3. j - 1 \in 1 .. L /\ r[j] = p[j - 1]
        BY <1>12, <4>2
      <4>4. i - 1 = j - 1
        BY <1>10, <4>1, <4>3
      <4> QED BY <4>4
    <3> QED BY <3>1, <3>2
  <2>2. \A i \in 1 .. Len(q), j \in 1 .. L + 1 : q[i] # r[j]
    <3> TAKE i \in 1 .. Len(q), j \in 1 .. L + 1
    <3>1. CASE j = 1
      BY <1>3, <1>11, <3>1
    <3>2. CASE j - 1 \in 1 .. L /\ r[j] = p[j - 1]
      BY <1>10, <3>2
    <3> QED BY <1>12, <3>1, <3>2
  <2>3. \A b \in Busy' : b \in Busy /\ b # N /\ calls'[b].cell = calls[b].cell
    BY <1>8, <1>9
  <2>4. \A b \in Busy', i \in 1 .. Len(q) : calls'[b].cell # q[i]
    BY <1>10, <2>3
  <2>5. \A b \in Busy', j \in 1 .. L + 1 : calls'[b].cell # r[j]
    BY <1>3, <1>10, <1>11, <1>12, <2>3
  <2>6. \A b, d \in Busy' : calls'[b].cell = calls'[d].cell => b = d
    BY <1>10, <2>3
  <2> QED BY <1>3, <1>10, <2>1, <2>2, <2>4, <2>5, <2>6 DEF Apart
<1>15. Placed(q, r)'
  <2>1. ASSUME NEW c \in Cell
        PROVE  \/ \E i \in 1 .. Len(q) : q[i] = c
               \/ \E j \in 1 .. Len(r) : r[j] = c
               \/ \E b \in Busy' : calls'[b].cell = c
    <3>1. CASE \E j \in 1 .. L : p[j] = c
      <4>1. PICK j \in 1 .. L : p[j] = c
        BY <3>1
      <4>2. j + 1 \in 1 .. L + 1
        BY <1>2
      <4> QED BY <1>3, <4>1, <4>2
    <3>2. CASE \E b \in Busy : calls[b].cell = c
      <4>1. PICK b \in Busy : calls[b].cell = c
        BY <3>2
      <4>2. CASE b = N
        <5>1. 1 \in 1 .. L + 1
          BY <1>2
        <5> QED BY <1>3, <4>1, <4>2, <5>1
      <4>3. CASE b # N
        BY <1>8, <1>9, <4>1, <4>3
      <4> QED BY <4>2, <4>3
    <3> QED BY <3>1, <3>2 DEF Lists, Placed
  <2>2. Cardinality(Busy') = Cardinality(Busy) - 1 /\ Cardinality(Busy) \in Nat
    BY <1>1, <1>8, BusyIsFinite, FS_RemoveElement
  <2>3. Len(q) \in Nat /\ Len(q) + L + Cardinality(Busy) = NumCells
    BY <1>2, LenProperties DEF Lists, Placed
  <2>4. Len(q) + Len(r) + Cardinality(Busy') = NumCells
    BY <1>2, <1>3, <2>2, <2>3
  <2> QED BY <2>1, <2>4 DEF Placed
<1>16. InOrder(q)'
  BY <1>5 DEF Lists, InOrder
<1> QED BY <1>7, <1>13, <1>14, <1>15, <1>16 DEF Lists, r

-----------------------------------------------------------------------------
(* clear() *)

\* q backwards, followed by p
Reversed(q, p) ==
  [k \in 1 .. Len(q) + Len(p) |->
     IF k <= Len(q) THEN q[Len(q) + 1 - k] ELSE p[k - Len(q)]]

LEMMA ReversedShape ==
  ASSUME NEW q \in Seq(Cell), NEW p \in Seq(Cell)
  PROVE  /\ Reversed(q, p) \in Seq(Cell)
         /\ Len(Reversed(q, p)) = Len(q) + Len(p)
         /\ \A k \in 1 .. Len(q) + Len(p) :
              \/ /\ k <= Len(q) /\ Len(q) + 1 - k \in 1 .. Len(q)
                 /\ Reversed(q, p)[k] = q[Len(q) + 1 - k]
              \/ /\ k > Len(q) /\ k - Len(q) \in 1 .. Len(p)
                 /\ Reversed(q, p)[k] = p[k - Len(q)]
<1> DEFINE r == Reversed(q, p)
<1>1. Len(q) \in Nat /\ Len(p) \in Nat
  BY LenProperties
<1>2. \A k \in 1 .. Len(q) + Len(p) :
        r[k] = IF k <= Len(q) THEN q[Len(q) + 1 - k] ELSE p[k - Len(q)]
  BY DEF Reversed
<1>3. ASSUME NEW k \in 1 .. Len(q) + Len(p)
      PROVE  \/ k <= Len(q) /\ Len(q) + 1 - k \in 1 .. Len(q) /\ r[k] = q[Len(q) + 1 - k]
             \/ k > Len(q) /\ k - Len(q) \in 1 .. Len(p) /\ r[k] = p[k - Len(q)]
  <2>1. CASE k <= Len(q)
    <3>1. Len(q) + 1 - k \in 1 .. Len(q)
      BY <1>1, <2>1
    <3> QED BY <1>2, <2>1, <3>1
  <2>2. CASE k > Len(q)
    <3>1. k - Len(q) \in 1 .. Len(p) /\ ~ (k <= Len(q))
      BY <1>1, <2>2
    <3> QED BY <1>2, <2>2, <3>1
  <2> QED BY <1>1, <2>1, <2>2
<1>4. \A k \in 1 .. Len(q) + Len(p) : r[k] \in Cell
  BY <1>3, ElementOfSeq
<1>5. r \in [1 .. Len(q) + Len(p) -> Cell]
  BY <1>4 DEF Reversed
<1>6. r \in Seq(Cell) /\ Len(r) = Len(q) + Len(p)
  BY <1>1, <1>5, FunctionIsSeq
<1> QED BY <1>3, <1>6

\* Where clear() makes the cells of the queue point to: each to the one before
\* it, the first one to the pool
LEMMA ClearLinks ==
  ASSUME TypeOK, NEW q, NEW p, Lists(q, p), Clear
  PROVE  /\ \A c \in Cell : (\A i \in 1 .. Len(q) : q[i] # c) => next'[c] = next[c]
         /\ 1 \in 1 .. Len(q) => next'[q[1]] = mPool
         /\ \A i \in 1 .. Len(q) : i # 1 => next'[q[i]] = q[i - 1]
         /\ mPool' = IF Len(q) = 0 THEN mPool ELSE q[Len(q)]
<1> DEFINE place(c) == CHOOSE i \in 1 .. Len(q) : q[i] = c
           Links(s) == [c \in Cell |->
                          IF \A i \in 1 .. Len(s) : s[i] # c THEN next[c]
                          ELSE IF (CHOOSE i \in 1 .. Len(s) : s[i] = c) = 1 THEN mPool
                          ELSE s[(CHOOSE i \in 1 .. Len(s) : s[i] = c) - 1]]
           Pool(s) == IF s = <<>> THEN mPool ELSE s[Len(s)]
<1>1. /\ q \in Seq(Cell) /\ Len(q) \in Nat /\ Queued = q
      /\ \A i \in 1 .. Len(q) : q[i] \in Cell
      /\ \A i, j \in 1 .. Len(q) : q[i] = q[j] => i = j
  BY ListsAreChains, ElementOfSeq DEF Lists, Apart, Distinct
<1>2. /\ next' = [c \in Cell |->
                    IF \A i \in 1 .. Len(q) : q[i] # c THEN next[c]
                    ELSE IF place(c) = 1 THEN mPool ELSE q[place(c) - 1]]
      /\ mPool' = IF q = <<>> THEN mPool ELSE q[Len(q)]
  <2>1. next' = Links(Queued) /\ mPool' = Pool(Queued)
    BY Zenon DEF Clear
  <2> HIDE DEF Links, Pool
  <2>2. next' = Links(q) /\ mPool' = Pool(q)
    BY <1>1, <2>1
  <2> QED BY <2>2, Zenon DEF Links, Pool
<1>3. \A i \in 1 .. Len(q) : place(q[i]) = i
  <2> TAKE i \in 1 .. Len(q)
  <2>1. place(q[i]) \in 1 .. Len(q) /\ q[place(q[i])] = q[i]
    OBVIOUS
  <2> HIDE DEF place
  <2> QED BY <1>1, <2>1
<1> HIDE DEF place
<1>4. ASSUME NEW i \in 1 .. Len(q)
      PROVE  next'[q[i]] = IF i = 1 THEN mPool ELSE q[i - 1]
  BY <1>1, <1>2, <1>3
<1>5. \A c \in Cell : (\A i \in 1 .. Len(q) : q[i] # c) => next'[c] = next[c]
  BY <1>2
<1>6. q = <<>> <=> Len(q) = 0
  BY <1>1, EmptySeq
<1> QED BY <1>2, <1>4, <1>5, <1>6

LEMMA ClearKeeps ==
  ASSUME TypeOK, NEW q, NEW p, Lists(q, p), Clear
  PROVE  TypeOK' /\ Lists(<<>>, Reversed(q, p))'
<1> DEFINE r == Reversed(q, p)
           L == Len(q)
           M == Len(p)
<1>1. /\ q \in Seq(Cell) /\ L \in Nat /\ p \in Seq(Cell) /\ M \in Nat
      /\ \A i \in 1 .. L : q[i] \in Cell
      /\ \A j \in 1 .. M : p[j] \in Cell
  BY ListsAreChains, ElementOfSeq
<1>2. /\ r \in Seq(Cell) /\ Len(r) = L + M
      /\ \A k \in 1 .. L + M :
           \/ k <= L /\ L + 1 - k \in 1 .. L /\ r[k] = q[L + 1 - k]
           \/ k > L /\ k - L \in 1 .. M /\ r[k] = p[k - L]
  BY <1>1, ReversedShape
<1> HIDE DEF r
<1>3. /\ \A c \in Cell : (\A i \in 1 .. L : q[i] # c) => next'[c] = next[c]
      /\ 1 \in 1 .. L => next'[q[1]] = mPool
      /\ \A i \in 1 .. L : i # 1 => next'[q[i]] = q[i - 1]
      /\ mPool' = IF L = 0 THEN mPool ELSE q[L]
  BY ClearLinks
<1>4. /\ \A i, j \in 1 .. L : q[i] = q[j] => i = j
      /\ \A i, j \in 1 .. M : p[i] = p[j] => i = j
      /\ \A i \in 1 .. L, j \in 1 .. M : q[i] # p[j]
      /\ \A b \in Busy, i \in 1 .. L : calls[b].cell # q[i]
      /\ \A b \in Busy, j \in 1 .. M : calls[b].cell # p[j]
      /\ \A b, d \in Busy : calls[b].cell = calls[d].cell => b = d
  BY DEF Lists, Apart, Distinct
<1>5. mPool = At(p, 1) /\ \A j \in 1 .. M : next[p[j]] = At(p, j + 1)
  BY DEF Lists, Held, Linked
<1>6. UNCHANGED <<t, calls>> /\ mNow' = 0 /\ mHead' = NULL /\ Busy' = Busy
  BY DEF Clear, Busy
<1>7. <<>> \in Seq(Cell) /\ Len(<<>>) = 0
  BY EmptySeq
<1>8. mPool \in Cell \cup {NULL}
  BY <1>1, <1>5, AtShape
<1>9. TypeOK'
  <2>1. ASSUME NEW c \in Cell PROVE next'[c] \in Cell \cup {NULL}
    <3>1. CASE \A i \in 1 .. L : q[i] # c
      BY <1>3, <3>1 DEF TypeOK
    <3>2. CASE \E i \in 1 .. L : q[i] = c
      <4>1. PICK i \in 1 .. L : q[i] = c
        BY <3>2
      <4>2. CASE i = 1
        BY <1>3, <1>8, <4>1, <4>2
      <4>3. CASE i # 1
        <5>1. i - 1 \in 1 .. L
          BY <1>1, <4>3
        <5> QED BY <1>1, <1>3, <4>1, <4>3, <5>1
      <4> QED BY <4>2, <4>3
    <3> QED BY <3>1, <3>2
  <2>2. next' = [c \in Cell |-> next'[c]]
    BY DEF Clear
  <2>3. next' \in [Cell -> Cell \cup {NULL}]
    BY <2>1, <2>2, Zenon
  <2>4. 0 \in Time
    BY MaxTimeAssumption DEF Time
  <2> QED BY <1>6, <2>3, <2>4 DEF TypeOK
<1>10. \A k \in 1 .. L : k \in 1 .. L + M /\ r[k] = q[L + 1 - k]
  BY <1>1, <1>2
<1>11. \A j \in 1 .. M : L + j \in 1 .. L + M /\ r[L + j] = p[j]
  <2> TAKE j \in 1 .. M
  <2>1. L + j \in 1 .. L + M /\ ~ (L + j <= L) /\ (L + j) - L = j
    BY <1>1
  <2>2. r[L + j] = p[(L + j) - L]
    BY <1>2, <2>1
  <2> QED BY <2>1, <2>2
<1>12. Held(<<>>, r)'
  <2>1. Linked(next', mHead', <<>>)
    BY <1>6, <1>7 DEF Linked, At
  <2>2. mPool' = At(r, 1)
    <3>1. CASE L = 0
      <4>1. CASE M = 0
        BY <1>1, <1>2, <1>3, <1>5, <3>1, <4>1 DEF At
      <4>2. CASE M # 0
        <5>1. 1 \in 1 .. M /\ L + 1 = 1 /\ 1 \in 1 .. L + M
          BY <1>1, <3>1, <4>2
        <5>2. r[1] = p[1]
          BY <1>11, <5>1
        <5> QED BY <1>2, <1>3, <1>5, <3>1, <5>1, <5>2 DEF At
      <4> QED BY <4>1, <4>2
    <3>2. CASE L # 0
      <4>1. 1 \in 1 .. L /\ 1 \in 1 .. L + M /\ L + 1 - 1 = L
        BY <1>1, <3>2
      <4>2. r[1] = q[L]
        BY <1>10, <4>1
      <4> QED BY <1>2, <1>3, <3>2, <4>1, <4>2 DEF At
    <3> QED BY <3>1, <3>2
  <2>3. ASSUME NEW k \in 1 .. L + M PROVE next'[r[k]] = At(r, k + 1)
    <3>1. CASE k = L
      <4>1. k \in 1 .. L /\ L + 1 - k = 1 /\ 1 \in 1 .. L
        BY <1>1, <3>1
      <4>2. next'[r[k]] = mPool
        BY <1>3, <1>10, <4>1
      <4>3. At(r, L + 1) = At(p, 1)
        <5>1. CASE M = 0
          BY <1>1, <1>2, <5>1 DEF At
        <5>2. CASE M # 0
          <6>1. 1 \in 1 .. M
            BY <1>1, <5>2
          <6>2. L + 1 \in 1 .. L + M /\ r[L + 1] = p[1]
            BY <1>11, <6>1
          <6> QED BY <1>2, <6>1, <6>2 DEF At
        <5> QED BY <5>1, <5>2
      <4> QED BY <1>5, <3>1, <4>2, <4>3
    <3>2. CASE k < L
      <4>1. /\ k \in 1 .. L /\ k + 1 \in 1 .. L /\ L + 1 - k \in 1 .. L
            /\ L + 1 - k # 1 /\ (L + 1 - k) - 1 = L + 1 - (k + 1)
        BY <1>1, <3>2
      <4>2. next'[r[k]] = q[(L + 1 - k) - 1]
        BY <1>3, <1>10, <4>1
      <4>3. k + 1 \in 1 .. L + M /\ r[k + 1] = q[L + 1 - (k + 1)]
        BY <1>10, <4>1
      <4> QED BY <1>2, <4>1, <4>2, <4>3 DEF At
    <3>3. CASE k > L
      <4> DEFINE j == k - L
      <4>1. j \in 1 .. M /\ L + j = k /\ L + (j + 1) = k + 1
        BY <1>1, <3>3
      <4> HIDE DEF j
      <4>2. r[k] = p[j] /\ p[j] \in Cell
        BY <1>1, <1>11, <4>1
      <4>3. next'[p[j]] = At(p, j + 1)
        BY <1>3, <1>4, <1>5, <4>1, <4>2
      <4>4. At(r, k + 1) = At(p, j + 1)
        <5>1. CASE j = M
          <6>1. k + 1 \notin 1 .. L + M /\ j + 1 \notin 1 .. M
            BY <1>1, <4>1, <5>1
          <6> QED BY <1>2, <6>1 DEF At
        <5>2. CASE j # M
          <6>1. j + 1 \in 1 .. M
            BY <1>1, <4>1, <5>2
          <6>2. k + 1 \in 1 .. L + M /\ r[k + 1] = p[j + 1]
            BY <1>11, <4>1, <6>1
          <6> QED BY <1>2, <6>1, <6>2 DEF At
        <5> QED BY <5>1, <5>2
      <4> QED BY <4>2, <4>3, <4>4
    <3> QED BY <1>1, <3>1, <3>2, <3>3
  <2>4. Linked(next', mPool', r)
    BY <1>2, <2>2, <2>3 DEF Linked
  <2> QED BY <1>2, <1>7, <2>1, <2>4 DEF Held
<1>13. Apart(<<>>, r)'
  <2>1. ASSUME NEW i \in 1 .. L + M, NEW j \in 1 .. L + M, r[i] = r[j]
        PROVE  i = j
    <3>1. CASE i <= L /\ L + 1 - i \in 1 .. L /\ r[i] = q[L + 1 - i]
      <4>1. j <= L /\ L + 1 - j \in 1 .. L /\ r[j] = q[L + 1 - j]
        <5>1. ~ (j - L \in 1 .. M /\ r[j] = p[j - L])
          BY <1>4, <2>1, <3>1
        <5> QED BY <1>2, <5>1
      <4>2. L + 1 - i = L + 1 - j
        BY <1>4, <2>1, <3>1, <4>1
      <4> QED BY <1>1, <4>2
    <3>2. CASE i > L /\ i - L \in 1 .. M /\ r[i] = p[i - L]
      <4>1. j > L /\ j - L \in 1 .. M /\ r[j] = p[j - L]
        <5>1. ~ (L + 1 - j \in 1 .. L /\ r[j] = q[L + 1 - j])
          BY <1>4, <2>1, <3>2
        <5> QED BY <1>2, <5>1
      <4>2. i - L = j - L
        BY <1>4, <2>1, <3>2, <4>1
      <4> QED BY <1>1, <4>2
    <3> QED BY <1>2, <3>1, <3>2
  <2>2. \A b \in Busy, k \in 1 .. L + M : calls[b].cell # r[k]
    BY <1>2, <1>4
  <2>3. Distinct(r) /\ Distinct(<<>>)
    BY <1>2, <1>7, <2>1 DEF Distinct
  <2> QED BY <1>2, <1>4, <1>6, <1>7, <2>2, <2>3 DEF Apart
<1>14. Placed(<<>>, r)'
  <2>1. ASSUME NEW c \in Cell
        PROVE  \/ \E k \in 1 .. L + M : r[k] = c
               \/ \E b \in Busy : calls[b].cell = c
    <3>1. CASE \E i \in 1 .. L : q[i] = c
      <4>1. PICK i \in 1 .. L : q[i] = c
        BY <3>1
      <4>2. L + 1 - i \in 1 .. L /\ L + 1 - (L + 1 - i) = i
        BY <1>1
      <4> QED BY <1>10, <4>1, <4>2
    <3>2. CASE \E j \in 1 .. M : p[j] = c
      BY <1>11, <3>2
    <3> QED BY <3>1, <3>2 DEF Lists, Placed
  <2>2. L + M + Cardinality(Busy) = NumCells
    BY DEF Lists, Placed
  <2>3. Len(<<>>) + Len(r) + Cardinality(Busy) = NumCells
    BY <1>1, <1>2, <1>7, <2>2
  <2> QED BY <1>2, <1>6, <2>1, <2>3 DEF Placed
<1>15. InOrder(<<>>)'
  BY <1>7 DEF InOrder
<1> QED BY <1>9, <1>12, <1>13, <1>14, <1>15 DEF Lists, r

-----------------------------------------------------------------------------
(* The safety theorems *)

LEMMA ListsGiveIInv ==
  ASSUME NEW q, NEW p, TypeOK', Lists(q, p)'
  PROVE  IInv'
BY DEF IInv, Lists, Held

LEMMA StepKeepsIInv == IInv /\ [Next]_vars => IInv'
<1> SUFFICES ASSUME IInv, [Next]_vars PROVE IInv'
  OBVIOUS
<1>1. PICK q \in Seq(Cell), p \in Seq(Cell) : TypeOK /\ Lists(q, p)
  BY DEF IInv
<1>2. ASSUME NEW at \in Time,
             \/ SchedFirst(at) \/ SchedPrepend(at) \/ SchedAppend(at) \/ SchedBetween(at)
      PROVE  IInv'
  <2>1. PICK i \in 0 .. Len(q) : Inserted(q, i, at)
    BY <1>1, <1>2, SchedInserts
  <2>2. PICK m : m = mPool
    OBVIOUS
  <2>3. TypeOK' /\ Lists(InsertAt(q, i, m), Tail(p))'
    BY <1>1, <2>1, <2>2, InsertedKeeps
  <2> QED BY <2>3, ListsGiveIInv
<1>3. ASSUME NEW until \in Time, Update(until) PROVE IInv'
  BY <1>1, <1>3, UpdateKeeps, ListsGiveIInv
<1>4. ASSUME CallHead PROVE IInv'
  BY <1>1, <1>4, CallHeadKeeps, ListsGiveIInv
<1>5. ASSUME CallReturn PROVE IInv'
  <2>1. PICK m : m = calls[Len(calls)].cell
    OBVIOUS
  <2>2. TypeOK' /\ Lists(q, InsertAt(p, 0, m))'
    BY <1>1, <1>5, <2>1, CallReturnKeeps
  <2> QED BY <2>2, ListsGiveIInv
<1>6. ASSUME UpdateReturn PROVE IInv'
  BY <1>1, <1>6, UpdateReturnKeeps, ListsGiveIInv
<1>7. ASSUME Clear PROVE IInv'
  BY <1>1, <1>7, ClearKeeps, ListsGiveIInv
<1>8. ASSUME UNCHANGED vars PROVE IInv'
  <2>1. TypeOK' /\ Busy' = Busy
    BY <1>1, <1>8 DEF vars, TypeOK, Busy
  <2>2. Lists(q, p)'
    BY <1>1, <1>8, <2>1, SameCellsKeep DEF vars
  <2> QED BY <2>1, <2>2, ListsGiveIInv
<1> QED BY <1>2, <1>3, <1>4, <1>5, <1>6, <1>7, <1>8 DEF Next

LEMMA AlwaysIInv == Spec => []IInv
<1> QED BY InitIInv, StepKeepsIInv, PTL DEF Spec

\* However updates, schedules and clears are nested, every cell is queued,
\* pooled or running, in one place only: the pool neither leaks cells nor hands
\* out one whose message is still being read.
THEOREM EveryCellInOnePlace == Spec => []CellsConserved
<1>1. ASSUME IInv PROVE CellsConserved
  <2>1. PICK q \in Seq(Cell), p \in Seq(Cell) : TypeOK /\ Lists(q, p)
    BY <1>1 DEF IInv
  <2>2. /\ Queued = q /\ Pooled = p
        /\ \A i \in 1 .. Len(q) : q[i] \in Cell
        /\ \A j \in 1 .. Len(p) : p[j] \in Cell
    BY <2>1, ListsAreChains, ElementOfSeq
  <2>3. Busy = {i \in 1 .. Len(calls) : calls[i].cell # NULL}
    BY DEF Busy
  <2>4. Running = {calls[b].cell : b \in Busy}
    BY DEF Running, Busy
  <2>5. \A b \in Busy : calls[b].cell \in Cell
    BY <2>1, CallsShape DEF Busy
  <2>6. Cells(q) \cup Cells(p) \cup Running = Cell
    BY <2>1, <2>2, <2>4, <2>5 DEF Cells, Lists, Placed
  <2>7. Len(q) + Len(p) + Cardinality(Busy) = NumCells
    BY <2>1 DEF Lists, Placed
  <2> QED BY <2>2, <2>3, <2>6, <2>7 DEF CellsConserved
<1> QED BY <1>1, AlwaysIInv, PTL

\* sched() may trust mTail whenever it reads it, although update() and a call
\* that drains the queue leave a stale one behind.
THEOREM TailIsRightWhereUsed == Spec => []TailIsLast
<1>1. ASSUME IInv PROVE TailIsLast
  <2>1. PICK q \in Seq(Cell), p \in Seq(Cell) : TypeOK /\ Lists(q, p)
    BY <1>1 DEF IInv
  <2> QED BY <2>1, ListsAreChains, QueueFacts DEF TailIsLast
<1> QED BY <1>1, AlwaysIInv, PTL

\* Nothing due is behind a head that is not due.
LEMMA NoneIsDue ==
  ASSUME TypeOK, NEW q, NEW p, Lists(q, p), Updating, ~ HeadIsDue
  PROVE  \A i \in 1 .. Len(q) : t[q[i]] > calls[Len(calls)].until
<1> TAKE i \in 1 .. Len(q)
<1>1. /\ Len(q) \in Nat /\ 1 \in 1 .. Len(q) /\ 1 <= i /\ Len(q) # 0
      /\ mHead # NULL /\ mHead = q[1]
  BY QueueFacts
<1>2. /\ t[q[1]] \in Nat /\ t[q[i]] \in Nat /\ t[q[1]] <= t[q[i]]
  BY <1>1, QueueFacts
<1>3. calls[Len(calls)].until \in Nat
  <2>1. Len(calls) \in 1 .. Len(calls)
    BY CallsShape DEF Updating
  <2> QED BY <2>1, CallsShape, MaxTimeAssumption DEF Time
<1>4. ~ (t[q[1]] <= calls[Len(calls)].until)
  BY <1>1 DEF HeadIsDue
<1> QED BY <1>2, <1>3, <1>4

\* An update, nested or not, returns only when no message is left that was due
\* by its limit, those that the messages it ran have scheduled included.
THEOREM UpdatesDrain == Spec => UpdateDrainsDue
<1>1. ASSUME IInv, [Next]_vars, Len(calls') < Len(calls)
      PROVE  \A c \in Cells(Queued') : t'[c] > calls[Len(calls)].until
  <2>1. PICK q \in Seq(Cell), p \in Seq(Cell) : TypeOK /\ Lists(q, p)
    BY <1>1 DEF IInv
  <2>2. calls \in Seq(Frame) /\ Len(calls) \in Nat
    BY <2>1, CallsShape DEF TypeOK
  <2>3. calls' # calls
    BY <1>1, <2>2
  <2>4. ASSUME NEW i, NEW v PROVE Len([calls EXCEPT ![i].cell = v]) = Len(calls)
    BY <2>2
  <2>5. ~ CallHead /\ ~ CallReturn
    BY <1>1, <2>2, <2>4 DEF CallHead, CallReturn
  <2>6. ASSUME NEW until \in Time, Update(until) PROVE FALSE
    <3>1. [until |-> until, cell |-> NULL] \in Frame
      BY DEF Frame
    <3>2. Len(calls') = Len(calls) + 1
      BY <2>2, <2>6, <3>1, AppendProperties DEF Update
    <3> QED BY <1>1, <2>2, <3>2
  <2>7. UpdateReturn
    BY <1>1, <2>3, <2>5, <2>6 DEF Next, vars, SchedFirst, SchedPrepend, SchedAppend,
       SchedBetween, Insert, Clear
  <2>8. next' = next /\ mHead' = mHead /\ t' = t /\ Updating /\ ~ HeadIsDue
    BY <2>7 DEF UpdateReturn
  <2>9. Queued' = q
    <3>1. Queued' = Chain(next, mHead)
      BY <2>8 DEF Queued
    <3> QED BY <2>1, <3>1, ListsAreChains DEF Queued
  <2>10. \A i \in 1 .. Len(q) : t[q[i]] > calls[Len(calls)].until
    BY <2>1, <2>8, NoneIsDue
  <2> QED BY <2>8, <2>9, <2>10 DEF Cells
<1>2. IInv /\ [Next]_vars =>
        [Len(calls') < Len(calls) =>
           \A c \in Cells(Queued') : t'[c] > calls[Len(calls)].until]_vars
  BY <1>1
<1> QED BY <1>2, AlwaysIInv, PTL DEF Spec, UpdateDrainsDue

-----------------------------------------------------------------------------
(* The refinement of TimedQueue *)

Entry == Cell \X Time
AbsFrame == [cell : {<<>>} \cup {<<c>> : c \in Cell}, until : Time]
AbsCalls == [i \in 1 .. Len(calls) |-> Abstract(calls[i])]

ChainsRead == \A q, p : TypeOK /\ Lists(q, p) => Queued = q

LEMMA ChainsAlwaysRead == ChainsRead
BY ListsAreChains DEF ChainsRead

LEMMA AbstractShape ==
  ASSUME NEW f \in Frame
  PROVE  /\ Abstract(f) \in AbsFrame
         /\ Abstract(f).until = f.until
         /\ f.cell = NULL => Abstract(f).cell = <<>>
         /\ f.cell # NULL => Abstract(f).cell = <<f.cell>>
         /\ Abstract(f).cell = <<>> <=> f.cell = NULL
<1>1. f.cell \in Cell \cup {NULL} /\ f.until \in Time
  BY DEF Frame
<1>2. CASE f.cell = NULL
  BY <1>1, <1>2 DEF Abstract, AbsFrame
<1>3. CASE f.cell # NULL
  BY <1>1, <1>3 DEF Abstract, AbsFrame
<1> QED BY <1>2, <1>3

LEMMA AbsCallsShape ==
  ASSUME TypeOK
  PROVE  /\ AbsCalls \in Seq(AbsFrame) /\ Len(AbsCalls) = Len(calls)
         /\ DOMAIN AbsCalls = 1 .. Len(calls)
         /\ \A i \in 1 .. Len(calls) : AbsCalls[i] = Abstract(calls[i])
         /\ AbsCalls = <<>> <=> Len(calls) = 0
<1>1. Len(calls) \in Nat /\ \A i \in 1 .. Len(calls) : calls[i] \in Frame
  BY CallsShape
<1>2. AbsCalls \in [1 .. Len(calls) -> AbsFrame]
  BY <1>1, AbstractShape DEF AbsCalls
<1>3. AbsCalls \in Seq(AbsFrame) /\ Len(AbsCalls) = Len(calls)
  BY <1>1, <1>2, FunctionIsSeq
<1> QED BY <1>3, EmptySeq DEF AbsCalls

\* The abstract queue runs an update, or its client, when the lists do.
LEMMA UpdatingMaps ==
  ASSUME TypeOK
  PROVE  Ordered!Updating <=> Updating
<1>1. AbsCalls = <<>> <=> calls = <<>>
  BY CallsShape, AbsCallsShape
<1>2. ASSUME calls # <<>>
      PROVE  AbsCalls[Len(AbsCalls)].cell = <<>> <=> calls[Len(calls)].cell = NULL
  <2>1. Len(calls) \in Nat /\ Len(calls) # 0 /\ Len(AbsCalls) = Len(calls)
    BY <1>2, CallsShape, AbsCallsShape
  <2>2. Len(calls) \in 1 .. Len(calls)
    BY <2>1
  <2> QED BY <2>1, <2>2, CallsShape, AbsCallsShape, AbstractShape
<1> QED BY <1>1, <1>2 DEF Ordered!Updating, Ordered!None, Updating, AbsCalls

LEMMA EntriesShape ==
  ASSUME TypeOK, NEW q \in Seq(Cell)
  PROVE  /\ Entries(q) \in Seq(Entry) /\ Len(Entries(q)) = Len(q) /\ Len(q) \in Nat
         /\ \A i \in 1 .. Len(q) : /\ Entries(q)[i] = <<q[i], t[q[i]]>>
                                   /\ Entries(q)[i][1] = q[i] /\ Entries(q)[i][2] = t[q[i]]
         /\ Entries(q) = <<>> <=> Len(q) = 0
<1>1. Len(q) \in Nat /\ \A i \in 1 .. Len(q) : q[i] \in Cell
  BY LenProperties, ElementOfSeq
<1>2. \A i \in 1 .. Len(q) : <<q[i], t[q[i]]>> \in Entry
  BY <1>1 DEF TypeOK, Entry
<1>3. Entries(q) \in [1 .. Len(q) -> Entry]
  BY <1>2 DEF Entries
<1>4. Entries(q) \in Seq(Entry) /\ Len(Entries(q)) = Len(q)
  BY <1>1, <1>3, FunctionIsSeq
<1>5. \A i \in 1 .. Len(q) : Entries(q)[i] = <<q[i], t[q[i]]>>
  BY DEF Entries
<1> QED BY <1>1, <1>4, <1>5, EmptySeq

LEMMA EntriesNext ==
  ASSUME NEW q, TypeOK', q \in Seq(Cell)
  PROVE  /\ Entries(q)' \in Seq(Entry) /\ Len(Entries(q)') = Len(q)
         /\ \A i \in 1 .. Len(q) : Entries(q)'[i] = <<q[i], t'[q[i]]>>
         /\ Entries(q)' = <<>> <=> Len(q) = 0
<1>1. Len(q) \in Nat /\ \A i \in 1 .. Len(q) : q[i] \in Cell
  BY LenProperties, ElementOfSeq
<1>2. \A i \in 1 .. Len(q) : <<q[i], t'[q[i]]>> \in Entry
  BY <1>1 DEF TypeOK, Entry
<1>3. Entries(q)' \in [1 .. Len(q) -> Entry]
  BY <1>2 DEF Entries
<1>4. Entries(q)' \in Seq(Entry) /\ Len(Entries(q)') = Len(q)
  BY <1>1, <1>3, FunctionIsSeq
<1>5. \A i \in 1 .. Len(q) : Entries(q)'[i] = <<q[i], t'[q[i]]>>
  BY DEF Entries
<1> QED BY <1>4, <1>5, <1>1, EmptySeq

LEMMA InitRefines == Init => Ordered!Init
<1> SUFFICES ASSUME Init PROVE Ordered!Init
  OBVIOUS
<1>1. PICK q \in Seq(Cell), p \in Seq(Cell) : TypeOK /\ Lists(q, p)
  BY InitIInv DEF IInv
<1>2. Len(q) = 0 /\ Queued = q
  BY <1>1, QueueFacts, ListsAreChains DEF Init
<1>3. Entries(Queued) = <<>>
  BY <1>1, <1>2, EntriesShape
<1>4. AbsCalls = <<>>
  BY <1>1, AbsCallsShape DEF Init
<1> QED BY <1>3, <1>4 DEF Init, Ordered!Init, AbsCalls

\* A sequence with an element put in, as TimedQueue writes it
LEMMA PutIn ==
  ASSUME NEW e \in Seq(Entry), NEW i \in 0 .. Len(e), NEW x \in Entry,
         NEW f \in Seq(Entry), Len(f) = Len(e) + 1,
         \A k \in 1 .. i : f[k] = e[k], f[i + 1] = x,
         \A k \in i + 1 .. Len(e) : f[k + 1] = e[k]
  PROVE  f = SubSeq(e, 1, i) \o <<x>> \o SubSeq(e, i + 1, Len(e))
<1> DEFINE a == SubSeq(e, 1, i)
           one == <<x>>
           b == SubSeq(e, i + 1, Len(e))
           L == Len(e)
<1>1. L \in Nat /\ i \in Nat /\ i <= L
  BY LenProperties
<1>2. \A k \in 1 .. L : e[k] \in Entry
  BY ElementOfSeq
<1>3. a \in Seq(Entry) /\ Len(a) = i /\ \A k \in 1 .. i : a[k] = e[k]
  <2>1. a = [k \in 1 .. i |-> e[k]]
    BY <1>1
  <2> HIDE DEF a
  <2>2. a \in [1 .. i -> Entry]
    <3>1. \A k \in 1 .. i : e[k] \in Entry
      BY <1>1, <1>2
    <3> QED BY <2>1, <3>1
  <2> QED BY <1>1, <2>1, <2>2, FunctionIsSeq
<1>4. /\ b \in Seq(Entry) /\ Len(b) = L - i
      /\ \A k \in 1 .. L - i : b[k] = e[i + k]
  <2>1. b = [k \in 1 .. L - i |-> e[i + k]]
    <3>1. Len(e) - (i + 1) + 1 = L - i /\ \A k \in 1 .. L - i : i + 1 + k - 1 = i + k
      BY <1>1
    <3>2. b = [k \in 1 .. Len(e) - (i + 1) + 1 |-> e[i + 1 + k - 1]]
      BY <1>1
    <3> QED BY <3>1, <3>2
  <2>2. ASSUME NEW k \in 1 .. L - i PROVE e[i + k] \in Entry
    <3>1. i + k \in 1 .. L
      BY <1>1
    <3> QED BY <1>2, <3>1
  <2>3. b \in [1 .. L - i -> Entry]
    BY <2>1, <2>2
  <2>4. L - i \in Nat
    BY <1>1
  <2> HIDE DEF b
  <2> QED BY <2>1, <2>3, <2>4, FunctionIsSeq
<1>5. one \in Seq(Entry) /\ Len(one) = 1 /\ one[1] = x
  OBVIOUS
<1> HIDE DEF a, b, one, L
<1> DEFINE c == a \o one
<1>6. /\ c \in Seq(Entry) /\ Len(c) = i + 1
      /\ \A k \in 1 .. i : c[k] = e[k]
      /\ c[i + 1] = x
  <2>1. /\ c \in Seq(Entry) /\ Len(c) = Len(a) + Len(one)
        /\ \A k \in 1 .. Len(a) + Len(one) :
             c[k] = IF k <= Len(a) THEN a[k] ELSE one[k - Len(a)]
    BY <1>3, <1>5, ConcatProperties, Zenon
  <2> HIDE DEF c
  <2>2. \A k \in 1 .. i + 1 : c[k] = IF k <= i THEN a[k] ELSE one[k - i]
    BY <1>3, <1>5, <2>1
  <2>3. i + 1 \in 1 .. i + 1 /\ ~ (i + 1 <= i) /\ (i + 1) - i = 1
    BY <1>1
  <2>4. c[i + 1] = x
    BY <1>5, <2>2, <2>3
  <2>5. \A k \in 1 .. i : c[k] = e[k]
    BY <1>1, <1>3, <2>2
  <2> QED BY <1>3, <1>5, <2>1, <2>4, <2>5
<1> HIDE DEF c
<1> DEFINE d == c \o b
<1>7. /\ d \in Seq(Entry) /\ Len(d) = L + 1
      /\ \A k \in 1 .. L + 1 : d[k] = IF k <= i + 1 THEN c[k] ELSE b[k - (i + 1)]
  <2>1. /\ d \in Seq(Entry) /\ Len(d) = Len(c) + Len(b)
        /\ \A k \in 1 .. Len(c) + Len(b) :
             d[k] = IF k <= Len(c) THEN c[k] ELSE b[k - Len(c)]
    BY <1>4, <1>6, ConcatProperties, Zenon
  <2>2. Len(c) + Len(b) = L + 1
    BY <1>1, <1>4, <1>6
  <2> HIDE DEF d
  <2> QED BY <1>6, <2>1, <2>2, Zenon
<1> HIDE DEF d
<1>8. ASSUME NEW k \in 1 .. L + 1 PROVE f[k] = d[k]
  <2>1. CASE k <= i
    BY <1>1, <1>6, <1>7, <2>1
  <2>2. CASE k = i + 1
    BY <1>1, <1>6, <1>7, <2>2
  <2>3. CASE k > i + 1
    <3>1. /\ k - 1 \in i + 1 .. L /\ (k - 1) + 1 = k /\ ~ (k <= i + 1)
          /\ k - (i + 1) \in 1 .. L - i /\ i + (k - (i + 1)) = k - 1
      BY <1>1, <2>3
    <3>2. f[(k - 1) + 1] = e[k - 1]
      BY <3>1, Zenon DEF L
    <3>3. d[k] = b[k - (i + 1)]
      BY <1>7, <3>1
    <3>4. b[k - (i + 1)] = e[i + (k - (i + 1))]
      BY <1>4, <3>1, Zenon
    <3> QED BY <3>1, <3>2, <3>3, <3>4
  <2> QED BY <1>1, <2>1, <2>2, <2>3
<1>9. f = d
  BY <1>7, <1>8, SeqEqual DEF L
<1> QED BY <1>9 DEF d, c, a, b, one, L

LEMMA ScheduleRefines ==
  ASSUME TypeOK, NEW q, NEW p, Lists(q, p), NEW i, NEW at \in Time, Inserted(q, i, at)
  PROVE  \E c \in Cell : Ordered!Schedule(c, at)
<1>1. PICK m : m = mPool
  OBVIOUS
<1> DEFINE r == InsertAt(q, i, m)
           e == Entries(q)
           f == Entries(r)'
<1>2. /\ q \in Seq(Cell) /\ Len(q) \in Nat /\ i \in 0 .. Len(q) /\ m \in Cell
      /\ \A k \in 1 .. Len(q) : q[k] \in Cell /\ q[k] # m
      /\ p \in Seq(Cell) /\ m = p[1] /\ 1 \in 1 .. Len(p)
  BY <1>1, InsertedFacts
<1>3. TypeOK' /\ Lists(r, Tail(p))'
  BY <1>1, InsertedKeeps
<1>4. Queued = q
  BY ListsAreChains
<1>5. Queued' = r
  <2>1. ChainsRead'
    BY ChainsAlwaysRead, PTL
  <2> QED BY <1>3, <2>1 DEF ChainsRead
<1> HIDE DEF r
<1>6. r \in Seq(Cell) /\ Len(r) = Len(q) + 1 /\ r[i + 1] = m
  <2>1. q \in Seq(Cell) /\ i \in 0 .. Len(q) /\ m \in Cell
    BY <1>2
  <2> QED BY <2>1, InsertAtShape DEF r
<1>7. /\ \A k \in 1 .. i : r[k] = q[k]
      /\ \A k \in i + 1 .. Len(q) : r[k + 1] = q[k]
  <2>1. \A k \in 1 .. i : r[k] = q[k]
    BY <1>2, InsertAtShape DEF r
  <2>2. \A k \in i + 1 .. Len(q) : r[k + 1] = q[k]
    BY <1>2, InsertAtShape DEF r
  <2> QED BY <2>1, <2>2
<1>8. /\ e \in Seq(Entry) /\ Len(e) = Len(q)
      /\ \A k \in 1 .. Len(q) : e[k] = <<q[k], t[q[k]]>> /\ e[k][1] = q[k] /\ e[k][2] = t[q[k]]
  BY <1>2, EntriesShape
<1>9. /\ f \in Seq(Entry) /\ Len(f) = Len(q) + 1
      /\ \A k \in 1 .. Len(q) + 1 : f[k] = <<r[k], t'[r[k]]>>
  BY <1>3, <1>6, EntriesNext
<1>10. /\ t'[m] = at /\ \A k \in 1 .. Len(q) : t'[q[k]] = t[q[k]]
  BY <1>1, <1>2 DEF Inserted, TypeOK
<1> HIDE DEF e, f
<1>11. f = SubSeq(e, 1, i) \o << <<m, at>> >> \o SubSeq(e, i + 1, Len(e))
  <2> DEFINE x == <<m, at>>
  <2>1. x \in Entry
    BY <1>2 DEF Entry
  <2>2. f[i + 1] = x
    BY <1>2, <1>6, <1>9, <1>10
  <2> HIDE DEF x
  <2>3. ASSUME NEW k \in 1 .. i PROVE f[k] = e[k]
    <3>1. k \in 1 .. Len(q) /\ k \in 1 .. Len(q) + 1
      BY <1>2
    <3>2. f[k] = <<r[k], t'[r[k]]>> /\ r[k] = q[k]
      BY <1>7, <1>9, <3>1
    <3>3. f[k] = <<q[k], t[q[k]]>>
      BY <1>10, <3>1, <3>2
    <3> QED BY <1>8, <3>1, <3>3
  <2>4. ASSUME NEW k \in i + 1 .. Len(e) PROVE f[k + 1] = e[k]
    <3>1. k \in i + 1 .. Len(q) /\ k \in 1 .. Len(q) /\ k + 1 \in 1 .. Len(q) + 1
      BY <1>2, <1>8
    <3>2. r[k + 1] = q[k]
      BY <1>7, <3>1
    <3>3. f[k + 1] = <<r[k + 1], t'[r[k + 1]]>>
      BY <1>9, <3>1, Zenon
    <3>4. f[k + 1] = <<q[k], t[q[k]]>>
      BY <1>10, <3>1, <3>2, <3>3
    <3> QED BY <1>8, <3>1, <3>4
  <2>5. Len(f) = Len(e) + 1 /\ i \in 0 .. Len(e)
    BY <1>2, <1>8, <1>9
  <2>6. f = SubSeq(e, 1, i) \o <<x>> \o SubSeq(e, i + 1, Len(e))
    BY <1>8, <1>9, <2>1, <2>2, <2>3, <2>4, <2>5, PutIn
  <2> QED BY <2>6 DEF x
<1>12. UNCHANGED <<AbsCalls, mNow>>
  BY DEF Inserted, AbsCalls, Abstract
<1>13. m \notin Ordered!InUse
  <2>1. ASSUME NEW k \in 1 .. Len(e) PROVE e[k][1] # m
    BY <1>2, <1>8
  <2>2. ASSUME NEW b \in 1 .. Len(AbsCalls), AbsCalls[b].cell # <<>>
        PROVE  AbsCalls[b].cell[1] # m
    <3>1. b \in 1 .. Len(calls) /\ AbsCalls[b] = Abstract(calls[b]) /\ calls[b] \in Frame
      BY AbsCallsShape, CallsShape
    <3>2. calls[b].cell # NULL /\ AbsCalls[b].cell = <<calls[b].cell>>
      BY <2>2, <3>1, AbstractShape
    <3>3. b \in Busy
      BY <3>1, <3>2 DEF Busy
    <3>4. calls[b].cell # m
      BY <1>2, <3>3 DEF Lists, Apart
    <3> QED BY <3>2, <3>4
  <2> QED BY <1>4, <2>1, <2>2 DEF Ordered!InUse, Ordered!None, AbsCalls, e
<1>14. /\ i \in 0 .. Len(e)
       /\ \A j \in 1 .. i : e[j][2] <= at
       /\ \A j \in i + 1 .. Len(e) : e[j][2] > at
  <2>1. \A j \in 1 .. i : j \in 1 .. Len(q)
    BY <1>2
  <2>2. \A j \in i + 1 .. Len(q) : j \in 1 .. Len(q)
    BY <1>2
  <2>3. \A k \in 1 .. Len(q) : t[q[k]] \in Nat
    BY QueueFacts
  <2>4. at \in Nat
    BY MaxTimeAssumption DEF Time
  <2>5. /\ \A j \in 1 .. i : t[q[j]] <= at
        /\ \A j \in i + 1 .. Len(q) : at < t[q[j]]
    BY DEF Inserted
  <2> QED BY <1>2, <1>8, <2>1, <2>2, <2>3, <2>4, <2>5
<1>15. Ordered!ClientRuns
  BY UpdatingMaps DEF Inserted, ClientRuns, Ordered!ClientRuns
<1>16. Ordered!Schedule(m, at)
  BY <1>4, <1>5, <1>11, <1>12, <1>13, <1>14, <1>15 DEF Ordered!Schedule, AbsCalls, e, f
<1> QED BY <1>2, <1>16

LEMMA QueuedNext ==
  ASSUME NEW q, NEW p, TypeOK', Lists(q, p)'
  PROVE  Queued' = q
<1>1. ChainsRead'
  BY ChainsAlwaysRead, PTL
<1> QED BY <1>1 DEF ChainsRead

\* A step that leaves the queue and the timestamps alone
LEMMA EntriesStay ==
  ASSUME TypeOK, NEW q, NEW p, Lists(q, p), NEW r, TypeOK', Lists(q, r)', t' = t
  PROVE  Entries(Queued)' = Entries(Queued)
<1>1. Queued = q /\ Queued' = q
  BY ListsAreChains, QueuedNext
<1>2. Entries(q)' = Entries(q)
  BY DEF Entries
<1> QED BY <1>1, <1>2 DEF Entries

LEMMA UpdateRefines ==
  ASSUME TypeOK, NEW q, NEW p, Lists(q, p), NEW until \in Time, Update(until)
  PROVE  Ordered!Begin(until)
<1> DEFINE new == [until |-> until, cell |-> NULL]
           abs == [cell |-> <<>>, until |-> until]
           N == Len(calls)
<1>1. Entries(Queued)' = Entries(Queued) /\ TypeOK'
  BY UpdateKeeps, EntriesStay DEF Update
<1>2. new \in Frame /\ N \in Nat /\ calls \in Seq(Frame)
  BY CallsShape DEF Frame, TypeOK
<1>3. Abstract(new) = abs /\ abs \in AbsFrame
  BY DEF Abstract, AbsFrame
<1> HIDE DEF new, abs
<1>4. /\ Len(calls') = N + 1
      /\ \A i \in 1 .. N : calls'[i] = calls[i]
      /\ calls'[N + 1] = new
  BY <1>2, AppendProperties DEF Update, new
<1>5. AbsCalls' = Append(AbsCalls, abs)
  <2>1. /\ AbsCalls \in Seq(AbsFrame) /\ Len(AbsCalls) = N
        /\ \A i \in 1 .. N : AbsCalls[i] = Abstract(calls[i])
    BY AbsCallsShape
  <2>2. /\ Append(AbsCalls, abs) \in Seq(AbsFrame)
        /\ Len(Append(AbsCalls, abs)) = N + 1
        /\ \A i \in 1 .. N : Append(AbsCalls, abs)[i] = AbsCalls[i]
        /\ Append(AbsCalls, abs)[N + 1] = abs
    BY <1>3, <2>1, AppendProperties
  <2>3. AbsCalls' = [i \in 1 .. N + 1 |-> Abstract(calls'[i])]
    BY <1>4 DEF AbsCalls, Abstract
  <2>4. Append(AbsCalls, abs) = [i \in 1 .. N + 1 |-> Append(AbsCalls, abs)[i]]
    <3>1. Append(AbsCalls, abs) \in [1 .. N + 1 -> AbsFrame]
      BY <2>2, LenProperties
    <3> QED BY <3>1
  <2>5. ASSUME NEW i \in 1 .. N + 1
        PROVE  Abstract(calls'[i]) = Append(AbsCalls, abs)[i]
    <3>1. CASE i = N + 1
      BY <1>3, <1>4, <2>2, <3>1
    <3>2. CASE i \in 1 .. N
      BY <1>4, <2>1, <2>2, <3>2
    <3>3. i = N + 1 \/ i \in 1 .. N
      BY <1>2
    <3> QED BY <3>1, <3>2, <3>3
  <2> QED BY <2>3, <2>4, <2>5
<1>6. Ordered!ClientRuns
  BY UpdatingMaps DEF Update, ClientRuns, Ordered!ClientRuns
<1>7. mNow' = mNow
  BY DEF Update
<1> QED BY <1>1, <1>5, <1>6, <1>7 DEF Ordered!Begin, Ordered!None, AbsCalls, abs

\* The cell of the innermost update is replaced.
LEMMA AbsCallsSet ==
  ASSUME TypeOK, Len(calls) # 0, NEW v \in Cell \cup {NULL},
         calls' = [calls EXCEPT ![Len(calls)].cell = v]
  PROVE  AbsCalls' = [AbsCalls EXCEPT ![Len(AbsCalls)].cell = IF v = NULL THEN <<>> ELSE <<v>>]
<1> DEFINE N == Len(calls)
           w == IF v = NULL THEN <<>> ELSE <<v>>
           new == [until |-> calls[N].until, cell |-> v]
<1>1. /\ N \in Nat /\ N \in 1 .. N /\ DOMAIN calls = 1 .. N /\ calls \in Seq(Frame)
      /\ calls[N] = [until |-> calls[N].until, cell |-> calls[N].cell]
  <2>1. N \in Nat /\ DOMAIN calls = 1 .. N /\ calls \in Seq(Frame)
    BY CallsShape DEF TypeOK
  <2>2. N \in 1 .. N
    BY <2>1
  <2> QED BY <2>1, <2>2, CallsShape
<1>2. Len(calls') = N
  BY <1>1
<1>3. [calls[N] EXCEPT !.cell = v] = new
  BY <1>1
<1>4. \A i \in 1 .. N : calls'[i] = IF i = N THEN new ELSE calls[i]
  BY <1>1, <1>3
<1>5. /\ Len(AbsCalls) = N /\ DOMAIN AbsCalls = 1 .. N
      /\ \A i \in 1 .. N : AbsCalls[i] = Abstract(calls[i])
  BY AbsCallsShape
<1>6. AbsCalls' = [i \in 1 .. N |-> Abstract(calls'[i])]
  BY <1>2 DEF AbsCalls, Abstract
<1>7. Abstract(new) = [cell |-> w, until |-> calls[N].until]
  BY DEF Abstract
<1>8. [AbsCalls[N] EXCEPT !.cell = w] = [cell |-> w, until |-> calls[N].until]
  BY <1>1, <1>5 DEF Abstract
<1> HIDE DEF w, new
<1>9. [AbsCalls EXCEPT ![N].cell = w]
        = [i \in 1 .. N |-> IF i = N THEN Abstract(new) ELSE AbsCalls[i]]
  <2>1. [AbsCalls EXCEPT ![N] = [AbsCalls[N] EXCEPT !.cell = w]]
          = [i \in 1 .. N |-> IF i = N THEN [AbsCalls[N] EXCEPT !.cell = w] ELSE AbsCalls[i]]
    BY <1>5
  <2> QED BY <1>7, <1>8, <2>1
<1>10. ASSUME NEW i \in 1 .. N
       PROVE  Abstract(calls'[i]) = IF i = N THEN Abstract(new) ELSE AbsCalls[i]
  BY <1>4, <1>5
<1> QED BY <1>5, <1>6, <1>9, <1>10 DEF w

\* The heads of the two queues are due together.
LEMMA DueMaps ==
  ASSUME TypeOK, NEW q, NEW p, Lists(q, p), Updating
  PROVE  /\ Ordered!Due(AbsCalls[Len(AbsCalls)].until) <=> HeadIsDue
         /\ AbsCalls[Len(AbsCalls)].until = calls[Len(calls)].until
         /\ mHead # NULL => Head(Entries(Queued)) = <<mHead, t[mHead]>>
<1>1. Len(calls) \in 1 .. Len(calls) /\ Len(AbsCalls) = Len(calls)
  BY CallsShape, AbsCallsShape DEF Updating
<1>2. AbsCalls[Len(AbsCalls)].until = calls[Len(calls)].until
  BY <1>1, CallsShape, AbsCallsShape, AbstractShape
<1>3. q \in Seq(Cell) /\ Queued = q
  BY ListsAreChains
<1>4. /\ mHead = NULL <=> Len(q) = 0
      /\ mHead # NULL => mHead = q[1] /\ 1 \in 1 .. Len(q)
  BY QueueFacts
<1>5. /\ Entries(q) = <<>> <=> mHead = NULL
      /\ mHead # NULL => Entries(q)[1] = <<mHead, t[mHead]>>
  BY <1>3, <1>4, EntriesShape
<1>6. mHead # NULL => Head(Entries(q)) = <<mHead, t[mHead]>>
  BY <1>5
<1> QED BY <1>2, <1>3, <1>5, <1>6 DEF Ordered!Due, HeadIsDue

LEMMA CallHeadRefines ==
  ASSUME TypeOK, NEW q, NEW p, Lists(q, p), CallHead
  PROVE  Ordered!Take
<1>1. TypeOK' /\ Lists(Tail(q), p)'
  BY CallHeadKeeps
<1>2. /\ q \in Seq(Cell) /\ Queued = q /\ Len(q) \in Nat /\ Len(q) # 0
      /\ mHead \in Cell /\ mHead # NULL /\ Updating /\ HeadIsDue /\ t' = t
  BY ListsAreChains, QueueFacts DEF CallHead, HeadIsDue
<1>3. mNow \in Nat /\ t[mHead] \in Nat /\ mNow' = Later(mNow, t[mHead])
  BY <1>2, MaxTimeAssumption DEF CallHead, TypeOK, Time
<1> DEFINE e == Entries(q)
           s == Tail(q)
           f == Entries(s)'
<1>4. /\ s \in Seq(Cell) /\ Len(s) = Len(q) - 1
      /\ \A j \in 1 .. Len(q) - 1 : s[j] = q[j + 1]
  BY <1>2, TailCells
<1> HIDE DEF s
<1>5. Queued' = s
  BY <1>1, QueuedNext DEF s
<1>6. /\ e \in Seq(Entry) /\ Len(e) = Len(q) /\ e # <<>>
      /\ \A k \in 1 .. Len(q) : e[k] = <<q[k], t[q[k]]>>
  BY <1>2, EntriesShape
<1>7. /\ f \in Seq(Entry) /\ Len(f) = Len(q) - 1
      /\ \A k \in 1 .. Len(q) - 1 : f[k] = <<s[k], t[s[k]]>>
  BY <1>1, <1>2, <1>4, EntriesNext
<1> HIDE DEF e, f
<1>8. f = Tail(e)
  <2>1. /\ Tail(e) \in Seq(Entry) /\ Len(Tail(e)) = Len(q) - 1
        /\ \A k \in 1 .. Len(q) - 1 : Tail(e)[k] = e[k + 1]
    BY <1>6, HeadTailProperties
  <2>2. ASSUME NEW k \in 1 .. Len(q) - 1 PROVE f[k] = Tail(e)[k]
    <3>1. k + 1 \in 1 .. Len(q)
      BY <1>2
    <3>2. e[k + 1] = <<q[k + 1], t[q[k + 1]]>>
      BY <1>6, <3>1, Zenon
    <3> QED BY <1>4, <1>7, <2>1, <3>2
  <2> QED BY <1>7, <2>1, <2>2, SeqEqual
<1>9. AbsCalls' = [AbsCalls EXCEPT ![Len(AbsCalls)].cell = <<mHead>>]
  <2>1. PICK v : v = mHead
    OBVIOUS
  <2>2. v \in Cell \cup {NULL} /\ v # NULL /\ Len(calls) # 0
    BY <1>2, <2>1, CallsShape DEF Updating
  <2>3. calls' = [calls EXCEPT ![Len(calls)].cell = v]
    BY <2>1 DEF CallHead
  <2>4. AbsCalls' = [AbsCalls EXCEPT ![Len(AbsCalls)].cell = IF v = NULL THEN <<>> ELSE <<v>>]
    BY <2>2, <2>3, AbsCallsSet
  <2> QED BY <2>1, <2>2, <2>4
<1>10. /\ Ordered!Updating /\ Ordered!Due(AbsCalls[Len(AbsCalls)].until)
       /\ Head(e) = <<mHead, t[mHead]>>
  BY <1>2, UpdatingMaps, DueMaps DEF e
<1>11. Head(e)[1] = mHead /\ Head(e)[2] = t[mHead]
  BY <1>10
<1>12. mNow' = IF Head(e)[2] > mNow THEN Head(e)[2] ELSE mNow
  BY <1>3, <1>11 DEF Later
<1>13. Entries(Queued) = e /\ Entries(Queued)' = f
  <2>1. Entries(Queued)' = Entries(s)'
    BY <1>5 DEF Entries
  <2> QED BY <1>2, <2>1 DEF e, f
<1>14. AbsCalls' = [AbsCalls EXCEPT ![Len(AbsCalls)].cell = <<Head(e)[1]>>]
  BY <1>9, <1>11
<1> QED BY <1>8, <1>10, <1>12, <1>13, <1>14 DEF Ordered!Take, AbsCalls

LEMMA CallReturnRefines ==
  ASSUME TypeOK, NEW q, NEW p, Lists(q, p), CallReturn
  PROVE  Ordered!Return
<1>1. PICK m : m = calls[Len(calls)].cell
  OBVIOUS
<1>2. PICK r : r = InsertAt(p, 0, m)
  OBVIOUS
<1>3. TypeOK' /\ Lists(q, r)'
  BY <1>1, <1>2, CallReturnKeeps
<1>4. Entries(Queued)' = Entries(Queued)
  BY <1>3, EntriesStay DEF CallReturn
<1>5. Len(calls) # 0 /\ calls # <<>> /\ ~ Updating /\ mNow' = mNow
  BY CallsShape DEF CallReturn, Updating
<1>6. AbsCalls' = [AbsCalls EXCEPT ![Len(AbsCalls)].cell = <<>>]
  BY <1>5, AbsCallsSet DEF CallReturn
<1>7. AbsCalls # <<>> /\ ~ Ordered!Updating
  BY <1>5, AbsCallsShape, UpdatingMaps
<1> QED BY <1>4, <1>5, <1>6, <1>7 DEF Ordered!Return, Ordered!None, AbsCalls

LEMMA UpdateReturnRefines ==
  ASSUME TypeOK, NEW q, NEW p, Lists(q, p), UpdateReturn
  PROVE  Ordered!End
<1> DEFINE N == Len(calls)
<1>1. /\ TypeOK' /\ Lists(q, p)' /\ Updating /\ ~ HeadIsDue
      /\ mNow' = calls[N].until
  BY UpdateReturnKeeps DEF UpdateReturn
<1>2. Entries(Queued)' = Entries(Queued)
  BY <1>1, EntriesStay DEF UpdateReturn
<1>3. /\ Ordered!Updating /\ ~ Ordered!Due(AbsCalls[Len(AbsCalls)].until)
      /\ mNow' = AbsCalls[Len(AbsCalls)].until
  BY <1>1, UpdatingMaps, DueMaps
<1>4. AbsCalls' = SubSeq(AbsCalls, 1, Len(AbsCalls) - 1)
  <2>1. N \in Nat /\ N # 0 /\ calls \in Seq(Frame)
    BY <1>1, CallsShape DEF Updating, TypeOK
  <2>2. Len(calls') = N - 1 /\ \A i \in 1 .. N - 1 : calls'[i] = calls[i]
    <3>1. \A i \in 1 .. N - 1 : calls[i] \in Frame
      BY <2>1, CallsShape
    <3>2. calls' = [i \in 1 .. N - 1 |-> calls[i]]
      BY <2>1 DEF UpdateReturn
    <3>3. calls' \in [1 .. N - 1 -> Frame] /\ N - 1 \in Nat
      BY <2>1, <3>1, <3>2
    <3>4. Len(calls') = N - 1
      BY <3>3, FunctionIsSeq
    <3> QED BY <3>2, <3>4
  <2>3. AbsCalls' = [i \in 1 .. N - 1 |-> Abstract(calls[i])]
    <3>1. AbsCalls' = [i \in 1 .. N - 1 |-> Abstract(calls'[i])]
      BY <2>2 DEF AbsCalls, Abstract
    <3> QED BY <2>2, <3>1
  <2>4. /\ AbsCalls \in Seq(AbsFrame) /\ Len(AbsCalls) = N
        /\ \A i \in 1 .. N : AbsCalls[i] = Abstract(calls[i])
    BY AbsCallsShape
  <2>5. SubSeq(AbsCalls, 1, N - 1) = [i \in 1 .. N - 1 |-> AbsCalls[i]]
    BY <2>1, <2>4
  <2>6. \A i \in 1 .. N - 1 : AbsCalls[i] = Abstract(calls[i])
    BY <2>1, <2>4
  <2> QED BY <2>3, <2>4, <2>5, <2>6
<1> QED BY <1>2, <1>3, <1>4 DEF Ordered!End, AbsCalls

LEMMA ClearRefines ==
  ASSUME TypeOK, NEW q, NEW p, Lists(q, p), Clear
  PROVE  Ordered!Clear
<1>1. PICK r : r = Reversed(q, p)
  OBVIOUS
<1>2. TypeOK' /\ Lists(<<>>, r)'
  BY <1>1, ClearKeeps
<1>3. Queued' = <<>>
  BY <1>2, QueuedNext
<1>4. Entries(Queued)' = <<>>
  <2>1. Entries(Queued)' = Entries(<<>>)'
    BY <1>3 DEF Entries
  <2>2. <<>> \in Seq(Cell) /\ Len(<<>>) = 0
    BY EmptySeq
  <2>3. Entries(<<>>)' = <<>>
    BY <1>2, <2>2, EntriesNext
  <2> QED BY <2>1, <2>3
<1>5. /\ AbsCalls' = AbsCalls /\ mNow' = 0
  BY DEF Clear, AbsCalls, Abstract
<1>6. Ordered!ClientRuns
  BY UpdatingMaps DEF Clear, ClientRuns, Ordered!ClientRuns
<1> QED BY <1>4, <1>5, <1>6 DEF Ordered!Clear, AbsCalls

LEMMA StepRefines == IInv /\ [Next]_vars => [Ordered!Next]_(Ordered!vars)
<1> SUFFICES ASSUME IInv, [Next]_vars PROVE [Ordered!Next]_(Ordered!vars)
  OBVIOUS
<1>1. PICK q \in Seq(Cell), p \in Seq(Cell) : TypeOK /\ Lists(q, p)
  BY DEF IInv
<1>2. ASSUME NEW at \in Time,
             \/ SchedFirst(at) \/ SchedPrepend(at) \/ SchedAppend(at) \/ SchedBetween(at)
      PROVE  Ordered!Next
  <2>1. PICK i \in 0 .. Len(q) : Inserted(q, i, at)
    BY <1>1, <1>2, SchedInserts
  <2>2. \E c \in Cell : Ordered!Schedule(c, at)
    BY <1>1, <2>1, ScheduleRefines
  <2> QED BY <2>2 DEF Ordered!Next
<1>3. ASSUME NEW until \in Time, Update(until) PROVE Ordered!Next
  BY <1>1, <1>3, UpdateRefines DEF Ordered!Next
<1>4. ASSUME CallHead PROVE Ordered!Next
  BY <1>1, <1>4, CallHeadRefines DEF Ordered!Next
<1>5. ASSUME CallReturn PROVE Ordered!Next
  BY <1>1, <1>5, CallReturnRefines DEF Ordered!Next
<1>6. ASSUME UpdateReturn PROVE Ordered!Next
  BY <1>1, <1>6, UpdateReturnRefines DEF Ordered!Next
<1>7. ASSUME Clear PROVE Ordered!Next
  BY <1>1, <1>7, ClearRefines DEF Ordered!Next
<1>8. ASSUME UNCHANGED vars PROVE UNCHANGED Ordered!vars
  BY <1>8 DEF vars, Ordered!vars, Queued, Chain, Entries, Abstract
<1> QED BY <1>2, <1>3, <1>4, <1>5, <1>6, <1>7, <1>8 DEF Next

\* The linked cells behave as the ordered queue: whatever running messages
\* schedule, update or clear, messages start in the order of their timestamps,
\* equal ones in the order they were scheduled, none before it is due.
THEOREM QueueIsTimedQueue == Spec => ImplementsTimedQueue
BY InitRefines, StepRefines, AlwaysIInv, PTL DEF Spec, ImplementsTimedQueue, Ordered!Spec

===============================================================================
