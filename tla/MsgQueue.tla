------------------------------- MODULE MsgQueue -------------------------------
(***************************************************************************)
(* al::MsgQueue: a scheduler of timed calls for one thread.  Messages live *)
(* in a fixed number of cells, linked through their next fields either     *)
(* into the queue (from mHead, in order of time) or into the pool (from    *)
(* mPool).  update() runs the due messages, and a message may call sched(),*)
(* update() or clear() on the queue that is running it.                    *)
(***************************************************************************)
EXTENDS Integers, Sequences, FiniteSets

CONSTANTS
  NumCells,   \* the cells allocated by growPool(): its size argument plus one
  MaxTime,    \* bound: the largest timestamp
  MaxDepth    \* bound: how many updates run inside one another

ASSUME NumCellsAssumption == NumCells \in Nat \ {0}
ASSUME MaxTimeAssumption == MaxTime \in Nat
ASSUME MaxDepthAssumption == MaxDepth \in Nat

VARIABLES
  next, t,              \* the fields of the cells
  mHead, mTail, mPool,  \* pointers to cells
  mLen, mNow,
  calls                 \* the running update() calls, innermost last: the limit
                        \* of each and the cell whose function it is running

vars == <<next, t, mHead, mTail, mPool, mLen, mNow, calls>>

Cell == 1 .. NumCells
NULL == 0
Time == 0 .. MaxTime

Later(a, b) == IF a > b THEN a ELSE b

\* The loop of the innermost update() runs; otherwise the client's code does,
\* outside update() or as the message being called.
Updating == calls # <<>> /\ calls[Len(calls)].cell = NULL
ClientRuns == ~ Updating

\* The cells linked from a pointer, first to last; a list is never longer than
\* the number of cells.
Chain(links, ptr) ==
  LET cell[n \in 0 .. NumCells] ==
        IF n = 0 THEN ptr
        ELSE IF cell[n - 1] = NULL THEN NULL ELSE links[cell[n - 1]]
      len == CHOOSE n \in 0 .. NumCells :
               /\ n = NumCells \/ cell[n] = NULL
               /\ \A k \in 0 .. n - 1 : cell[k] # NULL
  IN  [i \in 1 .. len |-> cell[i - 1]]

Queued == Chain(next, mHead)
Pooled == Chain(next, mPool)

\* growPool() links all cells into the pool.
Init ==
  /\ next = [c \in Cell |-> IF c = NumCells THEN NULL ELSE c + 1]
  /\ t = [c \in Cell |-> 0]
  /\ mHead = NULL /\ mTail = NULL /\ mPool = 1
  /\ mLen = 0 /\ mNow = 0
  /\ calls = <<>>

-----------------------------------------------------------------------------
(* sched(): the pool must not be empty, and its first cell m is taken. *)

\* m->next = NULL, m->t = at and the links that insert m
Insert(m, at, links) ==
  /\ mPool' = next[m]
  /\ t' = [t EXCEPT ![m] = at]
  /\ next' = [c \in Cell |-> IF c \in DOMAIN links THEN links[c]
                             ELSE IF c = m THEN NULL ELSE next[c]]
  /\ UNCHANGED <<mNow, calls>>

\* Fault: the tail of the drained queue is kept.
FaultStaleTail(at) ==
  /\ ClientRuns /\ mPool # NULL
  /\ mHead = NULL
  /\ Insert(mPool, at, <<>>)
  /\ mHead' = mPool /\ UNCHANGED mTail
  /\ mLen' = 1

SchedFirst(at) ==
  /\ ClientRuns /\ mPool # NULL
  /\ mHead = NULL
  /\ Insert(mPool, at, <<>>)
  /\ mHead' = mPool /\ mTail' = mPool
  /\ mLen' = 1

SchedPrepend(at) ==
  /\ ClientRuns /\ mPool # NULL
  /\ mHead # NULL /\ at < t[mHead]
  /\ Insert(mPool, at, [c \in {mPool} |-> mHead])
  /\ mHead' = mPool /\ UNCHANGED mTail
  /\ mLen' = mLen + 1

SchedAppend(at) ==
  /\ ClientRuns /\ mPool # NULL
  /\ mHead # NULL /\ at >= t[mHead] /\ at >= t[mTail]
  /\ Insert(mPool, at, [c \in {mTail} |-> mPool])
  /\ mTail' = mPool /\ UNCHANGED mHead
  /\ mLen' = mLen + 1

\* Fault: the walk stops before the messages of the same time.
FaultWalkStopsEarly(at) ==
  CHOOSE i \in 1 .. Len(Queued) :
    /\ i = Len(Queued) \/ t[Queued[i + 1]] >= at
    /\ \A j \in 1 .. i - 1 : t[Queued[j + 1]] < at

\* Where the walk from mHead stops: at the first message that is followed by
\* nothing or by one later than at
WalkFrom(at) ==
  CHOOSE i \in 1 .. Len(Queued) :
    /\ i = Len(Queued) \/ t[Queued[i + 1]] > at
    /\ \A j \in 1 .. i - 1 : t[Queued[j + 1]] <= at

SchedBetween(at) ==
  /\ ClientRuns /\ mPool # NULL
  /\ mHead # NULL /\ at >= t[mHead] /\ at < t[mTail]
  /\ LET p == Queued[WalkFrom(at)] IN
       Insert(mPool, at, [c \in {p, mPool} |-> IF c = p THEN mPool ELSE next[p]])
  /\ UNCHANGED <<mHead, mTail>>
  /\ mLen' = mLen + 1

-----------------------------------------------------------------------------
(* update() and clear() *)

\* recycle(): the cell goes to the head of the pool.
Shorter(len) == IF len # 0 THEN len - 1 ELSE len

Recycle(m) ==
  /\ next' = [next EXCEPT ![m] = mPool]
  /\ mPool' = m
  /\ mLen' = Shorter(mLen)

Update(until) ==
  /\ ClientRuns
  /\ Len(calls) < MaxDepth
  /\ calls' = Append(calls, [until |-> until, cell |-> NULL])
  /\ UNCHANGED <<next, t, mHead, mTail, mPool, mLen, mNow>>

\* Fault: a message due exactly at the limit waits.
FaultDueLater == mHead # NULL /\ t[mHead] < calls[Len(calls)].until

HeadIsDue == mHead # NULL /\ t[mHead] <= calls[Len(calls)].until

\* A due head is unlinked and its function called.
CallHead ==
  /\ Updating
  /\ HeadIsDue
  /\ calls' = [calls EXCEPT ![Len(calls)].cell = mHead]
  /\ mHead' = next[mHead]
  /\ mNow' = Later(mNow, t[mHead])
  /\ UNCHANGED <<next, t, mTail, mPool, mLen>>

\* The function returns and its cell is recycled.
CallReturn ==
  /\ calls # <<>>
  /\ calls[Len(calls)].cell # NULL
  /\ Recycle(calls[Len(calls)].cell)
  /\ calls' = [calls EXCEPT ![Len(calls)].cell = NULL]
  /\ UNCHANGED <<t, mHead, mTail, mNow>>

UpdateReturn ==
  /\ Updating
  /\ ~ HeadIsDue
  /\ mNow' = calls[Len(calls)].until
  /\ calls' = SubSeq(calls, 1, Len(calls) - 1)
  /\ UNCHANGED <<next, t, mHead, mTail, mPool, mLen>>

\* Fault: the queued cells are dropped.
FaultClearLeaks ==
  /\ ClientRuns
  /\ mLen' = 0
  /\ mNow' = 0 /\ mHead' = NULL /\ mTail' = NULL
  /\ UNCHANGED <<next, t, mPool, calls>>

\* clear() recycles every queued message and resets the clock.
Clear ==
  /\ ClientRuns
  /\ LET q == Queued
         place(c) == CHOOSE i \in 1 .. Len(q) : q[i] = c
     IN /\ next' = [c \in Cell |->
                      IF \A i \in 1 .. Len(q) : q[i] # c THEN next[c]
                      ELSE IF place(c) = 1 THEN mPool ELSE q[place(c) - 1]]
        /\ mPool' = IF q = <<>> THEN mPool ELSE q[Len(q)]
        /\ mLen' = Later(0, mLen - Len(q))
  /\ mNow' = 0 /\ mHead' = NULL /\ mTail' = NULL
  /\ UNCHANGED <<t, calls>>

Next ==
  \/ \E at \in Time : SchedFirst(at)
  \/ \E at \in Time : SchedPrepend(at)
  \/ \E at \in Time : SchedAppend(at)
  \/ \E at \in Time : SchedBetween(at)
  \/ \E until \in Time : Update(until)
  \/ CallHead
  \/ CallReturn
  \/ UpdateReturn
  \/ Clear

Spec == Init /\ [][Next]_vars

-----------------------------------------------------------------------------
(* Properties *)

Running == {calls[i].cell : i \in 1 .. Len(calls)} \ {NULL}
Cells(q) == {q[i] : i \in 1 .. Len(q)}

\* Whatever a running message does to the queue, every cell stays in exactly
\* one place: queued, pooled, or running once.  None leaks, so the pool never
\* shrinks, and none is handed out while its function still reads it.
CellsConserved ==
  /\ Cells(Queued) \cup Cells(Pooled) \cup Running = Cell
  /\ Len(Queued) + Len(Pooled)
       + Cardinality({i \in 1 .. Len(calls) : calls[i].cell # NULL}) = NumCells

\* mTail is not reset when update() drains the queue; it is the last message
\* again whenever sched() relies on it.
TailIsLast == mHead # NULL => mTail = Queued[Len(Queued)]

\* update() returns only when nothing due is left, what the messages it ran
\* have scheduled in the meantime included.
UpdateDrainsDue ==
  [][Len(calls') < Len(calls) =>
       \A c \in Cells(Queued') : t'[c] > calls[Len(calls)].until]_vars

\* The linked lists implement the ordered queue: order of time, then order of
\* scheduling (al_MsgQueue.cpp:106).
Entries(q) == [i \in 1 .. Len(q) |-> <<q[i], t[q[i]]>>]
Abstract(frame) ==
  [cell |-> IF frame.cell = NULL THEN <<>> ELSE <<frame.cell>>,
   until |-> frame.until]

Ordered == INSTANCE TimedQueue
             WITH queue <- Entries(Queued), now <- mNow,
                  calls <- [i \in 1 .. Len(calls) |-> Abstract(calls[i])]

ImplementsTimedQueue == Ordered!Spec

-----------------------------------------------------------------------------
(* What the documentation says and TLC refutes: no configuration lists it. *)

\* al_MsgQueue.hpp:75 "how many messages are scheduled?": what len() returns
\* while no message is running.  (After a message has scheduled another one from
\* an otherwise empty queue it is one too small.)
LenCountsScheduled == calls = <<>> => mLen = Len(Queued)

=============================================================================
