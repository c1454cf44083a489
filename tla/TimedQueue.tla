------------------------------ MODULE TimedQueue ------------------------------
(***************************************************************************)
(* What a scheduler of timed calls promises: messages run in the order of  *)
(* their timestamps, those with equal timestamps in the order in which     *)
(* they were scheduled, none before it is due, and an update ends only     *)
(* when nothing due is left.  A call may itself schedule, update or clear. *)
(* MsgQueue is shown to implement it.                                      *)
(***************************************************************************)
EXTENDS Integers, Sequences

CONSTANTS
  Cell,      \* the message holders
  Time       \* the timestamps

VARIABLES
  queue,     \* the scheduled messages, <<holder, timestamp>>, next one first
  calls,     \* the holders whose functions are running, innermost last, with
             \* the limit of the update that runs each; a limit with no holder
             \* is an update between two calls
  now        \* the logical time

vars == <<queue, calls, now>>

None == <<>>

InUse == {queue[i][1] : i \in 1 .. Len(queue)}
           \cup {calls[i].cell[1] : i \in {j \in 1 .. Len(calls) : calls[j].cell # None}}

Updating == calls # <<>> /\ calls[Len(calls)].cell = None
ClientRuns == ~ Updating

Init == queue = <<>> /\ calls = <<>> /\ now = 0

\* A new message goes behind everything due no later and before the rest.
Schedule(c, at) ==
  /\ ClientRuns
  /\ c \notin InUse
  /\ \E i \in 0 .. Len(queue) :
       /\ \A j \in 1 .. i : queue[j][2] <= at
       /\ \A j \in i + 1 .. Len(queue) : queue[j][2] > at
       /\ queue' = SubSeq(queue, 1, i) \o << <<c, at>> >>
                     \o SubSeq(queue, i + 1, Len(queue))
  /\ UNCHANGED <<calls, now>>

Begin(limit) ==
  /\ ClientRuns
  /\ calls' = Append(calls, [cell |-> None, until |-> limit])
  /\ UNCHANGED <<queue, now>>

Due(limit) == queue # <<>> /\ Head(queue)[2] <= limit

\* The oldest due message starts; the time it is given never steps back.
Take ==
  /\ Updating
  /\ Due(calls[Len(calls)].until)
  /\ calls' = [calls EXCEPT ![Len(calls)].cell = <<Head(queue)[1]>>]
  /\ queue' = Tail(queue)
  /\ now' = IF Head(queue)[2] > now THEN Head(queue)[2] ELSE now

Return ==
  /\ calls # <<>> /\ ~ Updating
  /\ calls' = [calls EXCEPT ![Len(calls)].cell = None]
  /\ UNCHANGED <<queue, now>>

End ==
  /\ Updating
  /\ ~ Due(calls[Len(calls)].until)
  /\ calls' = SubSeq(calls, 1, Len(calls) - 1)
  /\ now' = calls[Len(calls)].until
  /\ UNCHANGED queue

Clear ==
  /\ ClientRuns
  /\ queue' = <<>>
  /\ now' = 0
  /\ UNCHANGED calls

Next ==
  \/ \E c \in Cell, at \in Time : Schedule(c, at)
  \/ \E limit \in Time : Begin(limit)
  \/ Take
  \/ Return
  \/ End
  \/ Clear

Spec == Init /\ [][Next]_vars

=============================================================================
