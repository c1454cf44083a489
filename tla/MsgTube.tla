------------------------------- MODULE MsgTube -------------------------------
(***************************************************************************)
(* al::MsgTube: deferred function calls sent by one producer thread to one *)
(* consumer thread through a SingleRWRingBuffer.  Messages that find the   *)
(* ring full wait in cacheq, a queue private to the producer.              *)
(*                                                                         *)
(* The ring is the atomic bounded queue that SingleRWRingBuffer is proved  *)
(* to be: a message whose size fits in the space seen is published whole,  *)
(* and the space seen can only grow until the producer writes.  Its bytes  *)
(* are grouped here into messages.                                         *)
(***************************************************************************)
EXTENDS Integers, SequencesExt

CONSTANTS
  MemSize,   \* memsize = 1 << bits, the size of the ring
  Id,        \* bound: the identities of the messages inside at one time
  Sizes,     \* the sizes a message can have, header included
  MaxTime,   \* bound: the largest timestamp
  NoMsg      \* no message

ASSUME MemSizeAssumption == MemSize \in Nat \ {0}
ASSUME SizesAssumption == Sizes \subseteq Nat \ {0}
ASSUME MaxTimeAssumption == MaxTime \in Nat

VARIABLES
  now,       \* the timestamp the producer gives to what it sends
  ring,      \* the messages in rb, oldest first
  cacheq,    \* the messages cached because rb was full, oldest first
  ppc,       \* where the producer is: "idle", "flush" or "direct"
  cur,       \* the message writeData() is handling
  cpc,       \* where the consumer is: "idle", "loop" or "call"
  until,     \* the argument of the running executeUntil()
  running,   \* the message whose function is being called
  pending,   \* history: what was accepted and not executed, in sending order
  atCall     \* history: the messages in the ring when executeUntil() began

pvars == <<now, cacheq, ppc, cur>>
cvars == <<cpc, until, running, atCall>>
vars == <<ring, pending, pvars, cvars>>

Time == 0 .. MaxTime
Message == [id : Id, size : Sizes, t : Time]

\* No message is told apart from every message.
ASSUME NoMsgAssumption == NoMsg \notin Message

Bytes(msgs) ==
  LET sum[n \in 0 .. Len(msgs)] ==
        IF n = 0 THEN 0 ELSE sum[n - 1] + msgs[n].size
  IN  sum[Len(msgs)]

\* rb.writeSpace(): the ring holds one byte less than its size.
WriteSpace == MemSize - 1 - Bytes(ring)

OneOrNone(m) == IF m = NoMsg THEN <<>> ELSE <<m>>

\* Everything inside, in the order in which it has to be executed
Inside == OneOrNone(running) \o ring \o cacheq \o OneOrNone(cur)

Init ==
  /\ now = 0
  /\ ring = <<>> /\ cacheq = <<>>
  /\ ppc = "idle" /\ cur = NoMsg
  /\ cpc = "idle" /\ until = 0 /\ running = NoMsg
  /\ pending = <<>> /\ atCall = {}

-----------------------------------------------------------------------------
(* The producer thread. *)

\* The client moves the timestamp on; the header asks for it to be monotonic.
SetNow(t) ==
  /\ ppc = "idle"
  /\ t > now
  /\ now' = t
  /\ UNCHANGED <<ring, pending, cacheq, ppc, cur, cvars>>

\* Fault: the cache is not flushed before a message is sent.
FaultSendWithoutFlush(i, size) ==
  /\ ppc = "idle"
  /\ \A m \in ToSet(Inside) : m.id # i
  /\ size < MemSize
  /\ cur' = [id |-> i, size |-> size, t |-> now]
  /\ pending' = Append(pending, cur')
  /\ ppc' = "direct"
  /\ UNCHANGED <<ring, now, cacheq, cvars>>

\* send(), send_data() and the head of writeData(): a message that can never
\* fit is refused with a warning, any other one starts by flushing the cache.
Send(i, size) ==
  /\ ppc = "idle"
  /\ \A m \in ToSet(Inside) : m.id # i
  /\ size < MemSize
  /\ cur' = [id |-> i, size |-> size, t |-> now]
  /\ pending' = Append(pending, cur')
  /\ ppc' = "flush"
  /\ UNCHANGED <<ring, now, cacheq, cvars>>

\* Fault: a cached message is written without looking at the space.
FaultFlushUnchecked ==
  /\ ppc = "flush"
  /\ cacheq # <<>>
  /\ ring' = Append(ring, Head(cacheq))
  /\ cacheq' = Tail(cacheq)
  /\ UNCHANGED <<pending, now, ppc, cur, cvars>>

\* One round of the loop of flushCache(): the front of the cache moves ...
FlushOne ==
  /\ ppc = "flush"
  /\ cacheq # <<>>
  /\ Head(cacheq).size < WriteSpace
  /\ ring' = Append(ring, Head(cacheq))
  /\ cacheq' = Tail(cacheq)
  /\ UNCHANGED <<pending, now, ppc, cur, cvars>>

\* ... or does not fit, and the new message is cached behind it ...
FlushFails ==
  /\ ppc = "flush"
  /\ cacheq # <<>>
  /\ Head(cacheq).size >= WriteSpace
  /\ cacheq' = Append(cacheq, cur)
  /\ cur' = NoMsg
  /\ ppc' = "idle"
  /\ UNCHANGED <<ring, pending, now, cvars>>

\* Fault: one successful round is taken for an empty cache.
FaultOvertake ==
  /\ ppc = "flush"
  /\ ppc' = "direct"
  /\ UNCHANGED <<ring, pending, now, cacheq, cur, cvars>>

\* ... or the cache is empty.
FlushDone ==
  /\ ppc = "flush"
  /\ cacheq = <<>>
  /\ ppc' = "direct"
  /\ UNCHANGED <<ring, pending, now, cacheq, cur, cvars>>

\* The rest of writeData(): straight into the ring, or into the cache
WriteDirect ==
  /\ ppc = "direct"
  /\ IF WriteSpace >= cur.size
       THEN ring' = Append(ring, cur) /\ UNCHANGED cacheq
       ELSE cacheq' = Append(cacheq, cur) /\ UNCHANGED ring
  /\ cur' = NoMsg
  /\ ppc' = "idle"
  /\ UNCHANGED <<pending, now, cvars>>

-----------------------------------------------------------------------------
(* The consumer thread. *)

ExecuteUntil(t) ==
  /\ cpc = "idle"
  /\ cpc' = "loop"
  /\ until' = t
  /\ atCall' = ToSet(ring)
  /\ UNCHANGED <<ring, pending, pvars, running>>

\* Fault: a message due exactly now waits.
FaultDueLater == ring # <<>> /\ Head(ring).t < until

HeadIsDue == ring # <<>> /\ Head(ring).t <= until

\* The loop ends on an empty ring or on a message that is not due.
ExecuteReturn ==
  /\ cpc = "loop"
  /\ ~ HeadIsDue
  /\ cpc' = "idle"
  /\ atCall' = {}
  /\ UNCHANGED <<ring, pending, pvars, until, running>>

\* peek() at the header and read() of the message
TakeDue ==
  /\ cpc = "loop"
  /\ HeadIsDue
  /\ running' = Head(ring)
  /\ ring' = Tail(ring)
  /\ cpc' = "call"
  /\ UNCHANGED <<pending, pvars, until, atCall>>

\* (header.func)(buf) returns.  What is struck off the history is the oldest
\* message: that this is the one that ran is what SentOrderKept says.
CallReturn ==
  /\ cpc = "call"
  /\ pending' = Tail(pending)
  /\ running' = NoMsg
  /\ cpc' = "loop"
  /\ UNCHANGED <<ring, pvars, until, atCall>>

-----------------------------------------------------------------------------

Flush == FlushOne \/ FlushFails \/ FlushDone

Next ==
  \/ \E t \in Time : SetNow(t)
  \/ \E i \in Id, size \in Sizes : Send(i, size)
  \/ FlushOne
  \/ FlushFails
  \/ FlushDone
  \/ WriteDirect
  \/ \E t \in Time : ExecuteUntil(t)
  \/ ExecuteReturn
  \/ TakeDue
  \/ CallReturn

Spec == Init /\ [][Next]_vars

(* Calls that have begun run to their end, and the consumer polls: the     *)
(* audio or graphics callback that owns it calls executeUntil() with the   *)
(* current time, which passes every timestamp.  Nothing obliges the        *)
(* producer to send again.                                                 *)
Fairness ==
  /\ WF_vars(Flush)
  /\ WF_vars(WriteDirect)
  /\ WF_vars(TakeDue)
  /\ WF_vars(CallReturn)
  /\ WF_vars(ExecuteReturn)
  /\ SF_vars(ExecuteUntil(MaxTime))

FairSpec == Spec /\ Fairness

-----------------------------------------------------------------------------
(* Properties *)

\* Cached and direct messages form one queue: nothing accepted is lost or
\* doubled, and no message overtakes one sent before it, although messages
\* take two routes and the ring drains while the producer decides.
SentOrderKept == pending = Inside

\* The ring never holds more bytes than it has room for, so rb.write() never
\* truncates a message and executeUntil() never reads half of one.
RingNeverTruncates == Bytes(ring) <= MemSize - 1

\* executeUntil() does not return while a message that was in the ring when it
\* was called is due.
DueMessagesRun ==
  [][cpc = "loop" /\ cpc' = "idle" =>
       \A m \in ToSet(ring) \cap atCall : m.t > until]_vars

\* The cache grows beside an empty ring only behind a message of exactly
\* MemSize - 1 bytes: writeData() accepts one, flushCache() never lets it leave
\* the cache, and what is sent after it waits as long.
OnlyFullSizeIsStuck ==
  [][Len(cacheq') > Len(cacheq) =>
       ring # <<>> \/ Head(cacheq').size = MemSize - 1]_vars

Sending == \E i \in Id, size \in Sizes : Send(i, size)
Cached(i) == \E m \in ToSet(cacheq) : m.id = i
Executing(i) == running # NoMsg /\ running.id = i

\* A cached message is executed, provided that the producer never stops
\* sending: every later send flushes the cache before anything else.  A
\* producer that falls silent leaves its cached messages behind, although
\* al_MsgTube.hpp:56 calls the handling of an overflow seamless.
CacheDrainsWhileSending ==
  ([]<><<Sending>>_vars) => \A i \in Id : Cached(i) ~> Executing(i)

-----------------------------------------------------------------------------
\* What a comment says and TLC refutes: al_MsgTube.hpp:94 "Cache of messages,
\* when the ringbuffer is full", so that a message is cached only while the
\* oldest of those waiting does not fit.  (Line 224 refuses one that fits
\* exactly, which line 240 would have written.)
CachesOnlyWhenRingIsFull ==
  [][Len(cacheq') > Len(cacheq) => Head(cacheq').size > WriteSpace]_vars

=============================================================================
