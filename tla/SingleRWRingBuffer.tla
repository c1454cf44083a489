------------------------- MODULE SingleRWRingBuffer -------------------------
(***************************************************************************)
(* al::SingleRWRingBuffer: a ring of mSize bytes shared without a lock by  *)
(* one writer thread and one reader thread.  The threads meet only in the  *)
(* two indices mRead and mWrite and in the bytes of mData.  Each call is   *)
(* split where the other thread can intervene: one step that loads the     *)
(* other thread's index and clamps the request, one step per byte copied   *)
(* by memcpy (in any order), and one step that stores the index.           *)
(*                                                                         *)
(* The indices are plain integers.  The stores of a thread are modelled as *)
(* reaching the other one in program order, which is what the x86 builds   *)
(* of the library produce: the copy goes through char pointers, so the     *)
(* compiler may not move the index store across it.                        *)
(***************************************************************************)
EXTENDS Integers, Sequences

CONSTANTS
  Size,     \* mSize, the requested size rounded up to a power of two
  Byte,     \* the values a byte can have
  MaxReq    \* bound: the largest number of bytes one call asks for

ASSUME SizeAssumption == Size \in Nat \ {0}
ASSUME MaxReqAssumption == MaxReq \in Nat

VARIABLES
  data,     \* mData
  mRead, mWrite,
  wpc,      \* where the writer thread is: "idle" or "copy"
  src,      \* the bytes write() will store, already clamped to the space seen
  wleft,    \* offsets into src that memcpy has not stored yet
  rpc,      \* where the reader thread is: "idle", "read", "peek" or "clear"
  rlen,     \* the length of the running read or peek, clamped to what it saw
  buf,      \* the bytes loaded so far by the running read or peek
  rnew,     \* the mWrite loaded by a running clear()
  got       \* what the reader's latest read or peek returned in dst

wvars == <<wpc, src, wleft>>
rvars == <<rpc, rlen, buf, rnew, got>>
vars == <<data, mRead, mWrite, wvars, rvars>>

Slot == 0 .. Size - 1

\* & mWrap, with mWrap = mSize - 1 and mSize a power of two
Wrap(i) == i % Size

\* The number of slots from one index forward to another
Ahead(from, to) == Wrap(Size + (to - from))

\* Fault: no slot is kept free.
FaultNoSpareSlot == IF mRead = mWrite THEN Size - 1 ELSE Ahead(mWrite, mRead)

\* writeSpace(): one slot stays free so that a full ring is not an empty one.
WriteSpace == IF mRead = mWrite THEN Size - 1
                                ELSE Ahead(mWrite, mRead) - 1

\* readSpace()
ReadSpace == Ahead(mRead, mWrite)

Clamp(sz, space) == IF sz > space THEN space ELSE sz

Init ==
  /\ data \in [Slot -> Byte]     \* new char[mSize] leaves any bytes in it
  /\ mRead = 0
  /\ mWrite = 0
  /\ wpc = "idle" /\ src = <<>> /\ wleft = {}
  /\ rpc = "idle" /\ rlen = 0 /\ buf = <<>> /\ rnew = 0 /\ got = <<>>

-----------------------------------------------------------------------------
(* The writer thread. *)

\* write(): clamp to the space seen now; a call that finds none returns 0.
WriteCall(bytes) ==
  /\ wpc = "idle"
  /\ LET n == Clamp(Len(bytes), WriteSpace) IN
       /\ n # 0
       /\ src' = SubSeq(bytes, 1, n)
       /\ wleft' = 1 .. n
  /\ wpc' = "copy"
  /\ UNCHANGED <<data, mRead, mWrite, rvars>>

\* memcpy into mData: up to the end of the array, then from its start
StoreByte(k) ==
  /\ wpc = "copy"
  /\ k \in wleft
  /\ data' = [data EXCEPT ![Wrap(mWrite + k - 1)] = src[k]]
  /\ wleft' = wleft \ {k}
  /\ UNCHANGED <<mRead, mWrite, wpc, src, rvars>>

\* Fault: the index is not masked.
FaultUnmaskedIndex ==
  /\ wpc = "copy"
  /\ wleft = {}
  /\ mWrite' = mWrite + Len(src)
  /\ wpc' = "idle"
  /\ src' = <<>>
  /\ UNCHANGED <<data, mRead, wleft, rvars>>

\* Fault: mWrite is stored before the bytes are.
FaultEarlyPublish ==
  /\ wpc = "copy"
  /\ mWrite' = Wrap(mWrite + Len(src))
  /\ wpc' = "idle"
  /\ src' = <<>>
  /\ wleft' = {}
  /\ UNCHANGED <<data, mRead, rvars>>

\* mWrite = end
WritePublish ==
  /\ wpc = "copy"
  /\ wleft = {}
  /\ mWrite' = Wrap(mWrite + Len(src))
  /\ wpc' = "idle"
  /\ src' = <<>>
  /\ UNCHANGED <<data, mRead, wleft, rvars>>

-----------------------------------------------------------------------------
(* The reader thread. *)

\* Fault: the slots are released before they are copied.
FaultEarlyRelease(op, sz) ==
  /\ rpc = "idle"
  /\ rlen' = Clamp(sz, ReadSpace)
  /\ rlen' # 0
  /\ rpc' = op
  /\ mRead' = Wrap(mRead + rlen')
  /\ UNCHANGED <<data, mWrite, wvars, buf, rnew, got>>

\* read() and peek(): clamp to the bytes seen now; none makes the call return 0.
ReadCall(op, sz) ==
  /\ rpc = "idle"
  /\ rlen' = Clamp(sz, ReadSpace)
  /\ rlen' # 0
  /\ rpc' = op
  /\ UNCHANGED <<data, mRead, mWrite, wvars, buf, rnew, got>>

\* memcpy out of mData, split at the end of the array like the writer's
LoadByte(k) ==
  /\ rpc \in {"read", "peek"}
  /\ k \in (1 .. rlen) \ DOMAIN buf
  /\ buf' = [j \in DOMAIN buf \cup {k} |->
               IF j = k THEN data[Wrap(mRead + k - 1)] ELSE buf[j]]
  /\ UNCHANGED <<data, mRead, mWrite, wvars, rpc, rlen, rnew, got>>

\* the end of both calls; only read() advances mRead
ReadReturn ==
  /\ rpc \in {"read", "peek"}
  /\ DOMAIN buf = 1 .. rlen
  /\ mRead' = IF rpc = "read" THEN Wrap(mRead + rlen) ELSE mRead
  /\ got' = buf
  /\ rpc' = "idle"
  /\ rlen' = 0
  /\ buf' = <<>>
  /\ UNCHANGED <<data, mWrite, wvars, rnew>>

\* clear(): load mWrite ...
ClearCall ==
  /\ rpc = "idle"
  /\ rpc' = "clear"
  /\ rnew' = mWrite
  /\ UNCHANGED <<data, mRead, mWrite, wvars, rlen, buf, got>>

\* ... and store it in mRead.
ClearStore ==
  /\ rpc = "clear"
  /\ mRead' = rnew
  /\ rpc' = "idle"
  /\ rnew' = 0
  /\ UNCHANGED <<data, mWrite, wvars, rlen, buf, got>>

-----------------------------------------------------------------------------

Writer ==
  \/ \E n \in 1 .. MaxReq : \E bytes \in [1 .. n -> Byte] : WriteCall(bytes)
  \/ \E k \in wleft : StoreByte(k)
  \/ WritePublish

Reader ==
  \/ \E op \in {"read", "peek"}, sz \in 1 .. MaxReq : ReadCall(op, sz)
  \/ \E k \in 1 .. rlen : LoadByte(k)
  \/ ReadReturn
  \/ ClearCall
  \/ ClearStore

Next == Writer \/ Reader

Spec == Init /\ [][Next]_vars

-----------------------------------------------------------------------------
(* Properties *)

\* The indices stay inside the array, the pending offsets inside the request,
\* and the program counters among the places a thread can be.
TypeOK ==
  /\ data \in [Slot -> Byte]
  /\ mRead \in Slot /\ mWrite \in Slot
  /\ wpc \in {"idle", "copy"}
  /\ src \in Seq(Byte) /\ Len(src) < Size
  /\ wleft \subseteq 1 .. Len(src)
  /\ (wpc = "idle") => (src = <<>>)
  /\ rpc \in {"idle", "read", "peek", "clear"}
  /\ rlen \in Slot
  /\ (rpc \in {"idle", "clear"}) => (rlen = 0)
  /\ DOMAIN buf \subseteq 1 .. rlen
  /\ \A k \in DOMAIN buf : buf[k] \in Byte
  /\ buf = [k \in DOMAIN buf |-> buf[k]]
  /\ rnew \in Slot
  /\ got \in Seq(Byte)

\* A space or fill level computed from the other thread's index is stale as
\* soon as it is used.  It may only ever err on the safe side: what write()
\* is storing still fits beside what is published, what read() and peek() are
\* loading is still published, and so is what clear() is about to skip.
StaleSpaceIsSafe ==
  /\ ReadSpace + Len(src) <= Size - 1
  /\ rlen <= ReadSpace
  /\ (rpc = "clear") => (Ahead(mRead, rnew) <= ReadSpace)

\* The slots write() still has to store and the slots the running read() or
\* peek() covers
StoringSlots == {Wrap(mWrite + k - 1) : k \in wleft}
ReadingSlots == {Wrap(mRead + k - 1) : k \in 1 .. rlen}

\* The two memcpy calls of concurrent write() and read() never touch the same
\* byte, although no lock keeps them apart.
NoOverlap == StoringSlots \cap ReadingSlots = {}

\* The bytes between the two indices, oldest first
Contents == [i \in 1 .. ReadSpace |-> data[Wrap(mRead + i - 1)]]

Fifo == INSTANCE BoundedFifo
          WITH Capacity <- Size - 1, input <- src, queue <- Contents

\* The interleaved copies and index updates are those of an atomic bounded
\* queue of bytes: what one thread reads is what the other wrote, in order.
ImplementsFifo == Fifo!Spec

=============================================================================
