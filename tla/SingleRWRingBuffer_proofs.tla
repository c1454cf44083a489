---------------------- MODULE SingleRWRingBuffer_proofs ----------------------
(***************************************************************************)
(* Proofs about SingleRWRingBuffer, for every ring size, every byte type   *)
(* and every request size, and about SoundFileBuffered, whose thread reads *)
(* ahead into such a ring.  A theorem is about one of the two.             *)
(***************************************************************************)
EXTENDS SingleRWRingBuffer, SoundFileBuffered, SequenceTheorems, TLAPS

-----------------------------------------------------------------------------
(* Arithmetic of the indices *)

\* Adding two indices leaves the array at most once.
LEMMA WrapValue ==
  ASSUME NEW i \in 0 .. 2 * Size - 1
  PROVE  Wrap(i) = IF i < Size THEN i ELSE i - Size
<1>1. CASE i < Size
  BY <1>1, SizeAssumption DEF Wrap
<1>2. CASE i >= Size
  BY <1>2, SizeAssumption DEF Wrap
<1> QED BY <1>1, <1>2, SizeAssumption

\* The slot of the k-th byte counted from an index
LEMMA SlotValue ==
  ASSUME NEW i \in Slot, NEW k \in 1 .. Size
  PROVE  /\ Wrap(i + k - 1) = IF i + k <= Size THEN i + k - 1
                                               ELSE i + k - 1 - Size
         /\ Wrap(i + k - 1) \in Slot
<1>1. CASE i + k <= Size
  BY <1>1, SizeAssumption DEF Wrap, Slot
<1>2. CASE i + k > Size
  BY <1>2, SizeAssumption DEF Wrap, Slot
<1> QED BY <1>1, <1>2, SizeAssumption DEF Slot

\* The distance between two indices, without the modulus
LEMMA AheadValue ==
  ASSUME NEW f \in Slot, NEW t \in Slot
  PROVE  /\ Ahead(f, t) = IF f <= t THEN t - f ELSE Size + t - f
         /\ Ahead(f, t) \in Slot
<1>1. Size + (t - f) \in 0 .. 2 * Size - 1
  BY SizeAssumption DEF Slot
<1> QED BY <1>1, WrapValue, SizeAssumption DEF Slot, Ahead

\* The two spaces share the ring, less the one slot kept free.
LEMMA SpacesShareTheRing ==
  ASSUME mRead \in Slot, mWrite \in Slot
  PROVE  /\ ReadSpace \in Slot
         /\ WriteSpace \in Slot
         /\ WriteSpace + ReadSpace = Size - 1
<1>1. ReadSpace = IF mRead <= mWrite THEN mWrite - mRead
                                     ELSE Size + mWrite - mRead
  BY AheadValue DEF ReadSpace
<1>2. Ahead(mWrite, mRead) = IF mWrite <= mRead THEN mRead - mWrite
                                                ELSE Size + mRead - mWrite
  BY AheadValue
<1> QED BY <1>1, <1>2, SizeAssumption DEF Slot, WriteSpace

\* Moving an index forward by n moves it n slots further from any index that
\* is not passed.
LEMMA AdvanceEnd ==
  ASSUME NEW f \in Slot, NEW t \in Slot,
         NEW n \in Nat, Ahead(f, t) + n < Size
  PROVE  /\ Wrap(t + n) \in Slot
         /\ Ahead(f, Wrap(t + n)) = Ahead(f, t) + n
<1>1. Ahead(f, t) = IF f <= t THEN t - f ELSE Size + t - f
  BY AheadValue
<1>2. t + n \in 0 .. 2 * Size - 1
  BY <1>1, SizeAssumption DEF Slot
<1>3. /\ Wrap(t + n) \in Slot
      /\ Wrap(t + n) = IF t + n < Size THEN t + n ELSE t + n - Size
  BY <1>2, WrapValue, SizeAssumption DEF Slot
<1>4. Ahead(f, Wrap(t + n)) = IF f <= Wrap(t + n) THEN Wrap(t + n) - f
                                                  ELSE Size + Wrap(t + n) - f
  BY <1>3, AheadValue
<1> QED BY <1>1, <1>3, <1>4, SizeAssumption DEF Slot

LEMMA AdvanceStart ==
  ASSUME NEW f \in Slot, NEW t \in Slot,
         NEW n \in Nat, n <= Ahead(f, t)
  PROVE  /\ Wrap(f + n) \in Slot
         /\ Ahead(Wrap(f + n), t) = Ahead(f, t) - n
<1>1. Ahead(f, t) = IF f <= t THEN t - f ELSE Size + t - f
  BY AheadValue
<1>2. f + n \in 0 .. 2 * Size - 1
  BY <1>1, SizeAssumption DEF Slot
<1>3. /\ Wrap(f + n) \in Slot
      /\ Wrap(f + n) = IF f + n < Size THEN f + n ELSE f + n - Size
  BY <1>2, WrapValue, SizeAssumption DEF Slot
<1>4. Ahead(Wrap(f + n), t) = IF Wrap(f + n) <= t THEN t - Wrap(f + n)
                                                  ELSE Size + t - Wrap(f + n)
  BY <1>3, AheadValue
<1> QED BY <1>1, <1>3, <1>4, SizeAssumption DEF Slot

\* The slots that write() fills lie past those that are published.
LEMMA FilledAndFreeSlots ==
  ASSUME mRead \in Slot, mWrite \in Slot,
         NEW i \in 1 .. ReadSpace, NEW k \in Nat \ {0},
         ReadSpace + k <= Size - 1
  PROVE  Wrap(mWrite + k - 1) # Wrap(mRead + i - 1)
<1>1. /\ ReadSpace = IF mRead <= mWrite THEN mWrite - mRead
                                        ELSE Size + mWrite - mRead
      /\ ReadSpace \in Slot
  BY AheadValue DEF ReadSpace
<1>2. k \in 1 .. Size /\ i \in 1 .. Size
  BY <1>1, SizeAssumption DEF Slot
<1>3. /\ Wrap(mWrite + k - 1) = IF mWrite + k <= Size
                                THEN mWrite + k - 1 ELSE mWrite + k - 1 - Size
      /\ Wrap(mRead + i - 1) = IF mRead + i <= Size
                               THEN mRead + i - 1 ELSE mRead + i - 1 - Size
  BY <1>2, SlotValue
<1>4. CASE mRead <= mWrite
  BY <1>1, <1>2, <1>3, <1>4, SizeAssumption DEF Slot
<1>5. CASE ~(mRead <= mWrite)
  BY <1>1, <1>2, <1>3, <1>5, SizeAssumption DEF Slot
<1> QED BY <1>4, <1>5

-----------------------------------------------------------------------------
(* The inductive invariant *)

\* TypeOK is not inductive alone: that an index store stays inside the array
\* needs the clamped lengths of the pending calls, and that these stay valid
\* while the other thread moves its index is StaleSpaceIsSafe.
IInv == TypeOK /\ StaleSpaceIsSafe

LEMMA InitIInv == Init => IInv
<1> SUFFICES ASSUME Init PROVE IInv
  OBVIOUS
<1>1. TypeOK
  BY SizeAssumption DEF Init, TypeOK, Slot
<1>2. ReadSpace = 0
  BY <1>1, AheadValue DEF Init, TypeOK, ReadSpace
<1>3. StaleSpaceIsSafe
  BY <1>2, SizeAssumption DEF Init, StaleSpaceIsSafe
<1> QED BY <1>1, <1>3 DEF IInv

LEMMA WriteCallIInv ==
  ASSUME IInv, NEW n \in 1 .. MaxReq, NEW bytes \in [1 .. n -> Byte],
         WriteCall(bytes)
  PROVE  IInv'
<1> DEFINE len == Clamp(Len(bytes), WriteSpace)
<1>1. /\ bytes \in Seq(Byte)
      /\ Len(bytes) = n
  BY MaxReqAssumption
<1>2. /\ WriteSpace \in Slot
      /\ ReadSpace \in Slot
      /\ WriteSpace + ReadSpace = Size - 1
  BY SpacesShareTheRing DEF IInv, TypeOK
<1>3. len \in 0 .. n /\ len <= WriteSpace
  BY <1>1, <1>2, MaxReqAssumption, SizeAssumption DEF Clamp, Slot
<1>4. /\ src' = SubSeq(bytes, 1, len)
      /\ wleft' = 1 .. len
      /\ UNCHANGED <<data, mRead, mWrite, rpc, rlen, buf, rnew, got>>
      /\ wpc' = "copy"
  BY DEF WriteCall, rvars
<1> HIDE DEF len
<1>5. /\ src' \in Seq(Byte)
      /\ Len(src') = len
  BY <1>1, <1>3, <1>4
<1>6. TypeOK'
  BY <1>2, <1>3, <1>4, <1>5, SizeAssumption DEF IInv, TypeOK, Slot
<1>7. StaleSpaceIsSafe'
  BY <1>2, <1>3, <1>4, <1>5, SizeAssumption
     DEF IInv, StaleSpaceIsSafe, ReadSpace, Ahead, Wrap, Slot
<1> QED BY <1>6, <1>7 DEF IInv

LEMMA StoreByteIInv ==
  ASSUME IInv, NEW k \in wleft, StoreByte(k)
  PROVE  IInv'
<1>1. TypeOK'
  <2>1. src[k] \in Byte
    BY DEF IInv, TypeOK
  <2>2. data' \in [Slot -> Byte]
    BY <2>1 DEF IInv, TypeOK, StoreByte
  <2> QED BY <2>2 DEF IInv, TypeOK, StoreByte, rvars, Slot
<1>2. StaleSpaceIsSafe'
  BY DEF IInv, StaleSpaceIsSafe, StoreByte, rvars, ReadSpace, Ahead, Wrap
<1> QED BY <1>1, <1>2 DEF IInv

LEMMA WritePublishIInv ==
  ASSUME IInv, WritePublish
  PROVE  IInv'
<1>1. /\ mRead \in Slot /\ mWrite \in Slot
      /\ Len(src) \in Nat
      /\ Ahead(mRead, mWrite) \in Slot
      /\ Ahead(mRead, mWrite) + Len(src) < Size
  BY AheadValue, SizeAssumption
     DEF IInv, TypeOK, StaleSpaceIsSafe, ReadSpace, Slot
<1>2. /\ mWrite' \in Slot
      /\ ReadSpace' = ReadSpace + Len(src)
  BY <1>1, AdvanceEnd DEF WritePublish, ReadSpace
<1>3. TypeOK'
  BY <1>2, SizeAssumption DEF IInv, TypeOK, WritePublish, rvars, Slot
<1>4. StaleSpaceIsSafe'
  <2>1. /\ src' = <<>>
        /\ UNCHANGED <<rpc, rlen, rnew, mRead>>
    BY DEF WritePublish, rvars
  <2>2. Ahead(mRead, rnew)' = Ahead(mRead, rnew)
    BY <2>1 DEF Ahead, Wrap
  <2>3. ReadSpace \in Slot /\ rlen \in Slot
    BY <1>1 DEF IInv, TypeOK, ReadSpace
  <2>4. (ReadSpace + Len(src))' <= Size - 1
    BY <1>1, <1>2, <2>1, SizeAssumption DEF ReadSpace, Slot
  <2>5. rlen' <= ReadSpace'
    BY <1>1, <1>2, <2>1, <2>3, SizeAssumption DEF IInv, StaleSpaceIsSafe, Slot
  <2>6. ((rpc = "clear") => (Ahead(mRead, rnew) <= ReadSpace))'
    <3>1. SUFFICES ASSUME rpc = "clear"
                   PROVE  Ahead(mRead, rnew) <= ReadSpace'
      BY <2>1, <2>2
    <3>2. Ahead(mRead, rnew) \in Slot
      BY <1>1, AheadValue DEF IInv, TypeOK
    <3> QED
      BY <1>1, <1>2, <2>3, <3>1, <3>2, SizeAssumption
         DEF IInv, StaleSpaceIsSafe, Slot
  <2> QED BY <2>4, <2>5, <2>6 DEF StaleSpaceIsSafe
<1> QED BY <1>3, <1>4 DEF IInv

LEMMA ReadCallIInv ==
  ASSUME IInv, NEW op \in {"read", "peek"}, NEW sz \in 1 .. MaxReq,
         ReadCall(op, sz)
  PROVE  IInv'
<1>1. ReadSpace \in Slot
  BY SpacesShareTheRing DEF IInv, TypeOK
<1>2. rlen' \in Slot /\ rlen' <= ReadSpace
  BY <1>1, SizeAssumption, MaxReqAssumption DEF ReadCall, Clamp, Slot
<1>3. DOMAIN buf = {}
  <2>1. DOMAIN buf \subseteq 1 .. 0
    BY DEF IInv, TypeOK, ReadCall
  <2> QED BY <2>1
<1>4. TypeOK'
  BY <1>2, <1>3 DEF IInv, TypeOK, ReadCall, wvars, Slot
<1>5. StaleSpaceIsSafe'
  <2>1. ReadSpace' = ReadSpace /\ rpc' # "clear" /\ src' = src
    BY DEF ReadCall, wvars, ReadSpace, Ahead, Wrap
  <2> QED BY <1>2, <2>1 DEF IInv, StaleSpaceIsSafe
<1> QED BY <1>4, <1>5 DEF IInv

LEMMA LoadByteIInv ==
  ASSUME IInv, NEW k \in 1 .. rlen, LoadByte(k)
  PROVE  IInv'
<1>1. Wrap(mRead + k - 1) \in Slot
  <2>1. mRead + k - 1 \in 0 .. 2 * Size - 1
    BY SizeAssumption DEF IInv, TypeOK, Slot
  <2> QED BY <2>1, WrapValue, SizeAssumption DEF Slot
<1>2. data[Wrap(mRead + k - 1)] \in Byte
  BY <1>1 DEF IInv, TypeOK
<1>3. /\ DOMAIN buf' = DOMAIN buf \cup {k}
      /\ \A j \in DOMAIN buf' : buf'[j] \in Byte
      /\ buf' = [j \in DOMAIN buf' |-> buf'[j]]
  BY <1>2 DEF IInv, TypeOK, LoadByte
<1>4. TypeOK'
  BY <1>3 DEF IInv, TypeOK, LoadByte, wvars, Slot
<1>5. StaleSpaceIsSafe'
  BY DEF IInv, StaleSpaceIsSafe, LoadByte, wvars, ReadSpace, Ahead, Wrap
<1> QED BY <1>4, <1>5 DEF IInv

LEMMA ReadReturnIInv ==
  ASSUME IInv, ReadReturn
  PROVE  IInv'
<1>1. /\ mRead \in Slot /\ mWrite \in Slot /\ rlen \in Slot
      /\ rlen <= Ahead(mRead, mWrite)
      /\ Ahead(mRead, mWrite) \in Slot
  BY AheadValue DEF IInv, TypeOK, StaleSpaceIsSafe, ReadSpace
<1>2. /\ mRead' \in Slot
      /\ Ahead(mRead', mWrite) <= Ahead(mRead, mWrite)
      /\ Ahead(mRead', mWrite) \in Slot
  <2>1. CASE rpc = "read"
    <3>1. rlen \in Nat
      BY <1>1, SizeAssumption DEF Slot
    <3>2. /\ Wrap(mRead + rlen) \in Slot
          /\ Ahead(Wrap(mRead + rlen), mWrite) = Ahead(mRead, mWrite) - rlen
      BY <1>1, <3>1, AdvanceStart
    <3>3. mRead' = Wrap(mRead + rlen)
      BY <2>1 DEF ReadReturn
    <3> QED
      BY <1>1, <3>1, <3>2, <3>3, SizeAssumption DEF Slot
  <2>2. CASE rpc # "read"
    BY <1>1, <2>2 DEF ReadReturn, Slot
  <2> QED BY <2>1, <2>2
<1>3. got' \in Seq(Byte)
  <2>1. rlen \in Nat
    BY <1>1, SizeAssumption DEF Slot
  <2>2. buf \in [1 .. rlen -> Byte]
    BY DEF IInv, TypeOK, ReadReturn
  <2> QED BY <2>1, <2>2 DEF ReadReturn
<1>4. TypeOK'
  BY <1>2, <1>3, SizeAssumption DEF IInv, TypeOK, ReadReturn, wvars, Slot
<1>5. StaleSpaceIsSafe'
  <2>1. ReadSpace' = Ahead(mRead', mWrite)
    BY DEF ReadReturn, ReadSpace, Ahead, Wrap
  <2>2. Len(src) \in Nat /\ src' = src /\ rlen' = 0 /\ rpc' = "idle"
    BY DEF IInv, TypeOK, ReadReturn, wvars
  <2> QED
    BY <1>1, <1>2, <2>1, <2>2, SizeAssumption
       DEF IInv, StaleSpaceIsSafe, ReadSpace, Slot
<1> QED BY <1>4, <1>5 DEF IInv

LEMMA ClearCallIInv ==
  ASSUME IInv, ClearCall
  PROVE  IInv'
<1>1. TypeOK'
  BY DEF IInv, TypeOK, ClearCall, wvars, Slot
<1>2. StaleSpaceIsSafe'
  <2>1. ReadSpace' = ReadSpace /\ Ahead(mRead, rnew)' = ReadSpace
    BY DEF ClearCall, ReadSpace, Ahead, Wrap
  <2>2. ReadSpace \in Slot
    BY SpacesShareTheRing DEF IInv, TypeOK
  <2> QED
    BY <2>1, <2>2, SizeAssumption
       DEF IInv, TypeOK, StaleSpaceIsSafe, ClearCall, wvars, Slot
<1> QED BY <1>1, <1>2 DEF IInv

LEMMA ClearStoreIInv ==
  ASSUME IInv, ClearStore
  PROVE  IInv'
<1>1. TypeOK'
  BY SizeAssumption DEF IInv, TypeOK, ClearStore, wvars, Slot
<1>2. StaleSpaceIsSafe'
  <2>1. /\ mRead \in Slot /\ mWrite \in Slot /\ rnew \in Slot
        /\ Ahead(mRead, rnew) <= Ahead(mRead, mWrite)
    BY DEF IInv, TypeOK, StaleSpaceIsSafe, ClearStore, ReadSpace
  <2>2. ReadSpace' = Ahead(rnew, mWrite)
    BY DEF ClearStore, ReadSpace, Ahead, Wrap
  <2>3. Ahead(rnew, mWrite) = Ahead(mRead, mWrite) - Ahead(mRead, rnew)
    <3>1. /\ Ahead(mRead, rnew) =
               IF mRead <= rnew THEN rnew - mRead ELSE Size + rnew - mRead
          /\ Ahead(mRead, mWrite) =
               IF mRead <= mWrite THEN mWrite - mRead
                                  ELSE Size + mWrite - mRead
          /\ Ahead(rnew, mWrite) =
               IF rnew <= mWrite THEN mWrite - rnew ELSE Size + mWrite - rnew
      BY <2>1, AheadValue
    <3> QED BY <2>1, <3>1, SizeAssumption DEF Slot
  <2>4. Ahead(mRead, rnew) \in Slot /\ Ahead(mRead, mWrite) \in Slot
    BY <2>1, AheadValue
  <2>5. /\ Len(src) \in Nat /\ src' = src
        /\ rlen' = 0 /\ rpc' = "idle"
    BY DEF IInv, TypeOK, ClearStore, wvars
  <2>6. ReadSpace + Len(src) <= Size - 1
    BY DEF IInv, StaleSpaceIsSafe
  <2>7. ReadSpace' \in 0 .. Ahead(mRead, mWrite)
    BY <2>1, <2>2, <2>3, <2>4, SizeAssumption DEF Slot
  <2>8. (ReadSpace + Len(src))' <= Size - 1
    BY <2>4, <2>5, <2>6, <2>7, SizeAssumption DEF Slot, ReadSpace
  <2>9. rlen' <= ReadSpace'
    BY <2>4, <2>5, <2>7, SizeAssumption DEF Slot
  <2> QED BY <2>5, <2>8, <2>9 DEF StaleSpaceIsSafe
<1> QED BY <1>1, <1>2 DEF IInv

LEMMA NextIInv == IInv /\ [Next]_vars => IInv'
<1> SUFFICES ASSUME IInv, [Next]_vars PROVE IInv'
  OBVIOUS
<1>1. CASE Writer
  BY <1>1, WriteCallIInv, StoreByteIInv, WritePublishIInv DEF Writer
<1>2. CASE Reader
  BY <1>2, ReadCallIInv, LoadByteIInv, ReadReturnIInv, ClearCallIInv,
     ClearStoreIInv DEF Reader
<1>3. CASE UNCHANGED vars
  BY <1>3 DEF IInv, TypeOK, StaleSpaceIsSafe, vars, wvars, rvars, Slot,
              ReadSpace, Ahead, Wrap
<1> QED BY <1>1, <1>2, <1>3 DEF Next

LEMMA SpecIInv == Spec => []IInv
BY InitIInv, NextIInv, PTL DEF Spec

-----------------------------------------------------------------------------
(* Results *)

\* For every ring and request size the indices stay inside the array.
THEOREM TypeCorrect == Spec => []TypeOK
<1>1. IInv => TypeOK
  BY DEF IInv
<1> QED BY <1>1, SpecIInv, PTL

\* A space computed from a stale index never promises too much, whatever the
\* sizes and however the two threads interleave.
THEOREM StaleSpaceSafe == Spec => []StaleSpaceIsSafe
<1>1. IInv => StaleSpaceIsSafe
  BY DEF IInv
<1> QED BY <1>1, SpecIInv, PTL

\* The copies of a concurrent write() and read() touch disjoint slots.
THEOREM CopiesNeverOverlap == Spec => []NoOverlap
<1>1. IInv => NoOverlap
  <2> SUFFICES ASSUME IInv, NEW k \in wleft, NEW j \in 1 .. rlen
               PROVE  Wrap(mWrite + k - 1) # Wrap(mRead + j - 1)
    BY DEF NoOverlap, StoringSlots, ReadingSlots
  <2>1. /\ mRead \in Slot /\ mWrite \in Slot
        /\ k \in 1 .. Len(src) /\ Len(src) \in Nat /\ rlen \in Slot
    BY DEF IInv, TypeOK
  <2>2. /\ ReadSpace \in Slot
        /\ ReadSpace + Len(src) <= Size - 1
        /\ rlen <= ReadSpace
    BY <2>1, SpacesShareTheRing DEF IInv, StaleSpaceIsSafe
  <2>3. j \in 1 .. ReadSpace /\ k \in Nat \ {0} /\ ReadSpace + k <= Size - 1
    BY <2>1, <2>2, SizeAssumption DEF Slot
  <2> QED BY <2>1, <2>3, FilledAndFreeSlots
<1> QED BY <1>1, SpecIInv, PTL

-----------------------------------------------------------------------------
(* The ring implements the bounded queue *)

\* What memcpy has done so far: the bytes of the request that are no longer
\* pending are in the ring, those that were loaded are still in the ring, and
\* a call that found no room or no bytes is over.
CopiedSoFar ==
  /\ \A k \in (1 .. Len(src)) \ wleft : data[Wrap(mWrite + k - 1)] = src[k]
  /\ \A k \in DOMAIN buf : buf[k] = data[Wrap(mRead + k - 1)]
  /\ (wpc = "copy") => (src # <<>>)
  /\ (rpc \in {"read", "peek"}) => (rlen # 0)

\* Counting on from an index that has been advanced
LEMMA WrapOffset ==
  ASSUME NEW s \in Slot, NEW n \in Nat, NEW i \in Nat \ {0}, n + i <= Size
  PROVE  Wrap(Wrap(s + n) + i - 1) = Wrap(s + (n + i) - 1)
<1> DEFINE a == s + n
           b == s + (n + i) - 1
           c == Wrap(a) + i - 1
<1>1. a \in 0 .. 2 * Size - 1 /\ b \in 0 .. 2 * Size - 1 /\ b = a + i - 1
  BY SizeAssumption DEF Slot
<1>2. Wrap(a) \in Nat /\ Wrap(a) = IF a < Size THEN a ELSE a - Size
  BY <1>1, WrapValue, SizeAssumption
<1>3. c \in 0 .. 2 * Size - 1
  BY <1>1, <1>2, SizeAssumption DEF Slot
<1> HIDE DEF a, b, c
<1>4. /\ Wrap(b) = IF b < Size THEN b ELSE b - Size
      /\ Wrap(c) = IF c < Size THEN c ELSE c - Size
  BY <1>1, <1>3, WrapValue
<1>5. Wrap(c) = Wrap(b)
  BY <1>1, <1>2, <1>4, SizeAssumption DEF c, b, a, Slot
<1> QED BY <1>5 DEF c, b, a

\* mWrite is where the published bytes end.
LEMMA WriteIsEnd ==
  ASSUME mRead \in Slot, mWrite \in Slot
  PROVE  Wrap(mRead + ReadSpace) = mWrite
<1>1. /\ ReadSpace = IF mRead <= mWrite THEN mWrite - mRead
                                        ELSE Size + mWrite - mRead
      /\ ReadSpace \in Slot
  BY AheadValue DEF ReadSpace
<1>2. mRead + ReadSpace \in 0 .. 2 * Size - 1
  BY <1>1, SizeAssumption DEF Slot
<1> QED BY <1>1, <1>2, WrapValue, SizeAssumption DEF Slot

\* The published bytes are a sequence of bytes as long as the space to read.
ContentsAreBytes ==
  /\ ReadSpace \in Nat /\ ReadSpace <= Size - 1
  /\ Contents \in Seq(Byte)
  /\ Len(Contents) = ReadSpace
  /\ \A i \in 1 .. ReadSpace : Contents[i] = data[Wrap(mRead + i - 1)]

LEMMA ContentsProperties == TypeOK => ContentsAreBytes
<1> SUFFICES ASSUME TypeOK PROVE ContentsAreBytes
  OBVIOUS
<1>1. ReadSpace \in Nat /\ ReadSpace <= Size - 1
  BY SpacesShareTheRing, SizeAssumption DEF TypeOK, Slot
<1>2. \A i \in 1 .. ReadSpace : data[Wrap(mRead + i - 1)] \in Byte
  <2> TAKE i \in 1 .. ReadSpace
  <2>1. i \in 1 .. Size /\ mRead \in Slot
    BY <1>1, SizeAssumption DEF TypeOK
  <2>2. Wrap(mRead + i - 1) \in Slot
    BY <2>1, SlotValue
  <2> QED BY <2>2 DEF TypeOK
<1>3. Contents \in [1 .. ReadSpace -> Byte]
  BY <1>2 DEF Contents
<1> QED BY <1>1, <1>3 DEF Contents, ContentsAreBytes

\* The invariant of the refinement
RInv == IInv /\ CopiedSoFar

LEMMA InitRefines == Init => RInv /\ Fifo!Init
<1> SUFFICES ASSUME Init PROVE RInv /\ Fifo!Init
  OBVIOUS
<1>1. IInv
  BY InitIInv
<1>2. ReadSpace = 0
  BY AheadValue, SizeAssumption DEF Init, ReadSpace, Slot
<1>3. Contents = <<>>
  BY <1>1, <1>2, ContentsProperties DEF IInv, ContentsAreBytes
<1>4. CopiedSoFar
  BY DEF Init, CopiedSoFar
<1> QED BY <1>1, <1>3, <1>4 DEF RInv, Init, Fifo!Init

\* write() offers the bytes it has room for.
LEMMA WriteCallRefines ==
  ASSUME RInv, NEW n \in 1 .. MaxReq, NEW bytes \in [1 .. n -> Byte],
         WriteCall(bytes)
  PROVE  CopiedSoFar' /\ Fifo!Offer
<1> DEFINE len == Clamp(Len(bytes), WriteSpace)
<1>1. bytes \in Seq(Byte) /\ Len(bytes) = n
  BY MaxReqAssumption
<1>2. /\ WriteSpace \in Slot /\ ReadSpace \in Slot
      /\ WriteSpace + ReadSpace = Size - 1
  BY SpacesShareTheRing DEF RInv, IInv, TypeOK
<1>3. len \in 1 .. n /\ len <= WriteSpace
  BY <1>1, <1>2, MaxReqAssumption, SizeAssumption DEF Clamp, Slot, WriteCall
<1>4. /\ src' = SubSeq(bytes, 1, len)
      /\ wleft' = 1 .. len
      /\ src = <<>>
      /\ UNCHANGED <<data, mRead, mWrite, rpc, rlen, buf, got>>
  BY DEF WriteCall, rvars, RInv, IInv, TypeOK
<1> HIDE DEF len
<1>5. src' \in [1 .. len -> Byte] /\ Len(src') = len
  <2>1. src' \in Seq(Byte) /\ Len(src') = len
    BY <1>1, <1>3, <1>4
  <2> QED BY <2>1, LenProperties
<1>6. Contents' = Contents
  BY <1>4 DEF Contents, ReadSpace, Ahead, Wrap
<1>7. Len(Contents) = ReadSpace
  BY ContentsProperties DEF RInv, IInv, ContentsAreBytes
<1>8. CopiedSoFar'
  BY <1>3, <1>4, <1>5 DEF RInv, CopiedSoFar, Wrap
<1>9. len \in 1 .. (Size - 1 - Len(Contents))
  BY <1>2, <1>3, <1>7, SizeAssumption DEF Slot
<1> QED BY <1>4, <1>5, <1>6, <1>8, <1>9 DEF Fifo!Offer

\* A byte that write() stores is not among those that are published, nor
\* among those that a read() is loading.
LEMMA StoreByteRefines ==
  ASSUME RInv, NEW k \in wleft, StoreByte(k)
  PROVE  CopiedSoFar' /\ UNCHANGED Fifo!vars
<1>1. /\ mRead \in Slot /\ mWrite \in Slot /\ data \in [Slot -> Byte]
      /\ k \in 1 .. Len(src) /\ Len(src) \in Nat /\ wleft \subseteq 1 .. Len(src)
      /\ ReadSpace \in Slot /\ ReadSpace + Len(src) <= Size - 1
      /\ rlen \in Slot /\ rlen <= ReadSpace /\ DOMAIN buf \subseteq 1 .. rlen
  BY SpacesShareTheRing DEF RInv, IInv, TypeOK, StaleSpaceIsSafe
<1>2. /\ data' = [data EXCEPT ![Wrap(mWrite + k - 1)] = src[k]]
      /\ wleft' = wleft \ {k}
      /\ UNCHANGED <<mRead, mWrite, wpc, src, rpc, rlen, buf, rnew, got>>
  BY DEF StoreByte, rvars
<1>3. \A i \in 1 .. ReadSpace :
        data'[Wrap(mRead + i - 1)] = data[Wrap(mRead + i - 1)]
  <2> TAKE i \in 1 .. ReadSpace
  <2>1. ReadSpace + k <= Size - 1 /\ k \in Nat \ {0} /\ i \in 1 .. Size
    BY <1>1, SizeAssumption DEF Slot
  <2>2. Wrap(mWrite + k - 1) # Wrap(mRead + i - 1)
    BY <1>1, <2>1, FilledAndFreeSlots
  <2>3. Wrap(mRead + i - 1) \in Slot
    BY <1>1, <2>1, SlotValue
  <2> QED BY <1>1, <1>2, <2>2, <2>3
<1>4. ReadSpace' = ReadSpace
  BY <1>2 DEF ReadSpace, Ahead, Wrap
<1>5. Contents' = Contents
  BY <1>2, <1>3, <1>4 DEF Contents, Wrap
<1>6. \A j \in (1 .. Len(src)) \ wleft' : data'[Wrap(mWrite + j - 1)] = src[j]
  <2> TAKE j \in (1 .. Len(src)) \ wleft'
  <2>1. j \in 1 .. Size /\ k \in 1 .. Size /\ j <= Size - 1 /\ k <= Size - 1
    BY <1>1, SizeAssumption DEF Slot
  <2>2. Wrap(mWrite + j - 1) \in Slot /\ Wrap(mWrite + k - 1) \in Slot
    BY <1>1, <2>1, SlotValue
  <2>3. CASE j = k
    BY <1>1, <1>2, <2>2, <2>3
  <2>4. CASE j # k
    <3>1. data[Wrap(mWrite + j - 1)] = src[j]
      BY <1>2, <2>4 DEF RInv, CopiedSoFar
    <3>2. /\ Wrap(mWrite + j - 1) = IF mWrite + j <= Size
                                    THEN mWrite + j - 1 ELSE mWrite + j - 1 - Size
          /\ Wrap(mWrite + k - 1) = IF mWrite + k <= Size
                                    THEN mWrite + k - 1 ELSE mWrite + k - 1 - Size
      BY <1>1, <2>1, SlotValue
    <3>3. Wrap(mWrite + j - 1) # Wrap(mWrite + k - 1)
      BY <1>1, <2>1, <2>4, <3>2, SizeAssumption DEF Slot
    <3> QED BY <1>1, <1>2, <2>2, <3>1, <3>3
  <2> QED BY <2>3, <2>4
<1>7. \A j \in DOMAIN buf : buf[j] = data'[Wrap(mRead + j - 1)]
  <2> TAKE j \in DOMAIN buf
  <2>1. j \in 1 .. ReadSpace
    BY <1>1, SizeAssumption DEF Slot
  <2> QED BY <1>3, <2>1 DEF RInv, CopiedSoFar
<1>8. CopiedSoFar'
  BY <1>2, <1>6, <1>7 DEF RInv, CopiedSoFar, Wrap
<1> QED BY <1>2, <1>5, <1>8 DEF Fifo!vars

\* The index store makes all the bytes of a write() enter together.
LEMMA WritePublishRefines ==
  ASSUME RInv, IInv', WritePublish
  PROVE  CopiedSoFar' /\ Fifo!Put
<1>1. /\ mRead \in Slot /\ mWrite \in Slot
      /\ src \in Seq(Byte) /\ Len(src) \in Nat /\ src # <<>>
      /\ Ahead(mRead, mWrite) + Len(src) < Size
  <2>1. ReadSpace \in Slot
    BY SpacesShareTheRing DEF RInv, IInv, TypeOK
  <2> QED
    BY <2>1, SizeAssumption
       DEF RInv, IInv, TypeOK, StaleSpaceIsSafe, CopiedSoFar, WritePublish,
           ReadSpace, Slot
<1>2. /\ mWrite' = Wrap(mWrite + Len(src))
      /\ src' = <<>>
      /\ UNCHANGED <<data, mRead, wleft, rpc, rlen, buf, rnew, got>>
  BY DEF WritePublish, rvars
<1>3. ReadSpace' = ReadSpace + Len(src)
  BY <1>1, <1>2, AdvanceEnd DEF ReadSpace
<1>4. ContentsAreBytes /\ ContentsAreBytes'
  <2>1. TypeOK /\ TypeOK'
    BY DEF RInv, IInv
  <2> QED BY <2>1, ContentsProperties, PTL
<1>5. Contents' = Contents \o src
  <2>1. /\ Contents \o src \in Seq(Byte)
        /\ Len(Contents \o src) = ReadSpace + Len(src)
        /\ \A i \in 1 .. ReadSpace + Len(src) : (Contents \o src)[i] =
             IF i <= ReadSpace THEN Contents[i] ELSE src[i - ReadSpace]
    BY <1>1, <1>4, ConcatProperties DEF ContentsAreBytes
  <2>2. ASSUME NEW i \in 1 .. ReadSpace + Len(src)
        PROVE  Contents'[i] = (Contents \o src)[i]
    <3>1. Contents'[i] = data[Wrap(mRead + i - 1)]
      BY <1>2, <1>3, <1>4 DEF ContentsAreBytes, Wrap
    <3>2. CASE i <= ReadSpace
      BY <1>4, <2>1, <3>1, <3>2 DEF ContentsAreBytes
    <3>3. CASE ~(i <= ReadSpace)
      <4> DEFINE k == i - ReadSpace
      <4>1. k \in 1 .. Len(src) /\ k \in Nat \ {0} /\ ReadSpace + k = i
        BY <1>1, <1>4, <3>3 DEF ContentsAreBytes
      <4>2. data[Wrap(mWrite + k - 1)] = src[k]
        BY <4>1 DEF RInv, CopiedSoFar, WritePublish
      <4>3. ReadSpace + k <= Size
        BY <1>1, <1>4, <4>1, SizeAssumption DEF ContentsAreBytes, ReadSpace
      <4>4. Wrap(Wrap(mRead + ReadSpace) + k - 1) = Wrap(mRead + (ReadSpace + k) - 1)
        BY <1>1, <1>4, <4>1, <4>3, WrapOffset DEF ContentsAreBytes
      <4>5. Wrap(mRead + ReadSpace) = mWrite
        BY <1>1, WriteIsEnd
      <4>6. Wrap(mWrite + k - 1) = Wrap(mRead + i - 1)
        BY <4>1, <4>4, <4>5
      <4> QED BY <2>1, <3>1, <3>3, <4>2, <4>6
    <3> QED BY <3>2, <3>3
  <2> QED BY <1>3, <1>4, <2>1, <2>2, SeqEqual DEF ContentsAreBytes
<1>6. CopiedSoFar'
  BY <1>2 DEF RInv, CopiedSoFar, WritePublish, Wrap
<1> QED BY <1>1, <1>2, <1>5, <1>6 DEF Fifo!Put

LEMMA ReadCallRefines ==
  ASSUME RInv, NEW op \in {"read", "peek"}, NEW sz \in 1 .. MaxReq,
         ReadCall(op, sz)
  PROVE  CopiedSoFar' /\ UNCHANGED Fifo!vars
<1>1. DOMAIN buf = {} /\ rlen' # 0
      /\ UNCHANGED <<data, mRead, mWrite, wpc, src, wleft, buf, got>>
  BY DEF RInv, IInv, TypeOK, ReadCall, wvars
<1> QED
  BY <1>1 DEF RInv, CopiedSoFar, Fifo!vars, Contents, ReadSpace, Ahead, Wrap

\* A byte is loaded as it was written.
LEMMA LoadByteRefines ==
  ASSUME RInv, NEW k \in 1 .. rlen, LoadByte(k)
  PROVE  CopiedSoFar' /\ UNCHANGED Fifo!vars
<1>1. /\ DOMAIN buf' = DOMAIN buf \cup {k}
      /\ \A j \in DOMAIN buf' : buf'[j] = IF j = k THEN data[Wrap(mRead + k - 1)]
                                                  ELSE buf[j]
      /\ UNCHANGED <<data, mRead, mWrite, wpc, src, wleft, rpc, rlen, got>>
  BY DEF LoadByte, wvars
<1>2. \A j \in DOMAIN buf' : buf'[j] = data[Wrap(mRead + j - 1)]
  BY <1>1 DEF RInv, CopiedSoFar
<1> QED
  BY <1>1, <1>2 DEF RInv, CopiedSoFar, Fifo!vars, Contents, ReadSpace, Ahead, Wrap

\* What remains published when the reader's index has moved on by n
LEMMA ContentsAfter ==
  ASSUME TypeOK, TypeOK', NEW n \in Nat, n <= ReadSpace,
         mRead' = Wrap(mRead + n), UNCHANGED <<data, mWrite>>
  PROVE  Contents' = SubSeq(Contents, n + 1, Len(Contents))
<1>1. ContentsAreBytes /\ ContentsAreBytes'
  BY ContentsProperties, PTL
<1>2. ReadSpace' = ReadSpace - n
  <2>1. mRead \in Slot /\ mWrite \in Slot /\ n <= Ahead(mRead, mWrite)
    BY DEF TypeOK, ReadSpace
  <2>2. Ahead(Wrap(mRead + n), mWrite) = ReadSpace - n
    BY <2>1, AdvanceStart DEF ReadSpace
  <2> QED BY <2>2 DEF ReadSpace, Ahead, Wrap
<1> DEFINE rest == SubSeq(Contents, n + 1, Len(Contents))
<1>3. /\ rest \in Seq(Byte)
      /\ Len(rest) = ReadSpace - n
      /\ \A i \in 1 .. ReadSpace - n : rest[i] = Contents[n + i]
  <2>1. \A i \in n + 1 .. Len(Contents) : Contents[i] \in Byte
    BY <1>1, ElementOfSeq DEF ContentsAreBytes
  <2> QED BY <1>1, <2>1, SubSeqProperties DEF ContentsAreBytes
<1>4. ASSUME NEW i \in 1 .. ReadSpace - n
      PROVE  Contents'[i] = rest[i]
  <2>1. Contents'[i] = data[Wrap(mRead' + i - 1)]
    BY <1>1, <1>2 DEF ContentsAreBytes, Wrap
  <2>2. n + i \in 1 .. ReadSpace /\ n + i <= Size /\ i \in Nat \ {0}
    BY <1>1, SizeAssumption DEF ContentsAreBytes
  <2>3. Wrap(mRead' + i - 1) = Wrap(mRead + (n + i) - 1)
    BY <2>2, WrapOffset DEF TypeOK
  <2>4. Contents[n + i] = data[Wrap(mRead + (n + i) - 1)]
    BY <1>1, <2>2 DEF ContentsAreBytes
  <2> QED BY <1>3, <2>1, <2>3, <2>4
<1> HIDE DEF rest
<1>5. Contents' = rest
  BY <1>1, <1>2, <1>3, <1>4, SeqEqual DEF ContentsAreBytes
<1> QED BY <1>5 DEF rest

\* read() returns the oldest bytes and removes them, peek() leaves them.
LEMMA ReadReturnRefines ==
  ASSUME RInv, IInv', ReadReturn
  PROVE  CopiedSoFar' /\ (Fifo!Get \/ Fifo!Peek)
<1>1. /\ got' = buf /\ rlen' = 0 /\ buf' = <<>> /\ rpc' = "idle"
      /\ DOMAIN buf = 1 .. rlen
      /\ UNCHANGED <<data, mWrite, wpc, src, wleft>>
  BY DEF ReadReturn, wvars
<1>2. TypeOK /\ TypeOK' /\ ContentsAreBytes
  BY ContentsProperties DEF RInv, IInv
<1>3. rlen \in 1 .. ReadSpace
  BY <1>2, SizeAssumption
     DEF RInv, IInv, TypeOK, StaleSpaceIsSafe, CopiedSoFar, ReadReturn, Slot,
         ContentsAreBytes
<1>4. got' = SubSeq(Contents, 1, rlen)
  <2>1. \A i \in 1 .. rlen : Contents[i] \in Byte
    BY <1>2, <1>3, ElementOfSeq DEF ContentsAreBytes
  <2>2. /\ SubSeq(Contents, 1, rlen) \in Seq(Byte)
        /\ Len(SubSeq(Contents, 1, rlen)) = rlen
        /\ \A i \in 1 .. rlen : SubSeq(Contents, 1, rlen)[i] = Contents[i]
    BY <1>2, <1>3, <2>1, SubSeqProperties DEF ContentsAreBytes
  <2>3. buf \in Seq(Byte) /\ Len(buf) = rlen
    BY <1>1, <1>2, <1>3 DEF TypeOK, ContentsAreBytes
  <2>4. \A i \in 1 .. rlen : buf[i] = Contents[i]
    BY <1>1, <1>2, <1>3 DEF RInv, CopiedSoFar, ContentsAreBytes
  <2>5. buf = SubSeq(Contents, 1, rlen)
    BY <2>2, <2>3, <2>4, SeqEqual
  <2> QED BY <1>1, <2>5
<1>5. CopiedSoFar'
  BY <1>1 DEF RInv, CopiedSoFar, Wrap
<1>6. CASE rpc = "read"
  <2>1. mRead' = Wrap(mRead + rlen) /\ rlen \in Nat /\ rlen <= ReadSpace
    BY <1>2, <1>3, <1>6 DEF ReadReturn, ContentsAreBytes
  <2>2. Contents' = SubSeq(Contents, rlen + 1, Len(Contents))
    BY <1>1, <1>2, <2>1, ContentsAfter
  <2>3. Fifo!Get
    BY <1>1, <1>2, <1>3, <1>4, <2>2 DEF Fifo!Get, ContentsAreBytes
  <2> QED BY <1>5, <2>3
<1>7. CASE rpc # "read"
  <2>1. mRead' = mRead
    BY <1>7 DEF ReadReturn
  <2>2. Contents' = Contents
    BY <1>1, <2>1 DEF Contents, ReadSpace, Ahead, Wrap
  <2>3. Fifo!Peek
    BY <1>1, <1>2, <1>3, <1>4, <2>2 DEF Fifo!Peek, ContentsAreBytes
  <2> QED BY <1>5, <2>3
<1> QED BY <1>6, <1>7

LEMMA ClearCallRefines ==
  ASSUME RInv, ClearCall
  PROVE  CopiedSoFar' /\ UNCHANGED Fifo!vars
BY DEF RInv, CopiedSoFar, ClearCall, wvars, Fifo!vars, Contents, ReadSpace,
       Ahead, Wrap

\* clear() drops the bytes that were published when it looked, not those that
\* have been written since.
LEMMA ClearStoreRefines ==
  ASSUME RInv, IInv', ClearStore
  PROVE  CopiedSoFar' /\ (Fifo!Drop \/ UNCHANGED Fifo!vars)
<1> DEFINE n == Ahead(mRead, rnew)
<1>1. /\ mRead' = rnew /\ rpc' = "idle"
      /\ UNCHANGED <<data, mWrite, wpc, src, wleft, rlen, buf, got>>
  BY DEF ClearStore, wvars
<1>2. TypeOK /\ TypeOK' /\ ContentsAreBytes
  BY ContentsProperties DEF RInv, IInv
<1>3. n \in Slot /\ n <= ReadSpace /\ n \in Nat
  <2>1. n \in Slot
    BY <1>2, AheadValue DEF TypeOK
  <2> QED
    BY <2>1, SizeAssumption DEF RInv, IInv, StaleSpaceIsSafe, ClearStore, Slot
<1>4. Wrap(mRead + n) = rnew
  <2>1. mRead \in Slot /\ rnew \in Slot
    BY <1>2 DEF TypeOK
  <2>2. n = IF mRead <= rnew THEN rnew - mRead ELSE Size + rnew - mRead
    BY <2>1, AheadValue
  <2>3. mRead + n \in 0 .. 2 * Size - 1
    BY <1>3, <2>1, SizeAssumption DEF Slot
  <2> QED BY <2>1, <2>2, <2>3, WrapValue, SizeAssumption DEF Slot
<1> HIDE DEF n
<1>5. Contents' = SubSeq(Contents, n + 1, Len(Contents))
  BY <1>1, <1>2, <1>3, <1>4, ContentsAfter
<1>6. CopiedSoFar'
  <2>1. DOMAIN buf \subseteq 1 .. 0
    BY <1>2 DEF TypeOK, ClearStore
  <2>2. \A j \in DOMAIN buf : FALSE
    BY <2>1
  <2> QED BY <1>1, <2>2 DEF RInv, CopiedSoFar, Wrap
<1>7. CASE n = 0
  <2>1. Contents' = Contents
    BY <1>2, <1>5, <1>7, SubSeqFull DEF ContentsAreBytes
  <2> QED BY <1>1, <1>6, <2>1 DEF Fifo!vars
<1>8. CASE n # 0
  <2>1. n \in 1 .. Len(Contents)
    BY <1>2, <1>3, <1>8 DEF ContentsAreBytes
  <2>2. Fifo!Drop
    BY <1>1, <1>5, <2>1 DEF Fifo!Drop
  <2> QED BY <1>6, <2>2
<1> QED BY <1>7, <1>8

LEMMA StepRefines ==
  ASSUME RInv, [Next]_vars
  PROVE  RInv' /\ [Fifo!Next]_(Fifo!vars)
<1>1. IInv /\ IInv'
  BY NextIInv DEF RInv
<1>2. CASE Writer
  <2>1. CopiedSoFar' /\ (Fifo!Offer \/ Fifo!Put \/ UNCHANGED Fifo!vars)
    BY <1>1, <1>2, WriteCallRefines, StoreByteRefines, WritePublishRefines
       DEF Writer
  <2> QED BY <1>1, <2>1 DEF RInv, Fifo!Next
<1>3. CASE Reader
  <2>1. /\ CopiedSoFar'
        /\ Fifo!Get \/ Fifo!Peek \/ Fifo!Drop \/ UNCHANGED Fifo!vars
    BY <1>1, <1>3, ReadCallRefines, LoadByteRefines, ReadReturnRefines,
       ClearCallRefines, ClearStoreRefines DEF Reader
  <2> QED BY <1>1, <2>1 DEF RInv, Fifo!Next
<1>4. CASE UNCHANGED vars
  <2>1. CopiedSoFar' /\ UNCHANGED Fifo!vars
    BY <1>4 DEF RInv, CopiedSoFar, vars, wvars, rvars, Fifo!vars, Contents,
                ReadSpace, Ahead, Wrap
  <2> QED BY <1>1, <2>1 DEF RInv
<1> QED BY <1>2, <1>3, <1>4 DEF Next

\* For every ring, byte type and request size the two threads see an atomic
\* queue of Size - 1 bytes: what read() and peek() return are the oldest bytes
\* that write() put in, in their order, whole and unaltered.
THEOREM RingIsFifo == Spec => ImplementsFifo
<1>1. Init => RInv /\ Fifo!Init
  BY InitRefines
<1>2. RInv /\ [Next]_vars => RInv' /\ [Fifo!Next]_(Fifo!vars)
  BY StepRefines
<1> QED BY <1>1, <1>2, PTL DEF Spec, ImplementsFifo, Fifo!Spec

-------------------------------------------------------------------------------
(***************************************************************************)
(* The reader of a sound file, for files, rings and requests of any size.  *)
(* RingFrames comes from a recursive function, of which nothing can be     *)
(* proved here: the theorems assume that it is a number.                   *)
(***************************************************************************)

Types ==
  /\ fill \in Nat /\ framesToRead \in Nat /\ framesRead \in Nat
  /\ position \in 0..Frames
  /\ mSeek \in -1..Frames - 1 /\ seek \in -1..Frames - 1
  /\ tpc = "seek" => seek >= 0
  /\ lastFrame \in 0..Frames - 1 \/ lastFrame = None

HasChunk == tpc \in {"load", "seek", "more", "rewind", "write"}

\* Between chunks nothing waits in the file buffer; in a chunk the ring, which
\* the audio thread only empties, has room for all that was asked for.
ChunkHasRoom ==
  /\ ~HasChunk => framesRead = 0
  /\ HasChunk => framesRead <= framesToRead /\ fill + framesToRead <= RingFrames
  /\ fill <= RingFrames

\* Unless a seek was carried out, a chunk that is short has met the end of the
\* file, and the file is where the last frame left it, or rewound.
FileFollows ==
  ~sought =>
    /\ tpc = "rewind" \/ (tpc \in {"load", "more"} /\ ~Complete) => position = Frames
    /\ lastFrame # None => \/ position = lastFrame + 1
                           \/ position = 0 /\ lastFrame = Frames - 1

ReaderInv == Types /\ ChunkHasRoom /\ FileFollows

-------------------------------------------------------------------------------
LEMMA InitReaderInv == ASSUME RingFrames \in Nat, ReaderInit PROVE ReaderInv
BY FileAssumption DEF ReaderInit, ReaderInv, Types, HasChunk, ChunkHasRoom, FileFollows, Complete

LEMMA ClipFits == ASSUME NEW frame \in Int PROVE Clip(frame) \in 0..Frames - 1
BY FileAssumption DEF Clip, Min2

LEMMA LessRoom ==
  ASSUME NEW a \in Nat, NEW b \in Nat, NEW c \in Nat, NEW r \in Nat, b <= a, a <= r
  PROVE  b <= r /\ (a + c <= r => b + c <= r)
OBVIOUS

\* The audio thread, the callers of seek() and the destructor.
LEMMA CallerStep ==
  ASSUME RingFrames \in Nat, ReaderInv,
         \/ \E n \in Requests : Read(n)
         \/ \E frame \in Positions : Seek(frame)
         \/ DestructorClear \/ DestructorNotify \/ DestructorJoin
         \/ SpuriousWake
  PROVE  ReaderInv'
<1>1. /\ UNCHANGED <<framesToRead, framesRead, seek, position, lastFrame, sought>>
      /\ tpc' = tpc \/ (tpc = "asleep" /\ tpc' = "awake")
  BY DEF Read, Seek, DestructorClear, DestructorNotify, DestructorJoin, SpuriousWake, Thread,
         Notify, locals, hvars
<1>2. fill' \in Nat /\ fill' <= fill
  <2>1. ASSUME NEW n \in Requests, Read(n) PROVE fill' \in Nat /\ fill' <= fill
    BY <2>1, RequestsAssumption DEF Read, Min2, ReaderInv, Types
  <2> QED BY <2>1 DEF Seek, DestructorClear, DestructorNotify, DestructorJoin, SpuriousWake,
                      ReaderInv, Types
<1>3. mSeek' \in -1..Frames - 1
  <2>1. ASSUME NEW frame \in Positions, Seek(frame) PROVE mSeek' \in -1..Frames - 1
    BY <2>1, ClipFits, RequestsAssumption, FileAssumption DEF Seek
  <2> QED BY <2>1 DEF Read, DestructorClear, DestructorNotify, DestructorJoin, SpuriousWake,
                      ReaderInv, Types
<1>4. Types'
  BY <1>1, <1>2, <1>3 DEF ReaderInv, Types
<1>5. ChunkHasRoom'
  <2>1. HasChunk' <=> HasChunk
    BY <1>1 DEF HasChunk
  <2>2. fill' <= RingFrames /\ (fill + framesToRead <= RingFrames
                                => fill' + framesToRead <= RingFrames)
    <3>1. fill \in Nat /\ framesToRead \in Nat
      BY DEF ReaderInv, Types
    <3>2. fill <= RingFrames
      BY DEF ReaderInv, ChunkHasRoom
    <3> QED BY <1>2, <3>1, <3>2, LessRoom
  <2> QED BY <1>1, <2>1, <2>2 DEF ReaderInv, ChunkHasRoom
<1>6. FileFollows'
  BY <1>1 DEF ReaderInv, FileFollows, Complete
<1> QED BY <1>4, <1>5, <1>6 DEF ReaderInv

\* What one read of the file does.
LEMMA FileReads ==
  ASSUME ReaderInv, NEW n \in Nat, FileRead(n)
  PROVE  /\ framesRead' \in Nat /\ framesRead' >= framesRead /\ framesRead' <= framesRead + n
         /\ position' \in 0..Frames
         /\ framesRead' < framesRead + n => position' = Frames
         /\ framesRead' > framesRead => position < Frames
         /\ IF framesRead' = framesRead
            THEN position' = position /\ lastFrame' = lastFrame
            ELSE lastFrame' \in 0..Frames - 1 /\ position' = lastFrame' + 1
<1> DEFINE read == Min2(n, Frames - position)
<1>1. /\ read \in Nat /\ read <= n /\ read <= Frames - position
      /\ read = n \/ read = Frames - position
  BY FileAssumption DEF Min2, ReaderInv, Types
<1>2. /\ framesRead' = framesRead + read /\ position' = position + read
      /\ lastFrame' = IF read > 0 THEN position + read - 1 ELSE lastFrame
  BY DEF FileRead
<1>3. /\ framesRead \in Nat /\ position \in 0..Frames /\ Frames \in Nat \ {0}
  BY FileAssumption DEF ReaderInv, Types
<1> HIDE DEF read
<1>4. CASE read = 0
  BY <1>1, <1>2, <1>3, <1>4
<1>5. CASE read > 0
  <2>1. lastFrame' = position + read - 1 /\ framesRead' > framesRead
    BY <1>1, <1>2, <1>3, <1>5
  <2>2. position < Frames /\ (framesRead' < framesRead + n => position' = Frames)
    BY <1>1, <1>2, <1>3, <1>5
  <2> QED BY <1>1, <1>2, <1>3, <1>5, <2>1, <2>2
<1> QED BY <1>1, <1>4, <1>5

LEMMA ReadChunkStep ==
  ASSUME RingFrames \in Nat, ReaderInv, ReadChunk
  PROVE  ReaderInv'
<1>1. /\ tpc = "awake" /\ tpc' = "load" /\ framesToRead' = RingFrames - fill
      /\ FileRead(RingFrames - fill) /\ sought' = (sought /\ framesRead' = 0)
      /\ UNCHANGED <<fill, mSeek, seek>>
  BY DEF ReadChunk, Thread
<1>2. framesRead = 0 /\ RingFrames - fill \in Nat
  BY <1>1 DEF ReaderInv, Types, ChunkHasRoom, HasChunk
<1>3. /\ framesRead' \in Nat /\ framesRead' >= framesRead
      /\ framesRead' <= framesRead + (RingFrames - fill)
      /\ position' \in 0..Frames
      /\ framesRead' < framesRead + (RingFrames - fill) => position' = Frames
      /\ IF framesRead' = framesRead
         THEN position' = position /\ lastFrame' = lastFrame
         ELSE lastFrame' \in 0..Frames - 1 /\ position' = lastFrame' + 1
  BY <1>1, <1>2, FileReads
<1>4. Types' /\ ChunkHasRoom'
  BY <1>1, <1>2, <1>3 DEF ReaderInv, Types, ChunkHasRoom, HasChunk
<1>5. FileFollows'
  <2> SUFFICES ASSUME ~sought' PROVE FileFollows'
    BY DEF FileFollows
  <2>1. ~sought \/ framesRead' # 0
    BY <1>1
  <2>2. ~Complete' => position' = Frames
    BY <1>1, <1>2, <1>3 DEF Complete, ReaderInv, Types
  <2>3. lastFrame' # None => \/ position' = lastFrame' + 1
                             \/ position' = 0 /\ lastFrame' = Frames - 1
    BY <1>2, <1>3, <2>1 DEF ReaderInv, FileFollows
  <2> QED BY <1>1, <2>2, <2>3 DEF FileFollows
<1> QED BY <1>4, <1>5 DEF ReaderInv

LEMMA ReadMoreStep ==
  ASSUME RingFrames \in Nat, ReaderInv, ReadMore
  PROVE  ReaderInv'
<1>1. /\ tpc = "more" /\ tpc' = "rewind" /\ ~Complete /\ FileRead(framesToRead - framesRead)
      /\ UNCHANGED <<fill, mSeek, framesToRead, seek, sought>>
  BY DEF ReadMore, Thread
<1>2. framesToRead - framesRead \in Nat
  BY <1>1 DEF ReaderInv, Types, ChunkHasRoom, HasChunk
<1>3. /\ framesRead' \in Nat /\ framesRead' >= framesRead
      /\ framesRead' <= framesRead + (framesToRead - framesRead)
      /\ position' \in 0..Frames
      /\ framesRead' > framesRead => position < Frames
      /\ IF framesRead' = framesRead
         THEN position' = position /\ lastFrame' = lastFrame
         ELSE lastFrame' \in 0..Frames - 1 /\ position' = lastFrame' + 1
  BY <1>1, <1>2, FileReads
<1>4. Types' /\ ChunkHasRoom'
  BY <1>1, <1>2, <1>3 DEF ReaderInv, Types, ChunkHasRoom, HasChunk
<1>5. FileFollows'
  <2> SUFFICES ASSUME ~sought' PROVE FileFollows'
    BY DEF FileFollows
  <2>1. position = Frames
    BY <1>1 DEF ReaderInv, FileFollows
  <2>2. position' = position /\ lastFrame' = lastFrame
    BY <1>3, <2>1 DEF ReaderInv, Types
  <2> QED BY <1>1, <2>1, <2>2 DEF ReaderInv, FileFollows
<1> QED BY <1>4, <1>5 DEF ReaderInv

LEMMA RewindStep ==
  ASSUME RingFrames \in Nat, ReaderInv, Rewind
  PROVE  ReaderInv'
<1>1. /\ tpc = "rewind" /\ tpc' = "write"
      /\ position' = IF mLoop THEN 0 ELSE position
      /\ UNCHANGED <<fill, mSeek, framesToRead, framesRead, seek, lastFrame, sought>>
  BY DEF Rewind, Thread, locals, hvars
<1>2. Types' /\ ChunkHasRoom'
  BY <1>1, FileAssumption DEF ReaderInv, Types, ChunkHasRoom, HasChunk
<1>3. FileFollows'
  BY <1>1, FileAssumption DEF ReaderInv, Types, FileFollows
<1> QED BY <1>2, <1>3 DEF ReaderInv

\* The steps of the reader that do not read the file.
LEMMA ReaderElse ==
  ASSUME RingFrames \in Nat, ReaderInv,
         Loop \/ Wait \/ LoadSeek \/ CarryOut \/ Enough \/ WriteRing
  PROVE  ReaderInv'
<1>1. CASE Loop \/ Wait
  BY <1>1 DEF Loop, Wait, Thread, locals, hvars, ReaderInv, Types, ChunkHasRoom, HasChunk,
              FileFollows, Complete
<1>2. CASE LoadSeek
  BY <1>2 DEF LoadSeek, Thread, hvars, ReaderInv, Types, ChunkHasRoom, HasChunk, FileFollows, Complete
<1>3. CASE CarryOut
  <2>1. /\ tpc = "seek" /\ tpc' = "more" /\ position' = seek /\ sought' = TRUE /\ mSeek' = -1
        /\ UNCHANGED <<fill, framesToRead, framesRead, seek, lastFrame>>
    BY <1>3 DEF CarryOut, Thread, locals
  <2>2. Types'
    BY <2>1, FileAssumption DEF ReaderInv, Types
  <2> QED BY <2>1, <2>2 DEF ReaderInv, ChunkHasRoom, HasChunk, FileFollows
<1>4. CASE Enough
  BY <1>4 DEF Enough, Thread, locals, hvars, ReaderInv, Types, ChunkHasRoom, HasChunk, FileFollows
<1>5. CASE WriteRing
  <2>1. /\ tpc = "write" /\ tpc' = "loop" /\ framesRead' = 0 /\ framesToRead' = 0 /\ seek' = -1
        /\ fill' = fill + Min2(framesRead, RingFrames - fill)
        /\ UNCHANGED <<mSeek, position, lastFrame, sought>>
    BY <1>5 DEF WriteRing, Thread, hvars
  <2>2. fill' \in Nat /\ fill' <= RingFrames
    BY <2>1 DEF Min2, ReaderInv, Types, ChunkHasRoom
  <2> QED BY <2>1, <2>2, FileAssumption DEF ReaderInv, Types, ChunkHasRoom, HasChunk, FileFollows
<1> QED BY <1>1, <1>2, <1>3, <1>4, <1>5

LEMMA NextReaderInv == ASSUME RingFrames \in Nat PROVE ReaderInv /\ [ReaderNext]_readerVars => ReaderInv'
<1> SUFFICES ASSUME ReaderInv, [ReaderNext]_readerVars PROVE ReaderInv'
  OBVIOUS
<1>1. CASE UNCHANGED readerVars
  BY <1>1 DEF readerVars, locals, hvars, ReaderInv, Types, ChunkHasRoom, HasChunk, FileFollows, Complete
<1>2. CASE ReaderNext
  BY <1>2, CallerStep, ReadChunkStep, ReadMoreStep, RewindStep, ReaderElse DEF ReaderNext, ReaderStep
<1> QED BY <1>1, <1>2

-------------------------------------------------------------------------------
\* What two reads of the file got fits the ring, although other threads move the
\* file meanwhile and the audio thread reads: write() is never short of space.
THEOREM ChunksFit == ASSUME RingFrames \in Nat PROVE ReaderSpec => []ChunkFits
<1>1. ReaderInit => ReaderInv
  BY InitReaderInv
<1>2. ReaderInv /\ [ReaderNext]_readerVars => ReaderInv'
  BY NextReaderInv
<1>3. ReaderInv => ChunkFits
  BY DEF ReaderInv, Types, ChunkHasRoom, HasChunk, ChunkFits
<1> QED BY <1>1, <1>2, <1>3, PTL DEF ReaderSpec

LEMMA SmallMod == ASSUME NEW n \in Nat \ {0}, NEW r \in 0..n - 1 PROVE r % n = r
BY SMT

LEMMA SelfMod == ASSUME NEW n \in Nat \ {0} PROVE n % n = 0
BY SMT

\* No chunk skips or repeats a frame, whatever the sizes, the chunk of a seek
\* excepted: a file that is short of a chunk is rewound only at its end.
THEOREM FramesAlwaysFollow == ASSUME RingFrames \in Nat PROVE ReaderSpec => FramesFollow
<1>1. ReaderInit => ReaderInv
  BY InitReaderInv
<1>2. ReaderInv /\ [ReaderNext]_readerVars => ReaderInv'
  BY NextReaderInv
<1>3. ReaderInv /\ [ReaderNext]_readerVars =>
        [\A first \in {position} :
           framesRead' > framesRead /\ lastFrame # None /\ ~sought
             => first = (lastFrame + 1) % Frames]_readerVars
  <2> SUFFICES ASSUME ReaderInv, ReaderNext, framesRead' > framesRead, lastFrame # None, ~sought
               PROVE  position = (lastFrame + 1) % Frames
    OBVIOUS
  <2>1. \E n \in Nat : FileRead(n)
    <3>1. ReadChunk \/ ReadMore
      BY DEF ReaderNext, ReaderStep, Read, Seek, DestructorClear, DestructorNotify, DestructorJoin,
             SpuriousWake, Loop, Wait, LoadSeek, CarryOut, Enough, Rewind, WriteRing, locals,
             hvars, ReaderInv, Types
    <3>2. RingFrames - fill \in Nat /\ (ReadMore => framesToRead - framesRead \in Nat)
      BY DEF ReadMore, Thread, ReaderInv, Types, ChunkHasRoom, HasChunk
    <3> QED BY <3>1, <3>2 DEF ReadChunk, ReadMore
  <2>2. position < Frames
    BY <2>1, FileReads
  <2>3. /\ Frames \in Nat \ {0} /\ position \in 0..Frames - 1 /\ lastFrame \in 0..Frames - 1
        /\ position = lastFrame + 1 \/ (position = 0 /\ lastFrame + 1 = Frames)
    BY <2>2, FileAssumption DEF ReaderInv, Types, FileFollows
  <2>4. CASE position = lastFrame + 1
    BY <2>3, <2>4, SmallMod
  <2>5. CASE position = 0 /\ lastFrame + 1 = Frames
    BY <2>3, <2>5, SelfMod
  <2> QED BY <2>3, <2>4, <2>5
<1> QED BY <1>1, <1>2, <1>3, PTL DEF ReaderSpec, FramesFollow
===============================================================================
