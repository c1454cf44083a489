-------------------------- MODULE RenderToDisk_proofs --------------------------
(***************************************************************************)
(* What holds of RenderToDisk for queues, pools and rings of any size, any *)
(* rate and recordings of any length: what the sound file thread reads     *)
(* from the ring, that the sound keeps pace with the images, and which     *)
(* images a recording leaves on disk.                                      *)
(***************************************************************************)
EXTENDS RenderToDisk, TLAPS

\* Division with remainder.
LEMMA DivMod ==
  ASSUME NEW a \in Int, NEW n \in Nat \ {0}
  PROVE  /\ a % n \in 0..n - 1 /\ a \div n \in Int
         /\ a = n * (a \div n) + (a % n)
OBVIOUS

LEMMA QuotientIsUnique ==
  ASSUME NEW n \in Nat \ {0}, NEW q \in Int, NEW r \in 0..n - 1, NEW p \in Int, NEW s \in 0..n - 1,
         n * q + r = n * p + s
  PROVE  q = p /\ r = s
<1>1. n * (q - p) = s - r
  OBVIOUS
<1>2. CASE q - p >= 1
  <2>1. n * (q - p) >= n
    BY <1>2
  <2> QED BY <1>1, <2>1
<1>3. CASE q - p <= -1
  <2>1. n * (q - p) <= -n
    BY <1>3
  <2> QED BY <1>1, <2>1
<1> QED BY <1>1, <1>2, <1>3

LEMMA ModByQuotient ==
  ASSUME NEW n \in Nat \ {0}, NEW q \in Int, NEW r \in 0..n - 1
  PROVE  (n * q + r) % n = r /\ (n * q + r) \div n = q
<1> DEFINE a == n * q + r
<1>1. a \in Int
  OBVIOUS
<1>2. a % n \in 0..n - 1 /\ a \div n \in Int /\ a = n * (a \div n) + (a % n)
  BY <1>1, DivMod
<1> HIDE DEF a
<1>3. a = n * q + r
  BY DEF a
<1>4. a \div n = q /\ a % n = r
  BY <1>2, <1>3, QuotientIsUnique
<1> QED BY <1>4 DEF a

LEMMA SmallMod ==
  ASSUME NEW n \in Nat \ {0}, NEW r \in 0..n - 1
  PROVE  r % n = r
<1> DEFINE q == r \div n
           s == r % n
<1>1. s \in 0..n - 1 /\ q \in Int /\ r = n * q + s
  BY DivMod
<1> HIDE DEF q, s
<1>2. 0 \in Int /\ n * 0 + r = n * q + s
  BY <1>1
<1>3. r = s
  BY <1>1, <1>2, QuotientIsUnique
<1> QED BY <1>3 DEF s

\* Slots of a ring of n are the same a round later, and differ within a round.
LEMMA SameSlot ==
  ASSUME NEW a \in Int, NEW n \in Nat \ {0}
  PROVE  (a + n) % n = (a % n)
<1>1. a + n = n * (a \div n + 1) + (a % n)
  BY DivMod
<1>2. a % n \in 0..n - 1 /\ a \div n + 1 \in Int
  BY DivMod
<1> QED BY <1>1, <1>2, ModByQuotient

LEMMA OtherSlot ==
  ASSUME NEW a \in Int, NEW b \in Int, NEW n \in Nat \ {0}, a < b, b < a + n
  PROVE  (a % n) # (b % n)
<1> SUFFICES ASSUME (a % n) = (b % n) PROVE FALSE
  OBVIOUS
<1> DEFINE k == b \div n - a \div n
<1>1. k \in Int
  BY DivMod
<1>2. b - a = n * k
  BY DivMod
<1> HIDE DEF k
<1>3. CASE k <= 0
  <2>1. n * k <= 0
    BY <1>1, <1>3
  <2> QED BY <1>2, <2>1
<1>4. CASE k >= 1
  <2>1. n * k >= n
    BY <1>1, <1>4
  <2> QED BY <1>2, <2>1
<1> QED BY <1>1, <1>3, <1>4

LEMMA NextSlot ==
  ASSUME NEW a \in Int, NEW n \in Nat \ {0}
  PROVE  ((a % n) + 1) % n = (a + 1) % n
<1> DEFINE q == a \div n
           r == a % n
<1>1. r \in 0..n - 1 /\ q \in Int /\ a = n * q + r
  BY DivMod
<1> HIDE DEF q, r
<1>2. CASE r + 1 < n
  <2>1. r + 1 \in 0..n - 1 /\ a + 1 = n * q + (r + 1) /\ r + 1 = n * 0 + (r + 1)
    BY <1>1, <1>2
  <2>2. (n * q + (r + 1)) % n = r + 1
    BY <1>1, <2>1, ModByQuotient
  <2>3. (n * 0 + (r + 1)) % n = r + 1
    BY <2>1, ModByQuotient
  <2> QED BY <2>1, <2>2, <2>3 DEF r
<1>3. CASE r + 1 = n
  <2>1. 0 \in 0..n - 1 /\ q + 1 \in Int /\ a + 1 = n * (q + 1) + 0 /\ n = n * 1 + 0
    BY <1>1, <1>3
  <2>2. (n * (q + 1) + 0) % n = 0
    BY <2>1, ModByQuotient
  <2>3. (n * 1 + 0) % n = 0
    BY <2>1, ModByQuotient
  <2> QED BY <1>3, <2>1, <2>2, <2>3 DEF r
<1> QED BY <1>1, <1>2, <1>3

-------------------------------------------------------------------------------
(***************************************************************************)
(* The audio ring.                                                         *)
(***************************************************************************)
RingTypes ==
  /\ apc \in {"idle", "copy"}
  /\ mWriteBlock \in Nat /\ mReadBlock \in Nat
  /\ first \in Nat /\ begun \in Nat /\ stale \in Nat

ReadBehindWrite ==
  /\ mReadBlock <= mWriteBlock /\ first <= mWriteBlock
  /\ spc = "copy" => mReadBlock < mWriteBlock

\* The blocks of an earlier recording, those that are still to be read included.
StaleInAll ==
  stale > 0 \/ spc = "copy" => stale <= NumBlocks /\ stale + (first - mReadBlock) <= NumBlocks

\* Until a block is begun, the block to write is not the one that is read.
ReadSlotIsSafe ==
  spc = "copy" /\ ~underrun =>
    /\ begun = 0 => apc = "idle" /\ mWriteBlock - mReadBlock < NumBlocks
    /\ begun <= 1 => ~torn

RingInv == RingTypes /\ ReadBehindWrite /\ StaleInAll /\ ReadSlotIsSafe

LEMMA InitRingInv == Init => RingInv
BY RingAssumption DEF Init, RingInv, RingTypes, ReadBehindWrite, StaleInAll, ReadSlotIsSafe

\* A block is begun by the device or by the drawing thread.
LEMMA BlockBeginRing ==
  ASSUME RingInv, BlockBegin, first' = first
  PROVE  RingInv'
<1>1. /\ apc = "idle" /\ apc' = "copy" /\ UNCHANGED <<mWriteBlock, mReadBlock, spc, underrun, stale>>
      /\ begun' = IF spc = "copy" THEN begun + 1 ELSE begun
  BY DEF BlockBegin, ring
<1>2. ReadSlotIsSafe'
  <2> SUFFICES ASSUME spc = "copy", ~underrun, begun' <= 1 PROVE begun' # 0 /\ ~torn'
    BY <1>1 DEF ReadSlotIsSafe
  <2>1. begun = 0 /\ begun' = 1
    BY <1>1 DEF RingInv, RingTypes
  <2>2. ~torn /\ mReadBlock < mWriteBlock /\ mWriteBlock < mReadBlock + NumBlocks
    BY <2>1, RingAssumption DEF RingInv, RingTypes, ReadBehindWrite, ReadSlotIsSafe
  <2>3. (mReadBlock % NumBlocks) # (mWriteBlock % NumBlocks)
    <3>1. mReadBlock \in Int /\ mWriteBlock \in Int /\ NumBlocks \in Nat \ {0}
      BY RingAssumption DEF RingInv, RingTypes
    <3> QED BY <2>2, <3>1, OtherSlot
  <2>4. torn' = (torn \/ (spc = "copy" /\ mWriteBlock % NumBlocks = mReadBlock % NumBlocks))
    BY DEF BlockBegin
  <2>5. ~torn'
    BY <2>2, <2>3, <2>4, Zenon
  <2> QED BY <2>1, <2>5
<1> QED BY <1>1, <1>2 DEF RingInv, RingTypes, ReadBehindWrite, StaleInAll

\* The block that is published may end a reading's good fortune: it was begun.
LEMMA BlockEndRing ==
  ASSUME RingInv, BlockEnd, first' = first
  PROVE  RingInv'
BY RingAssumption DEF BlockEnd, sound, RingInv, RingTypes, ReadBehindWrite, StaleInAll, ReadSlotIsSafe

\* The reading starts at the oldest block there is, or where it was.
LEMMA SoundReadRing ==
  ASSUME RingInv, SoundRead
  PROVE  RingInv'
<1>1. /\ spc = "read" /\ UNCHANGED <<apc, mWriteBlock, stale, first>>
  BY DEF SoundRead, hvars
<1>2. CASE mReadBlock = mWriteBlock
  <2>1. spc' = "loop" /\ UNCHANGED <<mReadBlock, underrun, begun, torn>>
    BY <1>2 DEF SoundRead
  <2> QED BY <1>1, <2>1 DEF RingInv, RingTypes, ReadBehindWrite, StaleInAll, ReadSlotIsSafe
<1>3. CASE mReadBlock # mWriteBlock
  <2>1. /\ spc' = "copy" /\ underrun' = Underrun
        /\ mReadBlock' = IF Underrun THEN mWriteBlock - NumBlocks ELSE mReadBlock
        /\ begun' = IF apc = "copy" THEN 1 ELSE 0
        /\ torn' = (apc = "copy" /\ mWriteBlock % NumBlocks = mReadBlock' % NumBlocks)
    BY <1>3 DEF SoundRead
  <2>2. RingTypes' /\ ReadBehindWrite'
    BY <1>1, <1>3, <2>1, RingAssumption DEF RingInv, RingTypes, ReadBehindWrite, Underrun
  <2>3. StaleInAll'
    BY <1>1, <1>3, <2>1, RingAssumption DEF RingInv, RingTypes, ReadBehindWrite, StaleInAll, Underrun
  <2>4. ReadSlotIsSafe'
    <3> SUFFICES ASSUME ~underrun'
                 PROVE  /\ begun' = 0 => apc' = "idle" /\ mWriteBlock' - mReadBlock' < NumBlocks
                        /\ ~torn'
      BY DEF ReadSlotIsSafe
    <3>. ~Underrun
      BY <2>1
    <3>1. mReadBlock' = mReadBlock /\ mReadBlock < mWriteBlock /\ mWriteBlock < mReadBlock + NumBlocks
      BY <1>3, <2>1, RingAssumption DEF RingInv, RingTypes, ReadBehindWrite, Underrun
    <3>2. (mReadBlock % NumBlocks) # (mWriteBlock % NumBlocks)
      <4>1. mReadBlock \in Int /\ mWriteBlock \in Int /\ NumBlocks \in Nat \ {0}
        BY RingAssumption DEF RingInv, RingTypes
      <4> QED BY <3>1, <4>1, OtherSlot
    <3>3. ~torn'
      BY <2>1, <3>1, <3>2, Zenon
    <3>4. begun' = 0 => apc' = "idle" /\ mWriteBlock' - mReadBlock' < NumBlocks
      BY <1>1, <2>1, <3>1, RingAssumption DEF RingInv, RingTypes
    <3> QED BY <3>3, <3>4
  <2> QED BY <2>2, <2>3, <2>4 DEF RingInv
<1> QED BY <1>2, <1>3

LEMMA SoundWriteRing ==
  ASSUME RingInv, SoundWrite
  PROVE  RingInv'
<1>1. /\ spc = "copy" /\ spc' = "loop" /\ mReadBlock' = mReadBlock + 1
      /\ stale' = IF mReadBlock < first THEN stale + 1 ELSE stale
      /\ UNCHANGED <<apc, mWriteBlock, first, begun>>
  BY DEF SoundWrite, hvars
<1> QED BY <1>1, RingAssumption DEF RingInv, RingTypes, ReadBehindWrite, StaleInAll, ReadSlotIsSafe

\* The steps that leave the ring, and with Start and StopJoin the thread that
\* reads it, alone.
LEMMA OtherStepsRing ==
  ASSUME RingInv, [Next]_vars,
         ~BlockBegin, ~BlockEnd, ~SoundRead, ~SoundWrite
  PROVE  RingInv'
<1>1. \/ UNCHANGED <<audio, sound, first>>
      \/ UNCHANGED <<apc, ring, underrun, begun, torn, stale, first>> /\ spc' # "copy"
      \/ UNCHANGED <<apc, ring, sound, first>>
      \/ Start
  BY DEF Next, vars, DeviceBlock, SoundStep, SoundLoop, GraphicsStep, SaveImage, BeginAudio,
         ProcessAudio, StopJoin, WriteFile, SetMode, StartFails, DrawFrame, Screenshot, Stop,
         hvars, audio
<1>2. CASE UNCHANGED <<apc, ring, underrun, begun, torn, stale, first>> /\ spc' # "copy"
  BY <1>2 DEF ring, RingInv, RingTypes, ReadBehindWrite, StaleInAll, ReadSlotIsSafe
<1>3. CASE UNCHANGED <<apc, ring, sound, first>>
  BY <1>3 DEF ring, sound, RingInv, RingTypes, ReadBehindWrite, StaleInAll, ReadSlotIsSafe
<1>4. CASE Start
  BY <1>4 DEF Start, ring, RingInv, RingTypes, ReadBehindWrite, StaleInAll, ReadSlotIsSafe
<1> QED BY <1>1, <1>2, <1>3, <1>4 DEF audio

LEMMA NextRingInv == RingInv /\ [Next]_vars => RingInv'
<1> SUFFICES ASSUME RingInv, [Next]_vars PROVE RingInv'
  OBVIOUS
<1>1. BlockBegin \/ BlockEnd => first' = first
  <2>1. Start => apc' = apc
    BY DEF Start
  <2>2. Start \/ first' = first
    BY DEF Next, vars, DeviceBlock, SoundStep, SoundLoop, SoundRead, SoundWrite, GraphicsStep,
           SaveImage, BeginAudio, ProcessAudio, StopJoin, WriteFile, SetMode, DrawFrame,
           StartFails, Screenshot, Stop, hvars
  <2> QED BY <2>1, <2>2 DEF BlockBegin, BlockEnd
<1> QED BY <1>1, BlockBeginRing, BlockEndRing, SoundReadRing, SoundWriteRing, OtherStepsRing

\* A block whose reading reported no underrun was not written over while it was
\* copied, unless two blocks came meanwhile: for a ring of any size.
THEOREM GoodReads == Spec => []GoodReadIsWhole
<1>1. RingInv => GoodReadIsWhole
  BY DEF RingInv, ReadSlotIsSafe, GoodReadIsWhole
<1> QED BY InitRingInv, NextRingInv, <1>1, PTL DEF Spec

\* A sound file begins with at most a ring of blocks of the recording before,
\* wherever that one stopped reading.
THEOREM StaleBlocksFit == Spec => []StaleFitsRing
<1>1. RingInv => StaleFitsRing
  BY RingAssumption DEF RingInv, RingTypes, StaleInAll, StaleFitsRing
<1> QED BY InitRingInv, NextRingInv, <1>1, PTL DEF Spec

-------------------------------------------------------------------------------
(***************************************************************************)
(* The queue of pixel buffers.                                             *)
(***************************************************************************)
QueueTypes ==
  /\ mActive \in BOOLEAN /\ mixed \in BOOLEAN /\ mReadPBO \in BOOLEAN
  /\ gpc \in {"idle", "save", "shot", "audio", "process", "join"}
  /\ mFrameNumber \in Nat /\ drawn \in Nat
  /\ pbo \in [0..Npbos - 1 -> Nat \cup {None}]

\* What the drawing thread does in a recording, outside of one and for a
\* screenshot.
Phases ==
  /\ gpc \in {"save", "audio", "process"} => mActive
  /\ gpc = "join" => ~mActive
  /\ gpc = "shot" => mixed

\* The queue holds the last frames, each in its own slot.
QueueHolds ==
  /\ ~mActive => mPBOIdx = 0 /\ ~mReadPBO
  /\ mActive => /\ mPBOIdx = drawn % Npbos
                /\ mReadPBO <=> drawn >= Npbos
                /\ \A n \in Nat : drawn - Npbos <= n /\ n < drawn => pbo[n % Npbos] = n

\* The number of the next image: that of the frame which leaves the queue next.
NumbersFollow ==
  ~mixed => IF gpc = "save"
            THEN drawn > Npbos /\ mFrameNumber = drawn - 1 - Npbos /\ image = mFrameNumber
            ELSE mFrameNumber = IF drawn <= Npbos THEN 0 ELSE drawn - Npbos

QueueInv == QueueTypes /\ Phases /\ QueueHolds /\ NumbersFollow

LEMMA InitQueueInv == Init => QueueInv
<1> SUFFICES ASSUME Init PROVE QueueInv
  OBVIOUS
<1>1. QueueTypes
  <2>1. pbo \in [0..Npbos - 1 -> Nat \cup {None}]
    BY DEF Init
  <2> QED BY <2>1 DEF Init, QueueTypes
<1>. Phases /\ NumbersFollow
  BY PoolAssumption DEF Init, Phases, NumbersFollow
<1>2. ~mActive /\ mPBOIdx = 0 /\ ~mReadPBO
  BY DEF Init
<1>3. QueueHolds
  BY <1>2, Zenon DEF QueueHolds
<1> QED BY <1>1, <1>3 DEF QueueInv

LEMMA StartQueue ==
  ASSUME QueueInv, Start
  PROVE  QueueInv'
<1>1. /\ gpc = "idle" /\ ~mActive /\ mActive' = TRUE /\ mFrameNumber' = 0 /\ drawn' = 0
      /\ UNCHANGED <<gpc, pbo, mPBOIdx, mReadPBO, image>>
  BY DEF Start, queue
<1>2. mixed' \in BOOLEAN
  BY DEF Start, InUse
<1>3. Npbos \in Nat \ {0} /\ 0 \in 0..Npbos - 1
  BY PoolAssumption
<1>4. 0 % Npbos = 0
  BY <1>3, SmallMod
<1>5. QueueHolds'
  BY <1>1, <1>4, PoolAssumption DEF QueueInv, QueueHolds
<1> QED BY <1>1, <1>2, <1>5, PoolAssumption DEF QueueInv, QueueTypes, Phases, NumbersFollow

LEMMA DrawFrameQueue ==
  ASSUME QueueInv, DrawFrame
  PROVE  QueueInv'
<1>1. /\ gpc = "idle" /\ mActive /\ mActive' = TRUE
      /\ image' = IF mReadPBO THEN pbo[mPBOIdx] ELSE None
      /\ gpc' = IF mReadPBO THEN "save" ELSE "audio"
      /\ pbo' = [pbo EXCEPT ![mPBOIdx] = drawn]
      /\ mPBOIdx' = (mPBOIdx + 1) % Npbos
      /\ drawn' = drawn + 1
      /\ UNCHANGED <<mFrameNumber, mixed>>
  BY DEF DrawFrame, QueueInv, QueueTypes
<1>2. /\ drawn \in Nat /\ Npbos \in Nat \ {0} /\ mFrameNumber \in Nat
      /\ pbo \in [0..Npbos - 1 -> Nat \cup {None}]
  BY PoolAssumption DEF QueueInv, QueueTypes
<1>3. /\ mPBOIdx = drawn % Npbos
      /\ mReadPBO <=> drawn >= Npbos
      /\ \A n \in Nat : drawn - Npbos <= n /\ n < drawn => pbo[n % Npbos] = n
  BY <1>1, Zenon DEF QueueInv, QueueHolds
<1>4. mPBOIdx \in 0..Npbos - 1
  <2>1. drawn % Npbos \in 0..Npbos - 1
    BY <1>2, DivMod
  <2> QED BY <1>3, <2>1, Zenon
<1>5. mPBOIdx' = (drawn + 1) % Npbos
  BY <1>1, <1>2, <1>3, NextSlot
<1>6. mReadPBO' <=> drawn' >= Npbos
  <2>1. mReadPBO' <=> (mReadPBO \/ mPBOIdx' = 0)
    BY DEF DrawFrame
  <2>2. CASE drawn + 1 < Npbos
    <3>1. drawn + 1 \in 0..Npbos - 1
      BY <1>2, <2>2
    <3>2. (drawn + 1) % Npbos = drawn + 1
      BY <1>2, <3>1, SmallMod
    <3>3. mPBOIdx' # 0
      BY <1>2, <1>5, <3>2
    <3>4. ~(drawn >= Npbos) /\ ~(drawn' >= Npbos)
      BY <1>1, <1>2, <2>2
    <3> QED BY <1>3, <2>1, <3>3, <3>4, Zenon
  <2>3. CASE drawn + 1 = Npbos
    <3>1. Npbos = Npbos * 1 + 0 /\ 0 \in 0..Npbos - 1
      BY <1>2
    <3>2. (Npbos * 1 + 0) % Npbos = 0
      BY <1>2, <3>1, ModByQuotient
    <3>3. mPBOIdx' = 0
      BY <1>5, <2>3, <3>1, <3>2
    <3>4. drawn' >= Npbos
      BY <1>1, <1>2, <2>3
    <3> QED BY <2>1, <3>3, <3>4, Zenon
  <2>4. CASE drawn >= Npbos
    <3>1. drawn' >= Npbos
      BY <1>1, <1>2, <2>4
    <3> QED BY <1>3, <2>1, <2>4, <3>1, Zenon
  <2> QED BY <1>2, <2>2, <2>3, <2>4
<1>7. \A n \in Nat : drawn' - Npbos <= n /\ n < drawn' => pbo'[n % Npbos] = n
  <2> SUFFICES ASSUME NEW n \in Nat, drawn' - Npbos <= n, n < drawn'
               PROVE  pbo'[n % Npbos] = n
    BY Zenon
  <2> DEFINE slot == n % Npbos
  <2>1. slot \in 0..Npbos - 1
    BY <1>2, DivMod
  <2>2. drawn - Npbos <= n /\ (n = drawn \/ n < drawn)
    BY <1>1, <1>2
  <2>3. pbo' = [pbo EXCEPT ![mPBOIdx] = drawn]
    BY <1>1
  <2>4. CASE n = drawn
    <3>1. slot = mPBOIdx
      BY <1>3, <2>4, Zenon
    <3> HIDE DEF slot
    <3>2. pbo'[slot] = n
      BY <1>2, <1>4, <2>3, <2>4, <3>1
    <3> QED BY <3>2 DEF slot
  <2>5. CASE n < drawn
    <3>0. n \in Int /\ drawn \in Int
      BY <1>2
    <3>1. n < drawn /\ drawn < n + Npbos
      BY <1>1, <1>2, <2>5
    <3>2. (n % Npbos) # (drawn % Npbos)
      BY <1>2, <3>0, <3>1, OtherSlot
    <3>3. slot # mPBOIdx
      BY <1>3, <3>2, Zenon
    <3>4. pbo[slot] = n
      BY <1>3, <2>2, <2>5, Zenon
    <3> HIDE DEF slot
    <3>5. pbo'[slot] = n
      BY <1>2, <1>4, <2>1, <2>3, <3>3, <3>4
    <3> QED BY <3>5 DEF slot
  <2> QED BY <2>2, <2>4, <2>5
<1>8. NumbersFollow'
  <2> SUFFICES ASSUME ~mixed PROVE NumbersFollow'
    BY <1>1 DEF NumbersFollow
  <2>1. mFrameNumber = IF drawn <= Npbos THEN 0 ELSE drawn - Npbos
    BY <1>1 DEF QueueInv, NumbersFollow
  <2>2. CASE mReadPBO
    <3> DEFINE n == drawn - Npbos
    <3>1. drawn >= Npbos
      BY <1>3, <2>2, Zenon
    <3>2. n \in Nat /\ n \in Int /\ n + Npbos = drawn /\ drawn - Npbos <= n /\ n < drawn
      BY <1>2, <3>1
    <3>3. (n + Npbos) % Npbos = (n % Npbos)
      BY <1>2, <3>2, SameSlot DEF n
    <3> HIDE DEF n
    <3>4. pbo[n % Npbos] = n
      BY <1>3, <3>2, Zenon
    <3>5. pbo[mPBOIdx] = n
      BY <1>3, <3>2, <3>3, <3>4, Zenon
    <3>6. image' = n /\ gpc' = "save"
      BY <1>1, <2>2, <3>5
    <3> QED BY <1>1, <1>2, <2>1, <3>1, <3>6 DEF NumbersFollow, n
  <2>3. CASE ~mReadPBO
    <3>1. ~(drawn >= Npbos)
      BY <1>3, <2>3, Zenon
    <3> QED BY <1>1, <1>2, <2>1, <2>3, <3>1 DEF NumbersFollow
  <2> QED BY <2>2, <2>3
<1>9. QueueTypes'
  <2>1. mReadPBO' \in BOOLEAN
    BY DEF DrawFrame
  <2>2. mActive' \in BOOLEAN /\ mixed' \in BOOLEAN
    BY <1>1 DEF QueueInv, QueueTypes
  <2>3. pbo' \in [0..Npbos - 1 -> Nat \cup {None}]
    BY <1>1, <1>2, <1>4
  <2>4. gpc' \in {"idle", "save", "shot", "audio", "process", "join"}
    BY <1>1
  <2> QED BY <1>1, <1>2, <2>1, <2>2, <2>3, <2>4 DEF QueueTypes
<1>10. Phases'
  BY <1>1 DEF QueueInv, Phases
<1>11. QueueHolds'
  <2>1. mActive' /\ mPBOIdx' = drawn' % Npbos
    BY <1>1, <1>5, Zenon
  <2> QED BY <1>6, <1>7, <2>1, Zenon DEF QueueHolds
<1> QED BY <1>8, <1>9, <1>10, <1>11 DEF QueueInv

\* An image leaves the queue, or a screenshot takes its number.
LEMMA SaveImageQueue ==
  ASSUME QueueInv, NEW i \in Writers, SaveImage(i)
  PROVE  QueueInv'
<1>1. /\ gpc \in {"save", "shot"} /\ gpc' = IF gpc = "save" THEN "audio" ELSE "idle"
      /\ mFrameNumber' = mFrameNumber + 1
      /\ UNCHANGED <<mActive, pbo, mPBOIdx, mReadPBO, drawn, mixed>>
  BY DEF SaveImage, queue, hvars
<1>2. QueueTypes' /\ Phases'
  BY <1>1 DEF QueueInv, QueueTypes, Phases
<1>3. QueueHolds'
  BY <1>1 DEF QueueInv, QueueHolds
<1>4. NumbersFollow'
  BY <1>1, PoolAssumption DEF QueueInv, QueueTypes, Phases, NumbersFollow
<1> QED BY <1>2, <1>3, <1>4 DEF QueueInv

LEMMA StopQueue ==
  ASSUME QueueInv, Stop
  PROVE  QueueInv'
BY PoolAssumption DEF Stop, hvars, QueueInv, QueueTypes, Phases, QueueHolds, NumbersFollow

LEMMA StartFailsQueue ==
  ASSUME QueueInv, StartFails
  PROVE  QueueInv'
BY DEF StartFails, queue, QueueInv, QueueTypes, Phases, QueueHolds, NumbersFollow

\* The steps of the sound, of the writers and of a screenshot's beginning.
LEMMA OtherStepsQueue ==
  ASSUME QueueInv, [Next]_vars,
         ~Start, ~StartFails, ~DrawFrame, ~Stop, \A i \in Writers : ~SaveImage(i)
  PROVE  QueueInv'
<1>1. /\ UNCHANGED <<mActive, queue, mFrameNumber, drawn>>
      /\ \/ UNCHANGED <<gpc, image, mixed>>
         \/ mixed' = TRUE /\ gpc' = "shot" /\ gpc = "idle"
         \/ UNCHANGED <<image, mixed>> /\ gpc \in {"audio", "process"} /\ gpc' \in {"process", "idle"}
              /\ (gpc' = "process" => gpc \in {"audio", "process"})
         \/ UNCHANGED <<image, mixed>> /\ gpc = "join" /\ gpc' = "idle"
  BY DEF Next, vars, DeviceBlock, SoundStep, SoundLoop, SoundRead, SoundWrite, GraphicsStep,
         BeginAudio, ProcessAudio, StopJoin, WriteFile, SetMode, Screenshot, hvars, queue
<1>2. QueueTypes' /\ Phases'
  BY <1>1 DEF QueueInv, QueueTypes, Phases, queue
<1>3. QueueHolds'
  BY <1>1 DEF QueueInv, QueueHolds, queue
<1>4. NumbersFollow'
  BY <1>1 DEF QueueInv, QueueTypes, Phases, NumbersFollow
<1> QED BY <1>2, <1>3, <1>4 DEF QueueInv

LEMMA NextQueueInv == QueueInv /\ [Next]_vars => QueueInv'
BY StartQueue, StartFailsQueue, DrawFrameQueue, SaveImageQueue, StopQueue, OtherStepsQueue

-------------------------------------------------------------------------------
(***************************************************************************)
(* The image files.                                                        *)
(***************************************************************************)
\* A file of this recording is that of a frame under its own number.
IsFrame(file) == \E n \in 0..mFrameNumber - 1 : file = <<mPath, n, n>>
Saved(i) == <<writer[i].path, writer[i].number, writer[i].frame>>

\* The images handed over so far are on disk or with a writer, and nothing else
\* is in the directory.
ImagesFollow ==
  ~mixed =>
    /\ \A f \in disk : f[1] = mPath => IsFrame(f)
    /\ \A i \in Writers : ~Free(i) /\ writer[i].path = mPath => IsFrame(Saved(i))
    /\ \A n \in 0..mFrameNumber - 1 :
         <<mPath, n, n>> \in disk \/ \E i \in Writers : ~Free(i) /\ Saved(i) = <<mPath, n, n>>

FilesInv == QueueInv /\ DOMAIN writer = Writers /\ ImagesFollow

LEMMA InitFilesInv == Init => FilesInv
<1> SUFFICES ASSUME Init PROVE FilesInv
  OBVIOUS
<1>1. disk = {} /\ mFrameNumber = 0 /\ writer = [i \in Writers |-> Idle]
  BY DEF Init
<1>2. \A i \in Writers : Free(i)
  BY <1>1 DEF Free
<1>3. 0..mFrameNumber - 1 = {}
  BY <1>1
<1>4. ImagesFollow
  BY <1>1, <1>2, <1>3 DEF ImagesFollow
<1> QED BY <1>1, <1>4, InitQueueInv DEF FilesInv

\* A directory that is not in use is empty, and no writer saves to it.
LEMMA StartFiles ==
  ASSUME FilesInv, Start
  PROVE  FilesInv'
<1>1. mFrameNumber' = 0 /\ UNCHANGED <<writer, disk>> /\ mixed' = InUse(mPath')
  BY DEF Start
<1>2. QueueInv'
  BY StartQueue DEF FilesInv
<1>3. ImagesFollow'
  <2> SUFFICES ASSUME ~mixed' PROVE ImagesFollow'
    BY DEF ImagesFollow
  <2>1. ~InUse(mPath')
    BY <1>1
  <2>2. /\ \A f \in disk' : f[1] # mPath'
        /\ \A i \in Writers : writer'[i].path # mPath'
    BY <1>1, <2>1, Zenon DEF InUse
  <2>3. 0..mFrameNumber' - 1 = {}
    BY <1>1
  <2> QED BY <2>2, <2>3 DEF ImagesFollow
<1> QED BY <1>1, <1>2, <1>3 DEF FilesInv

LEMMA SaveImageFiles ==
  ASSUME FilesInv, NEW i \in Writers, SaveImage(i)
  PROVE  FilesInv'
<1>1. /\ gpc \in {"save", "shot"} /\ Free(i) /\ mFrameNumber' = mFrameNumber + 1
      /\ writer' = [writer EXCEPT ![i] = [path |-> mPath, number |-> mFrameNumber, frame |-> image]]
      /\ UNCHANGED <<mPath, disk, mixed>>
  BY DEF SaveImage, hvars
<1>2. QueueInv'
  BY SaveImageQueue DEF FilesInv
<1>3. ImagesFollow'
  <2> SUFFICES ASSUME ~mixed PROVE ImagesFollow'
    BY <1>1 DEF ImagesFollow
  <2>1. image = mFrameNumber /\ mFrameNumber \in Nat
    BY <1>1 DEF FilesInv, QueueInv, QueueTypes, Phases, NumbersFollow
  <2>2. /\ writer'[i] = [path |-> mPath, number |-> mFrameNumber, frame |-> mFrameNumber]
        /\ \A j \in Writers \ {i} : writer'[j] = writer[j]
    BY <1>1, <2>1 DEF FilesInv
  <2>3. Saved(i)' = <<mPath, mFrameNumber, mFrameNumber>>
    BY <2>2 DEF Saved
  <2>4. writer'[i].number # None
    BY <2>1, <2>2, NoneAssumption
  <2>5. ~Free(i)'
    BY <2>4 DEF Free, Idle
  <2>6. \A j \in Writers \ {i} : Saved(j)' = Saved(j) /\ (Free(j)' <=> Free(j))
    BY <2>2 DEF Saved, Free
  <2>7. \A f : IsFrame(f) => IsFrame(f)'
    BY <1>1, <2>1 DEF IsFrame
  <2>8. mFrameNumber \in 0..mFrameNumber' - 1
    BY <1>1, <2>1
  <2>9. \A f \in disk' : f[1] = mPath' => IsFrame(f)'
    BY <1>1, <2>7 DEF FilesInv, ImagesFollow
  <2>10. ASSUME NEW j \in Writers, ~Free(j)', writer'[j].path = mPath' PROVE IsFrame(Saved(j))'
    <3>1. CASE j = i
      BY <1>1, <2>3, <2>8, <3>1 DEF IsFrame
    <3>2. CASE j # i
      <4>1. ~Free(j) /\ writer[j].path = mPath /\ Saved(j)' = Saved(j)
        BY <1>1, <2>2, <2>6, <2>10, <3>2
      <4>2. IsFrame(Saved(j))
        BY <4>1 DEF FilesInv, ImagesFollow
      <4> QED BY <2>7, <4>1, <4>2 DEF IsFrame
    <3> QED BY <3>1, <3>2
  <2>11. ASSUME NEW n \in 0..mFrameNumber' - 1
         PROVE  <<mPath', n, n>> \in disk'
                \/ \E j \in Writers : ~Free(j)' /\ Saved(j)' = <<mPath', n, n>>
    <3>1. n \in 0..mFrameNumber - 1 \/ n = mFrameNumber
      BY <1>1, <2>1
    <3>2. CASE n = mFrameNumber
      BY <1>1, <2>3, <2>5, <3>2
    <3>3. CASE n \in 0..mFrameNumber - 1
      <4>1. \/ <<mPath, n, n>> \in disk
            \/ \E j \in Writers : ~Free(j) /\ Saved(j) = <<mPath, n, n>>
        BY <3>3 DEF FilesInv, ImagesFollow
      <4> QED BY <1>1, <2>6, <4>1
    <3> QED BY <3>1, <3>2, <3>3
  <2> QED BY <2>9, <2>10, <2>11 DEF ImagesFollow
<1> QED BY <1>1, <1>2, <1>3 DEF FilesInv

\* The file that is replaced, if any, was that of the same frame.
LEMMA WriteFileFiles ==
  ASSUME FilesInv, NEW i \in Writers, WriteFile(i)
  PROVE  FilesInv'
<1>1. /\ ~Free(i)
      /\ disk' = {f \in disk : f[1] # writer[i].path \/ f[2] # writer[i].number} \cup {Saved(i)}
      /\ writer' = [writer EXCEPT ![i] = Idle]
      /\ UNCHANGED <<mActive, gpc, mFrameNumber, queue, image, mPath, hvars>>
  BY DEF WriteFile, Saved
<1>2. QueueInv'
  BY <1>1 DEF hvars, queue, FilesInv, QueueInv, QueueTypes, Phases, QueueHolds, NumbersFollow
<1>3. ImagesFollow'
  <2> SUFFICES ASSUME ~mixed PROVE ImagesFollow'
    BY <1>1 DEF ImagesFollow, hvars
  <2>1. \A f : IsFrame(f)' <=> IsFrame(f)
    BY <1>1 DEF IsFrame
  <2>2. writer'[i] = Idle /\ \A j \in Writers \ {i} : writer'[j] = writer[j]
    BY <1>1 DEF FilesInv
  <2>3. Free(i)' /\ \A j \in Writers \ {i} : Saved(j)' = Saved(j) /\ (Free(j)' <=> Free(j))
    BY <2>2 DEF Free, Saved
  <2>4. Saved(i)[1] = writer[i].path /\ Saved(i)[2] = writer[i].number
    BY DEF Saved
  <2>5. writer[i].path = mPath => IsFrame(Saved(i))
    BY <1>1 DEF FilesInv, ImagesFollow
  <2>6. ASSUME NEW f \in disk', f[1] = mPath PROVE IsFrame(f)
    <3>1. CASE f = Saved(i)
      BY <2>4, <2>5, <2>6, <3>1
    <3>2. CASE f \in disk
      BY <2>6, <3>2 DEF FilesInv, ImagesFollow
    <3> QED BY <1>1, <3>1, <3>2
  <2>7. ASSUME NEW j \in Writers, ~Free(j)', writer'[j].path = mPath PROVE IsFrame(Saved(j)')
    <3>1. j # i
      BY <2>3, <2>7
    <3>2. ~Free(j) /\ writer[j].path = mPath /\ Saved(j)' = Saved(j)
      BY <2>2, <2>3, <2>7, <3>1
    <3> QED BY <3>2 DEF FilesInv, ImagesFollow
  <2>8. ASSUME NEW n \in 0..mFrameNumber - 1
        PROVE  <<mPath, n, n>> \in disk'
               \/ \E j \in Writers : ~Free(j)' /\ Saved(j)' = <<mPath, n, n>>
    <3>1. CASE <<mPath, n, n>> \in disk
      <4>1. CASE mPath = writer[i].path /\ n = writer[i].number
        <5>1. PICK m \in 0..mFrameNumber - 1 : Saved(i) = <<mPath, m, m>>
          BY <2>5, <4>1 DEF IsFrame
        <5>2. m = n
          BY <2>4, <4>1, <5>1
        <5> QED BY <1>1, <5>1, <5>2
      <4>2. CASE ~(mPath = writer[i].path /\ n = writer[i].number)
        <5>1. <<mPath, n, n>>[1] = mPath /\ <<mPath, n, n>>[2] = n
          OBVIOUS
        <5> QED BY <1>1, <3>1, <4>2, <5>1
      <4> QED BY <4>1, <4>2
    <3>2. ASSUME NEW j \in Writers, ~Free(j), Saved(j) = <<mPath, n, n>>
          PROVE  <<mPath, n, n>> \in disk'
                 \/ \E k \in Writers : ~Free(k)' /\ Saved(k)' = <<mPath, n, n>>
      <4>1. CASE j = i
        BY <1>1, <3>2, <4>1
      <4>2. CASE j # i
        BY <2>3, <3>2, <4>2
      <4> QED BY <4>1, <4>2
    <3>3. <<mPath, n, n>> \in disk \/ \E j \in Writers : ~Free(j) /\ Saved(j) = <<mPath, n, n>>
      BY DEF FilesInv, ImagesFollow
    <3> QED BY <3>1, <3>2, <3>3
  <2> QED BY <1>1, <2>1, <2>6, <2>7, <2>8 DEF ImagesFollow, IsFrame
<1> QED BY <1>1, <1>2, <1>3 DEF FilesInv

\* Every other step leaves the files, their directory and the next number alone;
\* a screenshot sets mixed.
LEMMA OtherStepsFiles ==
  ASSUME FilesInv, [Next]_vars, ~Start, \A i \in Writers : ~SaveImage(i) /\ ~WriteFile(i)
  PROVE  FilesInv'
<1>1. /\ UNCHANGED <<writer, disk>>
      /\ UNCHANGED <<mFrameNumber, mPath, mixed>> \/ mixed' = TRUE
  BY DEF Next, vars, DeviceBlock, SoundStep, SoundLoop, SoundRead, SoundWrite, GraphicsStep,
         BeginAudio, ProcessAudio, StopJoin, SetMode, StartFails, Screenshot, DrawFrame, Stop,
         hvars, files
<1>2. QueueInv'
  BY NextQueueInv DEF FilesInv
<1>3. ImagesFollow'
  BY <1>1 DEF FilesInv, ImagesFollow, IsFrame, Saved, Free
<1> QED BY <1>1, <1>2, <1>3 DEF FilesInv

LEMMA NextFilesInv == FilesInv /\ [Next]_vars => FilesInv'
BY StartFiles, SaveImageFiles, WriteFileFiles, OtherStepsFiles

\* When a recording is over and its writers are done, its directory holds a
\* beginning of what was drawn, each frame under its own number, and nothing
\* else; no more is missing than the queue holds.  For any number of pixel
\* buffers, writers and frames, in whatever order the writers finish.
THEOREM FramesAreSavedInOrder == Spec => []FramesAreInOrder
<1>1. FilesInv => FramesAreInOrder
  <2> SUFFICES ASSUME FilesInv, Over, ~mixed
               PROVE  \E k \in 0..drawn : k + Npbos >= drawn /\ Images = FirstFrames(k)
    BY DEF FramesAreInOrder
  <2>1. /\ \A f \in disk : f[1] = mPath => IsFrame(f)
        /\ \A n \in 0..mFrameNumber - 1 : <<mPath, n, n>> \in disk
    BY DEF FilesInv, ImagesFollow, Over
  <2>2. mFrameNumber \in 0..drawn /\ mFrameNumber + Npbos >= drawn
    BY PoolAssumption DEF FilesInv, QueueInv, QueueTypes, NumbersFollow, Over
  <2>3. Images = FirstFrames(mFrameNumber)
    BY <2>1 DEF Images, IsFrame, FirstFrames
  <2> QED BY <2>2, <2>3
<1> QED BY InitFilesInv, NextFilesInv, <1>1, PTL DEF Spec

-------------------------------------------------------------------------------
(***************************************************************************)
(* The pace of the sound.                                                  *)
(***************************************************************************)
LEMMA Blocks ==
  ASSUME NEW n \in Nat
  PROVE  /\ BlocksUntil(n) \in Int
         /\ Frames * BlocksUntil(n) <= n * Beats
         /\ n * Beats < Frames * BlocksUntil(n) + Frames
<1>1. n * Beats \in Int /\ Frames \in Nat \ {0}
  BY RateAssumption
<1> DEFINE a == n * Beats
           q == a \div Frames
           r == a % Frames
<1>2. r \in 0..Frames - 1 /\ q \in Int /\ a = Frames * q + r
  BY <1>1, DivMod
<1>3. Frames * q <= a /\ a < Frames * q + Frames
  <2> HIDE DEF a, q, r
  <2> DEFINE m == Frames * q
  <2>1. m \in Int
    BY <1>1, <1>2
  <2>2. a = m + r
    BY <1>2
  <2> HIDE DEF m
  <2>3. m <= a /\ a < m + Frames
    BY <1>1, <1>2, <2>1, <2>2
  <2> QED BY <2>3 DEF m
<1> QED BY <1>2, <1>3 DEF BlocksUntil

\* A product is above another of the same positive factor.
LEMMA Factor ==
  ASSUME NEW f \in Nat \ {0}, NEW x \in Int, NEW y \in Int, f * x < f * y + f
  PROVE  x <= y
<1> SUFFICES ASSUME x >= y + 1 PROVE FALSE
  OBVIOUS
<1>1. f * x >= f * (y + 1)
  OBVIOUS
<1>2. f * (y + 1) = f * y + f
  OBVIOUS
<1> QED BY <1>1, <1>2

LEMMA BlocksGrow ==
  ASSUME NEW n \in Nat
  PROVE  BlocksOf(n) \in Nat
<1>1. /\ BlocksUntil(n) \in Int /\ BlocksUntil(n + 1) \in Int
      /\ Frames * BlocksUntil(n) <= n * Beats
      /\ (n + 1) * Beats < Frames * BlocksUntil(n + 1) + Frames
  BY Blocks
<1>2. n * Beats <= (n + 1) * Beats /\ n * Beats \in Int /\ (n + 1) * Beats \in Int
  BY RateAssumption
<1> DEFINE x == BlocksUntil(n)
           y == BlocksUntil(n + 1)
<1>3. Frames * x < Frames * y + Frames
  BY <1>1, <1>2, RateAssumption
<1>4. x <= y
  BY <1>1, <1>3, RateAssumption, Factor
<1> QED BY <1>1, <1>4 DEF BlocksOf

\* The blocks until k frames later are those of k frames that are each given
\* BlocksUntil(1), and k more at most.
LEMMA BlocksLag ==
  ASSUME NEW a \in Nat, NEW k \in Nat
  PROVE  BlocksUntil(a + k) - BlocksUntil(a) - k * BlocksUntil(1) \in 0..k
<1> DEFINE x == BlocksUntil(a + k)
           y == BlocksUntil(a)
           z == BlocksUntil(1)
           D == x - y - k * z
<1>1. /\ x \in Int /\ Frames * x <= (a + k) * Beats /\ (a + k) * Beats < Frames * x + Frames
      /\ y \in Int /\ Frames * y <= a * Beats /\ a * Beats < Frames * y + Frames
      /\ z \in Int /\ Frames * z <= Beats /\ Beats < Frames * z + Frames
  BY Blocks, RateAssumption
<1> HIDE DEF x, y, z
<1>2. Frames * D = Frames * x - Frames * y - k * (Frames * z)
  BY <1>1, RateAssumption
<1>3. (a + k) * Beats = a * Beats + k * Beats
  BY RateAssumption
<1>4. k * (Frames * z) <= k * Beats
  BY <1>1, RateAssumption
<1>5. k * Beats <= k * (Frames * z + Frames - 1)
  BY <1>1, RateAssumption
<1>6. k * (Frames * z + Frames - 1) = k * (Frames * z) + k * Frames - k
  BY <1>1, RateAssumption
<1>7. D \in Int /\ Frames \in Nat \ {0}
  BY <1>1, RateAssumption
<1>8. D >= 0
  <2>1. Frames * 0 < Frames * D + Frames
    BY <1>1, <1>2, <1>3, <1>4, RateAssumption
  <2> HIDE DEF D
  <2> QED BY <1>7, <2>1, Factor
<1>9. D <= k
  <2>1. Frames * D < k * Frames + Frames
    BY <1>1, <1>2, <1>3, <1>5, <1>6, RateAssumption
  <2>2. k * Frames = Frames * k
    BY <1>7
  <2> HIDE DEF D
  <2> QED BY <1>7, <2>1, <2>2, Factor
<1> QED BY <1>7, <1>8, <1>9 DEF x, y, z

\* The blocks processed with the first d frames: the number of the image lags
\* behind by the queue.
BlocksWith(d) == IF d < Npbos THEN d * BlocksUntil(1)
                 ELSE (Npbos - 1) * BlocksUntil(1) + BlocksUntil(d - Npbos + 1)

LEMMA NoFramesNoBlocks == BlocksUntil(0) = 0
<1> DEFINE x == BlocksUntil(0)
<1>1. x \in Int /\ Frames * x <= 0 * Beats /\ 0 * Beats < Frames * x + Frames
  BY Blocks
<1> HIDE DEF x
<1>2. Frames \in Nat \ {0} /\ 0 * Beats = 0 /\ Frames * 0 = 0
  BY RateAssumption
<1>3. Frames * x < Frames * 0 + Frames /\ Frames * 0 < Frames * x + Frames
  BY <1>1, <1>2
<1>4. x <= 0 /\ 0 <= x
  BY <1>1, <1>2, <1>3, Factor
<1> QED BY <1>1, <1>4 DEF x

LEMMA NextFrameBlocks ==
  ASSUME NEW d \in Nat \ {0}
  PROVE  /\ BlocksWith(d - 1) \in Int
         /\ BlocksWith(d) = BlocksWith(d - 1) + BlocksOf(IF d <= Npbos THEN 0 ELSE d - Npbos)
<1>1. \A n \in Nat : BlocksUntil(n) \in Int
  BY Blocks
<1> DEFINE z == BlocksUntil(1)
<1>2. z \in Int /\ Npbos \in Nat \ {0} /\ BlocksOf(0) = z
  BY <1>1, PoolAssumption, NoFramesNoBlocks DEF BlocksOf
<1>3. CASE d < Npbos
  <2>1. BlocksWith(d) = d * z /\ BlocksWith(d - 1) = (d - 1) * z
    BY <1>2, <1>3 DEF BlocksWith
  <2> HIDE DEF z
  <2> QED BY <1>2, <1>3, <2>1
<1>4. CASE d = Npbos
  <2>1. BlocksWith(d) = (Npbos - 1) * z + z /\ BlocksWith(d - 1) = (Npbos - 1) * z
    BY <1>2, <1>4 DEF BlocksWith
  <2> HIDE DEF z
  <2> QED BY <1>2, <1>4, <2>1
<1>5. CASE d > Npbos
  <2> DEFINE x == BlocksUntil(d - Npbos)
             y == BlocksUntil(d - Npbos + 1)
  <2>1. x \in Int /\ y \in Int
    BY <1>1, <1>2, <1>5
  <2>2. BlocksWith(d) = (Npbos - 1) * z + y
    BY <1>2, <1>5 DEF BlocksWith
  <2>3. d - 1 - Npbos + 1 = d - Npbos /\ ~(d - 1 < Npbos)
    BY <1>2, <1>5
  <2>4. BlocksWith(d - 1) = (Npbos - 1) * z + x
    BY <2>3 DEF BlocksWith
  <2>5. BlocksOf(d - Npbos) = y - x
    BY DEF BlocksOf
  <2> HIDE DEF x, y, z
  <2> QED BY <1>2, <1>5, <2>1, <2>2, <2>4, <2>5
<1> QED BY <1>2, <1>3, <1>4, <1>5

LEMMA BlocksWithLag ==
  ASSUME NEW d \in Nat
  PROVE  BlocksWith(d) \in Int /\ BlocksUntil(d) - BlocksWith(d) \in 0..Npbos - 1
<1>1. \A n \in Nat : BlocksUntil(n) \in Int
  BY Blocks
<1>2. Npbos \in Nat \ {0} /\ BlocksUntil(1) \in Int /\ BlocksUntil(d) \in Int
  BY <1>1, PoolAssumption
<1>3. CASE d < Npbos
  <2>1. BlocksUntil(0 + d) - BlocksUntil(0) - d * BlocksUntil(1) \in 0..d
    BY BlocksLag
  <2>2. 0 + d = d /\ BlocksWith(d) = d * BlocksUntil(1)
    BY <1>3 DEF BlocksWith
  <2> DEFINE w == BlocksWith(d)
  <2>3. w \in Int
    BY <1>2, <2>2
  <2>4. BlocksUntil(d) - 0 - w \in 0..d
    BY <2>1, <2>2, NoFramesNoBlocks
  <2> QED BY <1>2, <1>3, <2>3, <2>4
<1>4. CASE d >= Npbos
  <2> DEFINE a == d - Npbos + 1
             k == Npbos - 1
  <2>1. a \in Nat /\ k \in Nat /\ a + k = d
    BY <1>2, <1>4
  <2>2. BlocksUntil(a) \in Int
    BY <1>1, <2>1
  <2>3. BlocksWith(d) = k * BlocksUntil(1) + BlocksUntil(a)
    BY <1>2, <1>4 DEF BlocksWith
  <2> HIDE DEF a, k
  <2>4. BlocksUntil(a + k) - BlocksUntil(a) - k * BlocksUntil(1) \in 0..k
    BY <2>1, BlocksLag
  <2> DEFINE m == k * BlocksUntil(1)
  <2>5. m \in Int
    BY <1>2, <2>1
  <2>6. BlocksUntil(d) - BlocksUntil(a) - m \in 0..k
    BY <2>1, <2>4
  <2>7. BlocksWith(d) = m + BlocksUntil(a)
    BY <2>3
  <2> HIDE DEF m
  <2> QED BY <1>2, <2>2, <2>5, <2>6, <2>7 DEF k
<1> QED BY <1>2, <1>3, <1>4

PaceTypes ==
  /\ mMode \in {"REAL_TIME", "NON_REAL_TIME"}
  /\ mWriteBlock \in Nat /\ first \in Nat /\ left \in Nat

\* Out of real time blocks are written only while a frame is processed.
Processing ==
  /\ gpc = "process" => mMode = "NON_REAL_TIME"
  /\ mMode = "NON_REAL_TIME" /\ apc = "copy" => gpc = "process" /\ left > 0

PaceFollows ==
  mActive /\ mMode = "NON_REAL_TIME" /\ ~mixed =>
    /\ gpc = "idle" => mWriteBlock - first = BlocksWith(drawn)
    /\ gpc \in {"save", "audio"} => drawn > 0 /\ mWriteBlock - first = BlocksWith(drawn - 1)
    /\ gpc = "process" => (mWriteBlock - first) + left = BlocksWith(drawn)

PaceInv == QueueInv /\ PaceTypes /\ Processing /\ PaceFollows

LEMMA InitPaceInv == Init => PaceInv
BY InitQueueInv DEF Init, PaceInv, PaceTypes, Processing, PaceFollows

LEMMA StartPace ==
  ASSUME PaceInv, Start
  PROVE  PaceInv'
<1>1. /\ gpc = "idle" /\ drawn' = 0 /\ first' = mWriteBlock
      /\ UNCHANGED <<mMode, gpc, apc, mWriteBlock, left>>
  BY DEF Start, ring
<1>2. BlocksWith(0) = 0
  <2>1. BlocksUntil(1) \in Int /\ Npbos \in Nat \ {0}
    BY Blocks, PoolAssumption
  <2> QED BY <2>1 DEF BlocksWith
<1>3. QueueInv'
  BY StartQueue DEF PaceInv
<1> QED BY <1>1, <1>2, <1>3 DEF PaceInv, PaceTypes, Processing, PaceFollows

LEMMA DrawFramePace ==
  ASSUME PaceInv, DrawFrame
  PROVE  PaceInv'
<1>1. /\ gpc = "idle" /\ mActive /\ gpc' \in {"save", "audio"} /\ drawn' = drawn + 1
      /\ UNCHANGED <<mActive, mMode, apc, mWriteBlock, left, first, mixed>>
  BY DEF DrawFrame, audio, ring
<1>2. drawn \in Nat /\ drawn' - 1 = drawn
  BY <1>1 DEF PaceInv, QueueInv, QueueTypes
<1>3. QueueInv'
  BY DrawFrameQueue DEF PaceInv
<1> QED BY <1>1, <1>2, <1>3 DEF PaceInv, PaceTypes, Processing, PaceFollows

\* The sound of a frame gets the number that its image has just left.
LEMMA BeginAudioPace ==
  ASSUME PaceInv, BeginAudio, QueueInv'
  PROVE  PaceInv'
<1>1. /\ gpc = "audio" /\ UNCHANGED <<mActive, mMode, apc, mWriteBlock, first, mixed, drawn>>
      /\ IF mMode = "REAL_TIME" THEN gpc' = "idle" /\ left' = left
                                ELSE gpc' = "process" /\ left' = BlocksOf(mFrameNumber)
  BY DEF BeginAudio, ring, hvars
<1>2. CASE mMode = "REAL_TIME"
  BY <1>1, <1>2 DEF PaceInv, PaceTypes, Processing, PaceFollows
<1>3. CASE mMode # "REAL_TIME"
  <2>1. left' \in Nat
    BY <1>1, <1>3, BlocksGrow DEF PaceInv, QueueInv, QueueTypes
  <2>2. ASSUME mActive, mMode = "NON_REAL_TIME", ~mixed
        PROVE  (mWriteBlock' - first') + left' = BlocksWith(drawn')
    <3>1. drawn \in Nat \ {0} /\ mWriteBlock - first = BlocksWith(drawn - 1)
      BY <1>1, <2>2 DEF PaceInv, PaceFollows, QueueInv, QueueTypes
    <3>2. mFrameNumber = IF drawn <= Npbos THEN 0 ELSE drawn - Npbos
      BY <1>1, <2>2 DEF PaceInv, QueueInv, NumbersFollow
    <3>3. BlocksWith(drawn) = BlocksWith(drawn - 1) + BlocksOf(mFrameNumber)
      BY <3>1, <3>2, NextFrameBlocks
    <3> QED BY <1>1, <1>3, <3>1, <3>3
  <2>3. mMode = "NON_REAL_TIME" => apc # "copy"
    BY <1>1 DEF PaceInv, Processing
  <2> QED BY <1>1, <1>3, <2>1, <2>2, <2>3 DEF PaceInv, PaceTypes, Processing, PaceFollows
<1> QED BY <1>2, <1>3

LEMMA ProcessAudioPace ==
  ASSUME PaceInv, ProcessAudio, QueueInv'
  PROVE  PaceInv'
<1>1. gpc = "process" /\ UNCHANGED <<mActive, mMode, first, mixed, drawn>>
  BY DEF ProcessAudio, hvars
<1>2. CASE left > 0 /\ BlockBegin /\ UNCHANGED gpc
  <2>1. UNCHANGED <<gpc, mWriteBlock, left>> /\ left > 0
    BY <1>2 DEF BlockBegin, ring
  <2> QED BY <1>1, <2>1 DEF PaceInv, PaceTypes, Processing, PaceFollows
<1>3. CASE BlockEnd /\ left' = left - 1 /\ UNCHANGED gpc
  <2>1. apc = "copy" /\ apc' = "idle" /\ mWriteBlock' = mWriteBlock + 1
    BY <1>3 DEF BlockEnd
  <2>2. left > 0
    BY <1>1, <2>1 DEF PaceInv, Processing
  <2> QED BY <1>1, <1>3, <2>1, <2>2 DEF PaceInv, PaceTypes, Processing, PaceFollows
<1>4. CASE left = 0 /\ gpc' = "idle" /\ UNCHANGED <<audio, sound>>
  <2>1. UNCHANGED <<apc, mWriteBlock, left>>
    BY <1>4 DEF audio, ring
  <2>2. mActive /\ ~mixed /\ mMode = "NON_REAL_TIME" => mWriteBlock - first = BlocksWith(drawn)
    BY <1>1, <1>4 DEF PaceInv, PaceTypes, PaceFollows
  <2> QED BY <1>1, <1>4, <2>1, <2>2 DEF PaceInv, PaceTypes, Processing, PaceFollows
<1> QED BY <1>2, <1>3, <1>4 DEF ProcessAudio

\* The device writes blocks in real time only.
LEMMA DeviceBlockPace ==
  ASSUME PaceInv, DeviceBlock, QueueInv'
  PROVE  PaceInv'
<1>1. mMode = "REAL_TIME" /\ UNCHANGED <<mMode, gpc, first, left>>
  BY DEF DeviceBlock, BlockBegin, hvars
<1>2. mWriteBlock' \in Nat
  BY DEF DeviceBlock, BlockBegin, BlockEnd, ring, PaceInv, PaceTypes
<1> QED BY <1>1, <1>2 DEF PaceInv, PaceTypes, Processing, PaceFollows

LEMMA SetModePace ==
  ASSUME PaceInv, NEW mode \in {"REAL_TIME", "NON_REAL_TIME"}, SetMode(mode), QueueInv'
  PROVE  PaceInv'
<1>1. /\ gpc = "idle" /\ ~mActive /\ mMode' = mode
      /\ mode # "REAL_TIME" => apc = "idle"
      /\ UNCHANGED <<mActive, gpc, apc, mWriteBlock, left, first>>
  BY DEF SetMode, audio, ring, hvars
<1> QED BY <1>1 DEF PaceInv, PaceTypes, Processing, PaceFollows

LEMMA SaveImagePace ==
  ASSUME PaceInv, NEW i \in Writers, SaveImage(i), QueueInv'
  PROVE  PaceInv'
<1>1. /\ gpc \in {"save", "shot"} /\ gpc' = IF gpc = "save" THEN "audio" ELSE "idle"
      /\ UNCHANGED <<mActive, mMode, apc, mWriteBlock, left, drawn, first, mixed>>
  BY DEF SaveImage, audio, ring, hvars
<1>2. gpc = "shot" => mixed
  BY DEF PaceInv, QueueInv, Phases
<1> QED BY <1>1, <1>2 DEF PaceInv, PaceTypes, Processing, PaceFollows

\* The steps that neither process blocks nor go on with a frame.
LEMMA OtherStepsPace ==
  ASSUME PaceInv, [Next]_vars, QueueInv',
         ~Start, ~DrawFrame, ~BeginAudio, ~ProcessAudio, ~DeviceBlock,
         \A mode \in {"REAL_TIME", "NON_REAL_TIME"} : ~SetMode(mode),
         \A i \in Writers : ~SaveImage(i)
  PROVE  PaceInv'
<1>1. /\ UNCHANGED <<mMode, apc, mWriteBlock, left, drawn, first>>
      /\ \/ UNCHANGED <<mActive, gpc, mixed>>
         \/ mixed' = TRUE /\ gpc' = "shot" /\ gpc = "idle"
         \/ mixed' = TRUE /\ UNCHANGED <<mActive, gpc>>
         \/ ~mActive' /\ gpc' = "join" /\ gpc = "idle"
         \/ gpc = "join" /\ gpc' = "idle" /\ mActive' = mActive
  BY DEF Next, vars, SoundStep, SoundLoop, SoundRead, SoundWrite, GraphicsStep, StopJoin,
         WriteFile, StartFails, Screenshot, Stop, hvars, audio, ring
<1>2. gpc = "join" => ~mActive
  BY DEF PaceInv, QueueInv, Phases
<1> QED BY <1>1, <1>2 DEF PaceInv, PaceTypes, Processing, PaceFollows

LEMMA NextPaceInv == PaceInv /\ [Next]_vars => PaceInv'
<1> SUFFICES ASSUME PaceInv, [Next]_vars PROVE PaceInv'
  OBVIOUS
<1>1. QueueInv'
  BY NextQueueInv DEF PaceInv
<1> QED BY <1>1, StartPace, DrawFramePace, BeginAudioPace, ProcessAudioPace, DeviceBlockPace,
           SetModePace, SaveImagePace, OtherStepsPace

\* Out of real time the blocks processed keep pace with the frames drawn, for
\* any rate and any length of the queue: never ahead, and less than Npbos behind,
\* however long the recording.
THEOREM SoundKeepsPace == Spec => []AudioKeepsPace
<1>1. PaceInv => AudioKeepsPace
  <2> SUFFICES ASSUME PaceInv, mActive, mMode = "NON_REAL_TIME", gpc = "idle", ~mixed
               PROVE  BlocksUntil(drawn) - (mWriteBlock - first) \in 0..Npbos - 1
    BY DEF AudioKeepsPace
  <2>1. mWriteBlock - first = BlocksWith(drawn) /\ drawn \in Nat
    BY DEF PaceInv, PaceFollows, QueueInv, QueueTypes
  <2>2. BlocksUntil(drawn) - BlocksWith(drawn) \in 0..Npbos - 1
    BY <2>1, BlocksWithLag
  <2> QED BY <2>1, <2>2
<1> QED BY InitPaceInv, NextPaceInv, <1>1, PTL DEF Spec
===============================================================================
