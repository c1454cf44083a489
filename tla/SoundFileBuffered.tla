--------------------------- MODULE SoundFileBuffered ---------------------------
(***************************************************************************)
(* al::SoundFileBuffered: a thread reads a sound file ahead into a ring    *)
(* buffer, the audio thread reads from the ring and wakes it, and other    *)
(* threads ask for another position in the file.                           *)
(*                                                                         *)
(* Counted in frames.  The ring is the bounded queue that                  *)
(* SingleRWRingBuffer implements; of its content only the number of frames *)
(* matters here, because the frames leave it in the order they entered.    *)
(* The file library (mSf) reads as many frames as there are and seeks to   *)
(* the frame it is given.  mCurPos, which nothing here reads, is left out. *)
(***************************************************************************)
EXTENDS Integers

CONSTANTS
  Frames,        \* frames of the file
  BufferFrames,  \* mBufferFrames
  FrameBytes,    \* channels() * sizeof(float)
  mLoop,
  Positions,     \* the frames that are sought
  Requests,      \* the numbers of frames that read() is asked for
  None           \* no frame

ASSUME FileAssumption == Frames \in Nat \ {0} /\ mLoop \in BOOLEAN
ASSUME BufferAssumption == BufferFrames \in Nat \ {0} /\ FrameBytes \in Nat \ {0}
ASSUME RequestsAssumption == Positions \subseteq Int /\ Requests \subseteq Nat

\* The ring rounds its size up to a power of two and keeps one byte free.
CeilPow2[n \in Nat] == IF n <= 1 THEN 1 ELSE 2 * CeilPow2[(n + 1) \div 2]
RingFrames == (CeilPow2[BufferFrames * FrameBytes] - 1) \div FrameBytes

VARIABLES
  fill,              \* frames in mRingBuffer
  mSeek,
  mRunning,
  tpc,               \* the reader thread
  position,          \* where the file is
  framesToRead, framesRead, seek,       \* its locals
  dpc,               \* the destructor
  lastFrame,         \* history: the last frame written to the file buffer
  sought,            \* history: a seek was carried out and no chunk begun since
  overlapped         \* history: seek() was called before the last was done

locals == <<framesToRead, framesRead, seek>>
hvars == <<lastFrame, sought, overlapped>>
readerVars == <<fill, mSeek, mRunning, tpc, position, locals, dpc, hvars>>

ReaderInit ==
  /\ fill = 0 /\ mSeek = -1 /\ mRunning = TRUE
  /\ tpc = "loop" /\ position = 0
  /\ framesToRead = 0 /\ framesRead = 0 /\ seek = -1
  /\ dpc = "alive"
  /\ lastFrame = None /\ sought = FALSE /\ overlapped = FALSE

Min2(a, b) == IF a < b THEN a ELSE b
Notify == tpc' = IF tpc = "asleep" THEN "awake" ELSE tpc

-------------------------------------------------------------------------------
\* The audio thread.
Read(n) ==
  /\ dpc = "alive"
  /\ fill' = fill - Min2(n, fill)
  /\ Notify
  /\ UNCHANGED <<mSeek, mRunning, position, locals, dpc, hvars>>

\* The positions are clipped to the file.
Clip(frame) == IF frame < 0 THEN 0 ELSE Min2(frame, Frames - 1)

Seek(frame) ==
  /\ dpc = "alive"
  /\ mSeek' = Clip(frame)
  /\ overlapped' = (mSeek >= 0)
  /\ UNCHANGED <<fill, mRunning, tpc, position, locals, dpc, lastFrame, sought>>

DestructorClear ==
  /\ dpc = "alive" /\ dpc' = "notify" /\ mRunning' = FALSE
  /\ UNCHANGED <<fill, mSeek, tpc, position, locals, hvars>>

DestructorNotify ==
  /\ dpc = "notify" /\ dpc' = "join" /\ Notify
  /\ UNCHANGED <<fill, mSeek, mRunning, position, locals, hvars>>

DestructorJoin ==
  /\ dpc = "join" /\ tpc = "done" /\ dpc' = "gone"
  /\ UNCHANGED <<fill, mSeek, mRunning, tpc, position, locals, hvars>>

-------------------------------------------------------------------------------
(***************************************************************************)
(* readFunction().                                                         *)
(***************************************************************************)
Thread(from, to) == tpc = from /\ tpc' = to

Loop ==
  /\ Thread("loop", IF mRunning THEN "wait" ELSE "done")
  /\ UNCHANGED <<fill, mSeek, mRunning, position, locals, dpc, hvars>>

Wait ==
  /\ Thread("wait", "asleep")
  /\ UNCHANGED <<fill, mSeek, mRunning, position, locals, dpc, hvars>>

SpuriousWake ==
  /\ Thread("asleep", "awake")
  /\ UNCHANGED <<fill, mSeek, mRunning, position, locals, dpc, hvars>>

\* One read of the file: n frames at most, behind those already read.
FileRead(n) ==
  LET got == Min2(n, Frames - position)
  IN  /\ framesRead' = framesRead + got
      /\ position' = position + got
      /\ lastFrame' = IF got > 0 THEN position + got - 1 ELSE lastFrame

ReadChunk ==
  /\ Thread("awake", "load")
  /\ framesToRead' = RingFrames - fill
  /\ FileRead(RingFrames - fill)
  /\ sought' = (sought /\ framesRead' = 0)
  /\ UNCHANGED <<fill, mSeek, mRunning, seek, dpc, overlapped>>

\* A plausible bug: zero taken for no request.
FaultSeekZero ==
  /\ Thread("load", IF mSeek > 0 THEN "seek" ELSE "more") /\ seek' = mSeek
  /\ UNCHANGED <<fill, mSeek, mRunning, position, framesToRead, framesRead, dpc, hvars>>

LoadSeek ==
  /\ Thread("load", IF mSeek >= 0 THEN "seek" ELSE "more") /\ seek' = mSeek
  /\ UNCHANGED <<fill, mSeek, mRunning, position, framesToRead, framesRead, dpc, hvars>>

\* The request that is withdrawn may be a newer one than that carried out.
CarryOut ==
  /\ Thread("seek", "more")
  /\ position' = seek /\ sought' = TRUE
  /\ mSeek' = -1 /\ overlapped' = FALSE
  /\ UNCHANGED <<fill, mRunning, locals, dpc, lastFrame>>

Complete == framesRead = framesToRead

\* A plausible bug: the file is rewound after every chunk.
FaultAlwaysRewind ==
  /\ Thread("more", "rewind") /\ Complete
  /\ UNCHANGED <<fill, mSeek, mRunning, position, locals, dpc, hvars>>

Enough ==
  /\ Thread("more", "write") /\ Complete
  /\ UNCHANGED <<fill, mSeek, mRunning, position, locals, dpc, hvars>>

\* Plausible bugs: the rest is not counted from what there is; no rewind.
FaultReadAgain ==
  /\ Thread("more", "rewind") /\ ~Complete
  /\ FileRead(framesToRead)
  /\ UNCHANGED <<fill, mSeek, mRunning, framesToRead, seek, dpc, sought, overlapped>>
FaultNoRewind ==
  /\ Thread("rewind", "write")
  /\ UNCHANGED <<fill, mSeek, mRunning, position, locals, dpc, hvars>>

\* The file has ended, or had before it was sought: read what is there.
ReadMore ==
  /\ Thread("more", "rewind") /\ ~Complete
  /\ FileRead(framesToRead - framesRead)
  /\ UNCHANGED <<fill, mSeek, mRunning, framesToRead, seek, dpc, sought, overlapped>>

Rewind ==
  /\ Thread("rewind", "write")
  /\ position' = IF mLoop THEN 0 ELSE position
  /\ UNCHANGED <<fill, mSeek, mRunning, locals, dpc, hvars>>

WriteRing ==
  /\ Thread("write", "loop")
  /\ fill' = fill + Min2(framesRead, RingFrames - fill)
  /\ framesRead' = 0 /\ framesToRead' = 0 /\ seek' = -1
  /\ UNCHANGED <<mSeek, mRunning, position, dpc, hvars>>

ReaderStep == \/ Loop \/ Wait \/ ReadChunk \/ LoadSeek \/ CarryOut \/ Enough
              \/ ReadMore \/ Rewind \/ WriteRing

ReaderNext ==
  \/ \E n \in Requests : Read(n)
  \/ \E frame \in Positions : Seek(frame)
  \/ DestructorClear \/ DestructorNotify \/ DestructorJoin
  \/ ReaderStep \/ SpuriousWake

(***************************************************************************)
(* The audio callback keeps reading while the object lives.                *)
(***************************************************************************)
Fairness ==
  /\ WF_readerVars(ReaderStep)
  /\ \A n \in Requests : WF_readerVars(Read(n))
  /\ WF_readerVars(DestructorNotify) /\ WF_readerVars(DestructorJoin)

ReaderSpec == ReaderInit /\ [][ReaderNext]_readerVars /\ Fairness

-------------------------------------------------------------------------------
\* What the two reads got fits the ring, whatever its size was rounded to: the
\* audio thread only empties it meanwhile, so that write() drops no frame.
ChunkFits == fill + framesRead <= RingFrames

\* The frames follow one another as in the file, the first after the last: no
\* chunk skips or repeats a frame.  The chunk in which a seek is carried out is
\* excepted: when it meets the end of the file as well, the file is rewound
\* behind the frames that were sought, and they are cut short.
FramesFollow ==
  [][\A first \in {position} :
       framesRead' > framesRead /\ lastFrame # None /\ ~sought
         => first = (lastFrame + 1) % Frames]_readerVars

\* A seek is carried out as long as frames are read, unless a seek that came
\* before it had not been (then it may be withdrawn with that one).
SeekIsCarriedOut ==
  \A frame \in 0..Frames - 1 :
    mSeek = frame /\ ~overlapped
      ~> (sought /\ position = frame) \/ overlapped \/ dpc # "alive"

\* While frames are read from a looped file there are always more to come: a
\* notification lost on a busy thread is made good by the next.
PlaybackGoesOn ==
  mLoop => \/ <>(dpc # "alive")
           \/ []<>(fill > 0)

-------------------------------------------------------------------------------
(***************************************************************************)
(* What a comment says and the code does not do.                           *)
(***************************************************************************)
\* "bufferFrames the size of the ring buffer" (al_SoundfileBuffered.hpp:39):
\* what is read to fill the ring fits mFileBuffer, which has as many frames.
\* It does when their bytes are a power of two; the ring is larger otherwise.
ChunkFitsFileBuffer == framesRead <= BufferFrames
===============================================================================
