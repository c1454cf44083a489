------------------------------ MODULE RenderToDisk ------------------------------
(***************************************************************************)
(* al::RenderToDisk: while a recording is active, every frame the window   *)
(* draws goes through a queue of Npbos pixel buffers to a pool of image    *)
(* writers, each a thread, and every audio block goes through mAudioRing   *)
(* to the thread that writes the sound file.                               *)
(*                                                                         *)
(* One thread draws and calls start(), stop() and saveScreenshot().  In    *)
(* real time the audio device calls onAudioCB(); otherwise the device is   *)
(* stopped and the drawing thread processes the blocks of each frame.  A   *)
(* recording uses both a window and audio.  Blocks are numbered as they    *)
(* are written, so that the ring needs no content: slot b % NumBlocks      *)
(* holds block b until block b + NumBlocks is copied over it.              *)
(***************************************************************************)
EXTENDS Integers, FiniteSets

CONSTANTS
  Npbos,
  Nthreads,
  NumBlocks,       \* AudioRing::mNumBlocks, at least 2
  Beats, Frames,   \* mFrameDur / secondsPerBuffer() is Beats / Frames
  MaxFrames,       \* bound: frames drawn in a recording
  MaxBlocks,       \* bound: blocks written in real time
  MaxRecordings,   \* bound: recordings and screenshots
  None             \* no frame

ASSUME PoolAssumption == Npbos \in Nat \ {0} /\ Nthreads \in Nat \ {0}
ASSUME RingAssumption == NumBlocks \in Nat \ {0, 1}
ASSUME RateAssumption == Beats \in Nat /\ Frames \in Nat \ {0}
ASSUME NoneAssumption == None \notin Int

VARIABLES
  mActive, mMode,
  gpc,               \* where the drawing thread is
  \* images
  mFrameNumber,
  pbo, mPBOIdx, mReadPBO,
  image,             \* mPixels: the frame that is being handed to a writer
  writer,            \* mImageWriters: what each saves, or Idle
  mPath,             \* 0 when path() was set, otherwise numbered by their times
  disk,              \* the image files: <<path, number, frame>>
  \* sound
  apc,               \* where onAudioCB() is
  appended,          \* the device calls onAudioCB()
  mWriteBlock, mReadBlock,
  spc,               \* the sound file thread
  left,              \* the blocks still to be processed for this frame
  underrun,          \* the reading that is under way found one
  \* history
  drawn,             \* frames drawn in this recording
  recordings,        \* recordings and screenshots so far
  mixed,             \* a screenshot, or an older image, may be among the files
  first,             \* mWriteBlock when the recording began
  begun, torn,       \* blocks begun during a reading, one of them over its own
  stale              \* blocks of an earlier recording in this sound file

queue == <<pbo, mPBOIdx, mReadPBO>>
files == <<writer, mPath, disk>>
ring == <<mWriteBlock, mReadBlock>>
sound == <<spc, underrun, begun, torn, stale>>
audio == <<apc, appended, ring, left>>
hvars == <<drawn, recordings, mixed, first>>
vars == <<mActive, mMode, gpc, mFrameNumber, queue, image, files, audio, sound, hvars>>

Idle == [path |-> None, number |-> None, frame |-> None]
Writers == 1..Nthreads

Init ==
  /\ mActive = FALSE /\ mMode = "REAL_TIME" /\ gpc = "idle"
  /\ mFrameNumber = 0
  /\ pbo = [i \in 0..Npbos - 1 |-> None] /\ mPBOIdx = 0 /\ mReadPBO = FALSE
  /\ image = None /\ writer = [i \in Writers |-> Idle]
  /\ mPath = 0 /\ disk = {}
  /\ apc = "idle" /\ appended = FALSE
  /\ mWriteBlock = 0 /\ mReadBlock = 0
  /\ spc = "none" /\ left = 0 /\ underrun = FALSE
  /\ drawn = 0 /\ recordings = 0 /\ mixed = FALSE
  /\ first = 0 /\ begun = 0 /\ torn = FALSE /\ stale = 0

-------------------------------------------------------------------------------
(***************************************************************************)
(* AudioRing and the sound file thread.                                    *)
(***************************************************************************)
\* onAudioCB(): the block is copied into its slot, then published.
BlockBegin ==
  /\ apc = "idle" /\ apc' = "copy"
  /\ begun' = IF spc = "copy" THEN begun + 1 ELSE begun
  /\ torn' = (torn \/ (spc = "copy" /\ mWriteBlock % NumBlocks = mReadBlock % NumBlocks))
  /\ UNCHANGED <<appended, ring, left, spc, underrun, stale>>

BlockEnd ==
  /\ apc = "copy" /\ apc' = "idle"
  /\ mWriteBlock' = mWriteBlock + 1
  /\ UNCHANGED <<appended, mReadBlock, sound>>

\* The device calls back as long as it runs, also around stop().
DeviceBlock ==
  /\ mMode = "REAL_TIME"
  /\ \/ appended /\ mWriteBlock < MaxBlocks /\ BlockBegin
     \/ BlockEnd /\ UNCHANGED left
  /\ UNCHANGED <<mActive, mMode, gpc, mFrameNumber, queue, image, files, hvars>>

SoundLoop ==
  /\ spc = "loop" /\ spc' = IF mActive THEN "read" ELSE "done"
  /\ UNCHANGED <<mActive, mMode, gpc, mFrameNumber, queue, image, files, audio,
                 underrun, begun, torn, stale, hvars>>

\* Plausible bugs: the slot that is written next counts as read; no step back
\* to what the ring holds.
FaultFullRing == mWriteBlock - mReadBlock > NumBlocks
FaultNeverBehind == FALSE

Underrun == mWriteBlock - mReadBlock >= NumBlocks

\* Nothing to read, or the block to read is fixed: behind a whole ring, it is
\* the oldest there.
SoundRead ==
  /\ spc = "read"
  /\ IF mReadBlock = mWriteBlock
     THEN spc' = "loop" /\ UNCHANGED <<mReadBlock, underrun, begun, torn>>
     ELSE /\ spc' = "copy"
          /\ underrun' = Underrun
          /\ mReadBlock' = IF Underrun THEN mWriteBlock - NumBlocks ELSE mReadBlock
          /\ begun' = IF apc = "copy" THEN 1 ELSE 0
          /\ torn' = (apc = "copy" /\ mWriteBlock % NumBlocks = mReadBlock' % NumBlocks)
  /\ UNCHANGED <<mActive, mMode, gpc, mFrameNumber, queue, image, files, apc, appended,
                 mWriteBlock, left, stale, hvars>>

\* The block has been copied and goes to the file.
SoundWrite ==
  /\ spc = "copy" /\ spc' = "loop"
  /\ mReadBlock' = mReadBlock + 1
  /\ stale' = IF mReadBlock < first THEN stale + 1 ELSE stale
  /\ UNCHANGED <<mActive, mMode, gpc, mFrameNumber, queue, image, files, apc, appended,
                 mWriteBlock, left, underrun, begun, torn, hvars>>

-------------------------------------------------------------------------------
(***************************************************************************)
(* The drawing thread.                                                     *)
(***************************************************************************)
\* makePath(): the user's path, if path() was called, or a new one.
MakePath == mPath' \in {0, recordings + 1}
InUse(path) == \/ \E f \in disk : f[1] = path
               \/ \E i \in Writers : writer[i].path = path

SetMode(mode) ==
  /\ gpc = "idle" /\ ~mActive
  /\ mMode' = mode /\ mMode # mode
  /\ mode # "REAL_TIME" => apc = "idle"
  /\ UNCHANGED <<mActive, gpc, mFrameNumber, queue, image, files, audio, sound, hvars>>

\* The device is stopped for a recording that is not in real time, which waits
\* for its callback.  The positions in the ring stay where they are.
Start ==
  /\ gpc = "idle" /\ ~mActive /\ recordings < MaxRecordings
  /\ mActive' = TRUE
  /\ mFrameNumber' = 0
  /\ MakePath
  /\ spc' = "loop" /\ appended' = TRUE
  /\ drawn' = 0 /\ recordings' = recordings + 1 /\ first' = mWriteBlock /\ stale' = 0
  /\ mixed' = InUse(mPath')
  /\ UNCHANGED <<mMode, gpc, queue, image, writer, disk, apc, ring, left, underrun, begun,
                 torn>>

\* The sound file cannot be opened: the path and the frame number are new, and
\* nothing is recorded.
StartFails ==
  /\ gpc = "idle" /\ ~mActive /\ recordings < MaxRecordings
  /\ mFrameNumber' = 0
  /\ MakePath
  /\ recordings' = recordings + 1 /\ mixed' = TRUE
  /\ UNCHANGED <<mActive, mMode, gpc, queue, image, writer, disk, audio, sound, drawn, first>>

\* saveImage(): the frame in the current buffer, if the queue has been filled
\* once, is read back, and the new frame takes its place.
DrawFrame ==
  /\ gpc = "idle" /\ mActive /\ drawn < MaxFrames
  /\ image' = IF mReadPBO THEN pbo[mPBOIdx] ELSE None
  /\ gpc' = IF mReadPBO THEN "save" ELSE "audio"
  /\ pbo' = [pbo EXCEPT ![mPBOIdx] = drawn]
  /\ mPBOIdx' = (mPBOIdx + 1) % Npbos
  /\ mReadPBO' = (mReadPBO \/ mPBOIdx' = 0)
  /\ drawn' = drawn + 1
  /\ UNCHANGED <<mActive, mMode, mFrameNumber, files, audio, sound, recordings, mixed, first>>

\* saveScreenshot(): the frame on the screen, past the queue.
Screenshot ==
  /\ gpc = "idle" /\ recordings < MaxRecordings
  /\ MakePath
  /\ image' = drawn /\ gpc' = "shot"
  /\ recordings' = recordings + 1 /\ mixed' = TRUE
  /\ UNCHANGED <<mActive, mMode, mFrameNumber, queue, writer, disk, audio, sound, drawn, first>>

\* The first writer that is free takes the image; the thread waits for one.
Free(i) == writer[i] = Idle

SaveImage(i) ==
  /\ gpc \in {"save", "shot"}
  /\ Free(i) /\ \A j \in 1..i - 1 : ~Free(j)
  /\ writer' = [writer EXCEPT ![i] = [path |-> mPath, number |-> mFrameNumber, frame |-> image]]
  /\ gpc' = IF gpc = "save" THEN "audio" ELSE "idle"
  /\ mFrameNumber' = mFrameNumber + 1
  /\ image' = None
  /\ UNCHANGED <<mActive, mMode, queue, mPath, disk, audio, sound, hvars>>

\* ImageWriter::run()'s thread: the file is written, then mBusy cleared.
WriteFile(i) ==
  /\ ~Free(i)
  /\ disk' = {f \in disk : f[1] # writer[i].path \/ f[2] # writer[i].number}
               \cup {<<writer[i].path, writer[i].number, writer[i].frame>>}
  /\ writer' = [writer EXCEPT ![i] = Idle]
  /\ UNCHANGED <<mActive, mMode, gpc, mFrameNumber, queue, image, mPath, audio, sound, hvars>>

\* writeAudio(): the blocks of one frame, numbered as the images.
BlocksUntil(frame) == (frame * Beats) \div Frames

\* A plausible bug: every frame is given its blocks rounded by itself.
FaultRoundEach(frame) == BlocksUntil(1)

BlocksOf(frame) == BlocksUntil(frame + 1) - BlocksUntil(frame)

BeginAudio ==
  /\ gpc = "audio"
  /\ IF mMode = "REAL_TIME" THEN gpc' = "idle" /\ UNCHANGED left
                            ELSE gpc' = "process" /\ left' = BlocksOf(mFrameNumber)
  /\ UNCHANGED <<mActive, mMode, mFrameNumber, queue, image, files, apc, appended, ring, sound,
                 hvars>>

ProcessAudio ==
  /\ gpc = "process"
  /\ \/ left > 0 /\ BlockBegin /\ UNCHANGED gpc
     \/ BlockEnd /\ left' = left - 1 /\ UNCHANGED gpc
     \/ left = 0 /\ gpc' = "idle" /\ UNCHANGED <<audio, sound>>
  /\ UNCHANGED <<mActive, mMode, mFrameNumber, queue, image, files, hvars>>

\* A plausible bug: the queue is not reset.
FaultNoReset ==
  /\ gpc = "idle" /\ mActive
  /\ mActive' = FALSE /\ gpc' = "join"
  /\ UNCHANGED <<mMode, mFrameNumber, queue, image, files, audio, sound, hvars>>

\* stop(): with mActive cleared writeImage() returns at once, so that the queue
\* is reset and not emptied.
Stop ==
  /\ gpc = "idle" /\ mActive
  /\ mActive' = FALSE
  /\ pbo' = [i \in 0..Npbos - 1 |-> None] /\ mPBOIdx' = 0 /\ mReadPBO' = FALSE
  /\ gpc' = "join"
  /\ UNCHANGED <<mMode, mFrameNumber, image, files, audio, sound, hvars>>

StopJoin ==
  /\ gpc = "join" /\ spc = "done"
  /\ gpc' = "idle" /\ spc' = "none" /\ appended' = FALSE
  /\ UNCHANGED <<mActive, mMode, mFrameNumber, queue, image, files, apc, ring, left,
                 underrun, begun, torn, stale, hvars>>

SoundStep == SoundLoop \/ SoundRead \/ SoundWrite
GraphicsStep == \/ \E i \in Writers : SaveImage(i)
                \/ BeginAudio \/ ProcessAudio \/ StopJoin

Next ==
  \/ DeviceBlock \/ SoundStep \/ GraphicsStep
  \/ \E i \in Writers : WriteFile(i)
  \/ \E mode \in {"REAL_TIME", "NON_REAL_TIME"} : SetMode(mode)
  \/ Start \/ StartFails \/ DrawFrame \/ Screenshot \/ Stop

Spec == Init /\ [][Next]_vars

-------------------------------------------------------------------------------
\* When a recording is over and its writers have finished, the images in its
\* directory are a beginning of what was drawn: no frame is missing between two
\* others, each has the number it was drawn at, none is of another recording,
\* and what is missing at the end is no more than the queue holds.  (Unless a
\* screenshot took a number, or the directory was in use when the recording
\* began.)
Over == ~mActive /\ gpc = "idle" /\ \A i \in Writers : Free(i)
Images == {f \in disk : f[1] = mPath}
FirstFrames(k) == {<<mPath, n, n>> : n \in 0..k - 1}

FramesAreInOrder ==
  Over /\ ~mixed => \E k \in 0..drawn : k + Npbos >= drawn /\ Images = FirstFrames(k)

\* Out of real time the blocks that have been processed stay with the frames
\* that have been drawn, although the frame number lags behind them: they are
\* never ahead, and behind by less than Npbos, however long the recording.
AudioKeepsPace ==
  mActive /\ mMode = "NON_REAL_TIME" /\ gpc = "idle" /\ ~mixed
    => BlocksUntil(drawn) - (mWriteBlock - first) \in 0..Npbos - 1

\* A block whose reading reported no underrun was not written over while it was
\* copied, unless two blocks came in the meantime.
GoodReadIsWhole == spc = "copy" /\ ~underrun /\ begun <= 1 => ~torn

\* A sound file begins with what the recording before it left in the ring, but
\* with no more than the ring holds.
StaleFitsRing == stale <= NumBlocks

-------------------------------------------------------------------------------
\* What a comment says and TLC refutes: al_RenderToDisk.cpp:205 "Empty and reset
\* PBO queue", so that every frame drawn is saved.  (stop() clears mActive first,
\* and writeImage() then does nothing.)
QueueIsEmptied == Over /\ ~mixed => Images = FirstFrames(drawn)
===============================================================================
