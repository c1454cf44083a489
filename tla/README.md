# AlloSystem: a verification project

AlloSystem is a set of C++ libraries for multimedia instruments: `allocore`
(windows, audio, OSC, timing, presets), `alloutil`, `alloaudio`, `alloGLV` and
a few device bindings. Most of the code is signal processing, rendering and
device I/O. What is hard in it is concurrency: queues shared by audio, graphics
and network threads, worker threads driven by condition variables, and
schedulers that call back into themselves. This directory models that part in
TLA+, checks it with TLC and proves about it with TLAPS.

## 1. The system

### Components with state of their own

| Component | Source (`src/`...) | State | Operations | Modelled |
|---|---|---|---|---|
| `SingleRWRingBuffer` | `allocore/allocore/types/al_SingleRWRingBuffer.hpp` | `mData`, `mRead`, `mWrite` | `write`, `read`, `peek`, `clear`, the two spaces | yes |
| `MsgTube` | `allocore/allocore/types/al_MsgTube.hpp` | a ring, `cacheq`, `now` | `send`, `send_data`, `executeUntil` | yes |
| `MsgQueue` | `allocore/src/types/al_MsgQueue.cpp` | linked queue and pool, `mLen`, `mNow` | `sched`/`send`, `update`, `clear` | yes |
| `PresetHandler` (morph) | `allocore/src/ui/al_Preset.cpp` | `mTargetValues`, `mMorphRemainingSteps`, two locks, a condition variable, the morph thread | `recallPreset`, `recallPresetSynchronous`, `setInterpolatedPreset`, `morphTo`, `stopMorph`, destruction | yes |
| `PresetHandler` (store) | same | `mPresetsMap`, files | `storePreset`, preset maps | no |
| `PresetSequencer` | `allocore/src/ui/al_PresetSequencer.cpp` | `mSteps`, `mRunning`, `mSequencerThread`, two locks, a condition variable | `playSequence`, `stopSequence`, `clearSteps`, `appendStep`, playback thread, destruction | yes, without archives and OSC |
| `Composition` | `allocore/src/ui/al_Composition.cpp` | steps, `mPlaying`, `mPlayerLock`, playback thread, the sequencer's end callback | `play`, `stop`, `playArchive`, `size`, `getStep`, playback thread | yes, without files and OSC |
| `SequenceRecorder` | `allocore/src/ui/al_SequenceRecorder.cpp` | `mRecording`, `mOverwrite`, `mPresetName`, recorder thread, files | `startRecord`, `stopRecord`, `presetChanged`, recorder thread | yes, without OSC |
| `PolySynth`, `SynthSequencer` | `allocore/allocore/ui/al_SynthSequencer.hpp` | three linked lists of voices, locks, events, the time | `triggerOn`, `getVoice`, `allocatePolyphony`, `add`, both `render` functions | yes, with the audio thread as time master |
| `Parameter...`, `ParameterServer`, `OSCNotifier` | `allocore/allocore/ui/al_Parameter.hpp`, `allocore/src/ui/al_Parameter.cpp` | value, cached value, mutex, listeners | `set`, `setNoCalls`, `get`, change callbacks, `addListener` | yes, without registration and dispatch |
| `PresetServer`, `SequenceServer` | `al_Preset.cpp`, `al_PresetSequencer.cpp` | registered objects, listeners | dispatch, notify | no |
| `SoundFileBuffered` | `alloaudio/src/al_SoundfileBuffered.cpp` | a ring, `mSeek`, reader thread, the file's position | `read`, `seek`, reader thread, destruction | yes |
| `RenderToDisk` | `allocore/src/io/al_RenderToDisk.cpp` | a queue of pixel buffers, image writers, `mAudioRing`, sound file thread | `mode`, `start`, `stop`, `saveScreenshot`, a frame, an audio block | yes, for a window with audio |
| `OutputMaster` | `alloaudio/src/al_OutputMaster.cpp` | a `MsgQueue`, meter lock and thread | set parameters, process, meter | no |
| `Main`, window scheduling | `allocore/src/system/al_MainLoop.cpp`, `allocore/src/io/al_WindowSDL.cpp`, `al_WindowGLUT.cpp` | handlers, a `MsgQueue`, `mScheduled` | tick, start, stop, draw | no |
| `Thread`, `PeriodicThread`, `Watcher`, `ResourceManager` | `allocore/src/system/`, `alloutil/` | flags, sets | start, stop, notify, reload | no |

Left out for good: audio, MIDI, serial, HID, Bluetooth, video and socket layers
(their state is the device's), OSC encoding, file and HTML generation, real
arithmetic (graphics, math, spatialization, filters, Ambisonics, `HashSpace`),
`App` and `OmniApp` (wiring), the vendored libraries, and `FileWatcher`, whose
polling uses a main-loop interface the repository no longer has.

### Interaction

- `MsgTube` writes to and reads from a `SingleRWRingBuffer`; producer and
  consumer are different threads (`MsgTube` in this project takes from the ring
  model that it is an atomic bounded queue).
- `Main::tick()` and the audio callback of `OutputMaster` call
  `MsgQueue::update()`, which calls messages that call the queue again.
- `PresetSequencer`'s playback thread calls `PresetHandler::recallPreset()`
  and `stopMorph()`; the handler's own thread moves the parameters.
  `Composition` drives a sequencer and takes over its end callback;
  `SequenceRecorder` listens to the handler.
- `SoundFileBuffered` reads ahead into a `SingleRWRingBuffer` and is woken by
  the audio callback that reads from it.
- `RenderToDisk` is called by the window for each frame and by the audio device
  for each block, and feeds threads that write files.
- A parameter calls back the `ParameterServer`, which tells its listeners.
- The servers call all of these from the OSC thread while the application calls
  them from its own.

### What is hard, and what makes each component correct

- *Ring*: two threads, no lock. Stale indices must err on the safe side, the
  two `memcpy` calls must never overlap, and bytes must come out in order.
- *Tube*: two routes (ring and cache) must keep one order; nothing may be
  truncated; the cache must drain.
- *Queue*: re-entrant messages must not lose or reuse a cell, `mTail` is stale
  after a drain, equal timestamps keep their order.
- *Morph*: a counter, two locks and a condition variable without a predicate. A
  recall must end exactly on the preset, a stop must hold, the target map is
  replaced without a lock.
- *Sequencer*: a thread ends by itself or is stopped; there must be one engine,
  a stop must leave silence, every call must return.
- *Composition*: the end of the composition must be reported once, by the
  playback thread or by the sequencer, and the user's end callback put back.
- *Recorder*: one step per change of preset, no file overwritten unasked, a stop
  that returns.
- *Voices*: three lists share one link per voice; the audio thread may only try
  its locks and must lose no voice when it fails; events start at their time, to
  within a frame.
- *Sound file*: the buffers hold what is read, frames follow one another across
  the end of the file and across seeks, and playback does not run dry.
- *Rendering*: frames are saved under their own numbers, audio stays with the
  frames, a block is not overwritten while it is read.
- *Parameters*: listeners and callers see values that do not go back.

`PROJECT.json` lists the hazards at their lines. Further ones, which no property
covers: two threads that play or stop a sequencer at once
(`al_PresetSequencer.cpp:47`), a callback that does so from the sequencer's own
thread (`:50`), destruction during the end callback
(`al_PresetSequencer.hpp:111`); two threads that recall at once
(`al_Preset.cpp:154`); `storePreset(name)` on an empty map (`:107`) and preset
maps written and read at different paths (`:431`); an empty pool
(`al_MsgQueue.cpp:58`); `al_SynthSequencer.hpp:190` (the same voice triggered
twice); `al_Parameter.cpp:201,225,249` (erase while iterating) and `:265`
(callbacks under the lock); `al_OutputMaster.cpp:344` (wait without predicate);
`al_WindowSDL.cpp:79,293` and `al_WindowGLUT.cpp:87` (several chains of draws);
`al_MainLoop.cpp:209` (handlers removed while iterating);
`al_PeriodicThread.cpp:72` (stop from the thread itself); `al_Watcher.cpp:32`;
`al_SingleRWRingBuffer.hpp:108` (size 0 or above 2^31); `al_MsgTube.hpp:97,245`
(no cache limit, a leaked copy).

## 2. Modules

| Module | Models | State and actions |
|---|---|---|
| `BoundedFifo` | the promise of a byte queue | `input`, `queue`, `got`; `Offer`, `Put`, `Get`, `Peek`, `Drop` |
| `SingleRWRingBuffer` | the ring | one variable per member and per local that lives across a step; a call is a clamp step (`WriteCall`, `ReadCall`, `ClearCall`), one step per byte (`StoreByte`, `LoadByte`, any order) and an index store (`WritePublish`, `ReadReturn`, `ClearStore`) |
| `SingleRWRingBuffer_proofs` | theorems about it and about `SoundFileBuffered`, which reads ahead into a ring | |
| `MsgTube` | the tube | producer: `Send`, the rounds of `flushCache()` (`FlushOne`, `FlushFails`, `FlushDone`), `WriteDirect`; consumer: `ExecuteUntil`, `TakeDue`, `CallReturn`, `ExecuteReturn` |
| `MsgTube_proofs` | theorems about it | |
| `TimedQueue` | the promise of a scheduler of timed calls | an ordered queue, the stack of running updates, the clock |
| `MsgQueue` | the scheduler | the cells and pointers of the code; `sched()` has one action for each of its four insertion paths; `Update`, `CallHead`, `CallReturn`, `UpdateReturn` let a message call anything in between |
| `MsgQueue_proofs` | theorems about it | |
| `PresetMorph` | the handler and its morph thread | `Thread...` actions for `morphingFunction()`, the others for the clients' calls, split at every lock, store of the atomic counter and notification |
| `PresetMorph_proofs` | theorems about it | |
| `PresetSequencer` | the sequencer | `sequencerFunction()` as the actions of `Run`, the calls as those of `Continue` |
| `PresetSequencer_proofs` | theorems about it | |
| `Composition` | the composition over a sequencer | the sequencer reduced to what `PresetSequencer` is checked to promise (`SequenceEnd`, `LookAtCallback`, `waitForSequencerCallback`); `Thread...` for `playbackThread()`, one action per lock, test and callback; the client's calls as those of `Continue` |
| `SequenceRecorder` | the recorder | `Loop`, `Wait`, `Awake`, `Record`, `Write` of the thread; `StopClear`, `StopNotify`, `StopJoin`, `Spawn` of the calls; `PresetChanged` by anyone |
| `PolySynth` | voices | `next` and the three heads as in the code; the sweep voice by voice (`SweepActive`, `SweepInside`, `SweepHead`), the graphics walk voice by voice; `print()` as its two locks |
| `SynthSequencer` | events over `PolySynth` | extends it: `Add`, `BlockBegin` (which advances the time), `TriggerEvent` (which truncates the offset), and the frame offset that the first rendering takes |
| `SynthSequencer_proofs` | theorems about both | |
| `SoundFileBuffered` | reading ahead | its specification is `ReaderSpec`; one action for each access of `readFunction()` to the ring, the file or `mSeek` |
| `RenderToDisk` | recording | images: `DrawFrame`, `SaveImage`, `WriteFile`; audio: `BlockBegin`/`BlockEnd` around a copy into the ring, `SoundRead`/`SoundWrite` around a copy out of it; `Start`, `StartFails` (the sound file does not open), `Stop`, `StopJoin`, `Screenshot` |
| `RenderToDisk_proofs` | theorems about it | |
| `ParameterServer` | one parameter and its listeners | `StoreLock`/`Store` of `set()`, `TryLock`/`Cache`/`Get` of `get()`, `NotifyLock`/`Send`/`NotifyUnlock` of a notification |
| `PresetTools_proofs` | theorems about `Composition`, `SequenceRecorder` and `ParameterServer` | the first is extended, the other two are instances |

`MC<module>` and its `.cfg` files are the TLC instances. Operators named
`Fault...` are plausible bugs (a dropped guard, an early publish, a missing
wait). The specifications do not use them: they stand for what each property would
catch.

Abstractions. Values of parameters are the preset they came from, the pair of
presets they were interpolated from, or `Between`: this tells "on the target",
"half way" and "on another target" apart without numbers. The wait times of
steps are left out: a wait may end at any moment, which covers every duration,
and the poll of `mRunning` in it. Callbacks of the sequencer do
not call it back. The step counter is followed down to `-MaxIdleWakes` (all
negative values behave alike). Condition variables may wake spuriously.
`MsgTube` messages have an identity that is reused once the message has been
executed; their size is the number of bytes including the header. The sizes 3
and 4 in a ring of 8 (7 bytes of space) make both boundaries happen: beside a
message of either size the other one fits exactly (`size = writeSpace`, refused by
`flushCache()` and accepted by `writeData()`), and beside both nothing does. The
size `memsize - 1`, which fits an empty ring exactly, has a configuration of its own
(`MCMsgTubeFull.cfg`). The ring is modelled for builds that keep a thread's stores in
program order; its indices are plain `size_t`, and a weakly ordered build could publish
an index before the bytes (the mutant `FaultEarlyPublish` shows the result).
In `RenderToDisk` too, stores are seen in program order.

In `PolySynth` voices are never deleted, as in the code; a client triggers a
voice it has just got, and `getVoice()` always allocates, because line 215
compares the `typeid` of a pointer, which no voice has. `print()` is there for
its locks: it can be called without end, while voices, never used again, run out.
Times of events are counted in ticks, `Ticks` to a frame. Where the code
computes with doubles (the sum that advances the time at each block, lines 436-439,
and the product that line 523 truncates to an `int`) the model takes any result
within `Rounding` ticks of the exact one, which may be any amount below half a
frame; comparisons of times are exact, as in the code. The time is not followed once the last
event has been triggered, because nothing reads it then (`EventsLeft`).
The graphics walk shows one voice at each step (`FrameBegin`, `DrawVoice`).
In `SoundFileBuffered` frames are counted and the ring is the queue that
`SingleRWRingBuffer` is shown to implement. In `RenderToDisk` blocks and frames
are numbers; the ratio of a frame's duration to a block's is `Beats / Frames`,
exact where the code has a double; the device is stopped outside of real time
(`start()` waits for its callback). In `Composition` the durations of steps are
left out and files may have any of `Sizes` steps. A `SequenceRecorder` file is the
number of its steps. In `ParameterServer` a value is the number of times the
parameter has been stored.

## 3. Runs

| Run | Instance | Shows |
|---|---|---|
| `ring` | 4 slots, 2 byte values, requests of up to 4 bytes | `StaleSpaceIsSafe`, `NoOverlap`, and that the interleaved copies implement `BoundedFifo` |
| `msg_tube` | ring of 8, sizes 3 and 4, 3 messages inside, 2 timestamps | `SentOrderKept`, `RingNeverTruncates`, `DueMessagesRun`; `CacheDrainsWhileSending` |
| `msg_queue` | 4 cells, 2 timestamps, updates nested 2 deep | `CellsConserved`, `TailIsLast`, `UpdateDrainsDue`, and that the lists implement `TimedQueue` |
| `preset_morph` | 1 client, 2 parameters, presets {x, y} and {x}, up to 3 rounds | `TargetsNotRaced`, `MorphEndsOnTarget`, `StopHolds`, `RecallApplied`; `DestructorReturns` unless its notification is missed or it takes `mMorphLock` first |
| `sequencer` | 1 client, 2 threads, sequences of 0 to 2 steps | `SingleEngine`, `QuietAfterStop`, `CallsReturn` |
| `synth` | 3 voices, 1 client, audio and graphics threads, blocks of 1 frame of 3 ticks, roundings of up to 1 tick, an event at tick 3 | `ListsConserved`, `SweepLeavesAtMostOne`, `EventsSoundWithinAFrame`; `NotesComeAndGo` |
| `composition` | 1 client, compositions of 0 to 2 steps, 3 sequencer threads | `EndIsReported`, `QuietAfterStop`; `CallsReturn` but for the calls in `Hangs` |
| `recorder` | up to 3 steps, 2 file names, files that may not open | `EveryStepIsAChange`, `EarlierFilesKept`; `StopReturns` |
| `sound_file` | a looped file of 5 frames, a ring of 3, reads of 1 and 2, seeks to 0 and 3 | `ChunkFits`, `FramesFollow`; `SeekIsCarriedOut`, `PlaybackGoesOn` |
| `render` | 2 pixel buffers, 2 writers, a ring of 2 blocks, 2 blocks in 3 frames, 5 frames, 2 recordings or screenshots | `FramesAreInOrder`, `AudioKeepsPace`, `GoodReadIsWhole`, `StaleFitsRing` |

Why the bounds are enough. Four slots make both indices wrap and let a request
be larger than the space, equal to it and split at the end of the array. Two
message sizes in a ring of eight leave 7, 4, 3, 1 or 0 bytes of space: a message
meets a space larger than it, equal to it and smaller, and a cached message may
fit where a new one does not. Four
cells allow every insertion path, an empty pool, and a message that schedules
another while a third waits; two timestamps give equal and different times.
One preset without a value for a parameter is what a file with fewer
parameters gives. Two playback threads allow one that ends by itself, still in
its end callback, beside the next one; identities are reused once a thread is
gone, so the number of plays is not bounded. Three voices allow each of the
lists to have two members while a third voice moves. With blocks of one frame of
three ticks and roundings of one, an event at tick 3 is at the boundary of two
blocks: it is triggered in either, and in the first with an offset of the whole
block or of one frame less. That is where the two
bounds of `processEvents()` and the truncation matter; that several events in any
order keep theirs is proved, not run. Compositions of two steps stop a sequence that plays
in the middle and end with one that does; the third sequencer thread is an
ended one that still reports. Five frames against a ring of three make every
chunk end inside the file, at its end or behind it. With two pixel buffers and
five frames the queue fills, goes round and is left with two frames; two
recordings of which the second finds the first's blocks in a ring of two
allow none, one and two of them; the ratio 2/3 makes the rounding differ between
frames. `MaxBlocks` lets the ring be overrun by a whole round.

Fairness. Threads that are able to run are scheduled (weak fairness of the
thread and of the calls in progress); a consumer of a tube keeps polling with
a time that passes every timestamp (strong fairness, as its call is possible
again and again, not continuously), which is what an audio or graphics callback
does. No fairness is assumed of a `try_lock()`: `NotesComeAndGo` states as
premises that insertions find their lock free now and then
(`InsertionsSucceed`), for its first half, and that the clients fall silent in the end
(`ClientsFallSilent`), for its second. Both are needed: a client can hold a lock at
every block by calling `print()`, and without the premise TLC shows a voice that is
never inserted, or one that is never freed. The bound on voices does not hide this,
as it does not bound these calls. The audio callback of a synth or a buffered sound file keeps being
called. Nobody is obliged to call anything, to send again, or to wake a condition
variable spuriously. `CHECK_DEADLOCK FALSE` appears where the object can be
destroyed and the system then stops.

Disagreements between the code and what its comments say. Two are runs whose
property TLC violates (`PROJECT.json` quotes the lines):

| Run | What the code does |
|---|---|
| `sequencer_stopped` | a sequence stopped in its last step reports that it ended naturally |
| `parameter_listeners` | `setNoCalls()` with a receiver sends the listeners the value from before the call, and they keep it |

The others are stated in the last section of their module. TLC refutes them too:
run the `MC` module with the configuration in brackets, or, where none is named, with a
copy of the module's own in which the property replaces the others:

| Property | What the code does |
|---|---|
| `QueueIsEmptied` (`MCRenderToDiskStopped.cfg`) | `stop()` clears `mActive` (line 202) before it empties the queue of pixel buffers, as the comment of `al_RenderToDisk.cpp:205` says, with `writeImage()`, which then does nothing: the last `Npbos` frames are lost |
| `CachesOnlyWhenRingIsFull` (`MCMsgTubeFull.cfg`) | a message is cached although the oldest one waiting fits exactly: line 224 of `al_MsgTube.hpp` refuses what line 240 accepts, and a message of `memsize - 1` bytes that has been cached never leaves |
| `ChunkFitsFileBuffer` (`MCSoundFileBufferedRounded.cfg`) | the ring is larger than `bufferFrames` when their bytes are not a power of two, and the reader fills it through a buffer of `bufferFrames`, which it overruns |
| `EveryRecallApplied` (`PresetMorph`) | a recall notified before the morph thread sleeps is not applied |
| `InterpolationApplied` (`PresetMorph`) | `setInterpolatedPreset()` gives the thread no steps: nothing moves |
| `StopLeavesValuesBetween` (`PresetMorph`) | a stop in the middle of a round makes parameters jump to the target |
| `LenCountsScheduled` (`MsgQueue`) | `len()` forgets a message scheduled by a running one (`al_MsgQueue.cpp:83`) |

What the passing runs state as exceptions was met in the same way:
`DestructorReturns` names the two ways in which `~PresetHandler()` waits for
ever; `Hangs` names the calls of `Composition` that do (`play()` without steps,
`getStep()` of a positive index, `playArchive()` before the thread has the lock);
`overtaken` the windows in which the end of a composition is reported twice or
never; `StopReturns` that `stopRecord()` may need one more change of preset;
`FramesFollow` and `SeekIsCarriedOut` the chunk in which a seek meets the end of
the file, and a seek that is withdrawn with an older one; `GoodReadIsWhole` two
blocks that arrive during one copy; `StaleFitsRing` that a sound file begins
with blocks of the one before; `SweepLeavesAtMostOne` that the voice which becomes
the head of the list is passed over; `FramesAreInOrder` that frames may be missing at
the end. In `PROJECT.json` the hazards that these exceptions stand for name no
property, or say what the one they name leaves out. Only a later send flushes the tube's cache: a
producer that falls silent leaves messages behind. Two threads that call a
sequencer at once can start two engines (`SingleEngine` is checked with one
client). A sequence that ended naturally reports a stop when `appendStep()`
runs between the unlock and the callback (`al_PresetSequencer.cpp:207-209`).
The graphics walk of `PolySynth` follows a voice that is swept meanwhile on to
the list of free ones. Two overlapping `set()` calls, or a `get()` that finds the
mutex taken, may leave listeners with the older value.

## 4. Proofs

`SingleRWRingBuffer_proofs` proves for every ring size, byte type and request
size:

- `TypeCorrect`: `Spec => []TypeOK`,
- `StaleSpaceSafe`: `Spec => []StaleSpaceIsSafe`,
- `CopiesNeverOverlap`: `Spec => []NoOverlap`,
- `RingIsFifo`: `Spec => ImplementsFifo`, the refinement of `BoundedFifo`.

Assumptions: `SizeAssumption` (at least one slot) and `MaxReqAssumption`. That
the size is a power of two is not needed, because `& mWrap` is modelled as the remainder
it then is.

Argument. `TypeOK` alone is not inductive: that the stored index stays in the
array follows from the clamped length of the call, and that this length is still
within the space when the other thread has moved its index is
`StaleSpaceIsSafe`. The invariant is their conjunction `IInv`. The lemmas
`WrapValue`, `AheadValue`, `SpacesShareTheRing`, `AdvanceEnd` and
`AdvanceStart` turn the modulus into cases; one lemma per group of actions
then shows that the writer's steps never change what the reader has seen except
by adding to it, and conversely. `NoOverlap` follows from the invariant: the
slots still to be stored lie in the free part, those being read in the filled
part, and the two parts share no slot. For the refinement the invariant gains
`CopiedSoFar`: the bytes already copied are where `Contents` will look for them
once the index moves, and the bytes already loaded are still the oldest ones in
the ring. `WritePublish` is then the abstract `Put`, the reader's index stores
are `Get` and `Drop`, and the byte copies are stutters.

`MsgTube_proofs` proves for every ring size, message sizes, identities and
timestamps:

- `MessagesKeepSentOrder`: `Spec => []SentOrderKept`,
- `RingHoldsWholeMessages`: `Spec => []RingNeverTruncates`,
- `NothingDueIsLeft`: `Spec => DueMessagesRun`,
- `FullSizeAloneIsStuck`: `Spec => OnlyFullSizeIsStuck`: the cache grows beside
  an empty ring only behind a message of exactly `MemSize - 1` bytes.

`IInv` adds to the first two `Places` (which message a thread holds at each
place, and that a message goes straight to the ring only while the cache is
empty: this is why the two routes keep one order), `WaitingFits` (what
`send_data()` has refused never waits) and `SentInTimeOrder` (timestamps do not
decrease, so that the first message that is not due ends `executeUntil()`). The
last theorem is about the boundary of the code that `MCMsgTubeFull.cfg` shows:
`writeData()` accepts a message of `memsize - 1` bytes, `flushCache()` never moves
one. For every smaller message an empty ring is room enough, so what waits
behind it waits for the consumer alone. No run lists it.

`MsgQueue_proofs` proves for any number of cells, timestamps and any nesting:

- `EveryCellInOnePlace`: `Spec => []CellsConserved`,
- `TailIsRightWhereUsed`: `Spec => []TailIsLast`,
- `UpdatesDrain`: `Spec => UpdateDrainsDue`,
- `QueueIsTimedQueue`: `Spec => ImplementsTimedQueue`, the refinement.

The invariant says that there are two sequences of cells, the queue and the
pool (`Held`: the links from `mHead` and `mPool` spell them out), that share no
cell with each other or with the running messages (`Apart`), that together
hold every cell (`Placed`), and of which the first is in the order of time, with
`mTail` its last cell unless it is empty (`InOrder`). All four paths of
`sched()` are shown to be one insertion `Inserted(q, i, at)`, behind the
messages due no later: the walk of the third path finds that place because the
queue is ordered. In the refinement the two sequences are what `Chain` returns
(`ChainIs`), each of the seven operations maps to the abstract one, and a
returning message or `recycle()` changes nothing the abstract queue can see.

What `Bytes`, `Chain` and `WalkFrom` compute is proved without induction
theorems: such a definition chooses a function that satisfies its equations, the
smallest index at which a claim about it fails is shown not to exist (`SmallestNat`
from well-foundedness, `UpTo`), and the same argument gives that a function
satisfying the equations exists at all.

`PresetMorph_proofs` proves, for one client and any parameters, presets, stored
values, morph lengths and idle wake-ups:

- `TargetsSafe`: `Spec => []TargetsNotRaced`,
- `StopIsFinal`: `Spec => StopHolds`,
- `MorphsArrive`: `Spec => []MorphEndsOnTarget`.

None is inductive. The handler's discipline is that a client first
makes the counter negative and then passes through an empty critical section,
so `IInv` says where `mTargetLock` is held (`LockHeld`), that the counter is
negative for a client past that point (`Cancelled`), and that a round that goes
on with a negative counter has a client still waiting for the lock
(`RoundIsWatched`): when that client gets the lock, the round is over, and no
new one starts on a negative counter. `StoppedQuietly` keeps this true after a
stop. `MorphsArrive` needs two more facts about the parameters themselves: what
a call has put in the target map is its preset (`CallData`), and from the moment
the counter is at zero every parameter already passed in the round is on the
preset (`LastRoundArrives`), so that none is left when the round is over. With
two clients all of it fails (one stores the step count while the other
replaces the map), which is why the hypothesis `OneClient` is stated and not
an assumption of the module.

`PresetSequencer_proofs` proves, for any number of playback threads, sequences
and steps:

- `OneEngine`: `Spec => []SingleEngine`, for one client,
- `StopIsQuiet`: `Spec => []QuietAfterStop`, for one client,
- `TypeCorrect`: `Spec => []TypeOK`, for any number of clients.

For the first two the invariant follows a stop through its stages: a thread
that may play, or has yet to clear `mRunning`, is the one the sequencer points
to or the one being joined (`LiveIsKnown`); from the join on there is none
(`StopProgress`), and none either when the flag is found false by a call
(`IdleIsDead`), although the thread that cleared it may still be in its end
callback; a morph goes on only while a thread plays (`MorphIsPlayed`). A
thread counts as live until it has cleared `mRunning`, which is what makes safe
a stop that finds the flag false and joins nothing. `TypeCorrect`
needs `StepsAreLocked`: `mSequenceLock` is held for the whole loop, so the step
that is being played is still there when it is popped.

Assumptions of these modules: `StoredAssumption`, `BoundsAssumption`,
`SequencesAssumption`, `MaxStepsAssumption`, and `NoneAssumption` (the value
that stands for "nobody" is no thread and no client).

`RenderToDisk_proofs` proves, for any number of pixel buffers, writers, frames
and recordings, any ring of at least two blocks and any ratio of the rates:

- `FramesAreSavedInOrder`: `Spec => []FramesAreInOrder`,
- `SoundKeepsPace`: `Spec => []AudioKeepsPace`,
- `GoodReads`: `Spec => []GoodReadIsWhole`,
- `StaleBlocksFit`: `Spec => []StaleFitsRing`.

For the images the invariant says where each frame of the recording is: the
last ones in the pixel buffer whose index is the frame modulo `Npbos`, one in
`mPixels`, at most one per writer, the others on disk, all under their own
number; `mFrameNumber` lags behind `drawn` by what the queue holds. `SoundKeepsPace`
rests on it: the truncated products telescope, and at most `Npbos - 1` frames'
blocks are outstanding. The proofs about the ring need that the reader's position
never passes the writer's and that no more than a whole round lies between the
block being read and the one being written without an underrun being reported.

`SingleRWRingBuffer_proofs` also proves about `SoundFileBuffered`, for any file,
seeks, reads and size of the ring (`RingFrames \in Nat`), the theorems `ChunksFit`
(`ReaderSpec => []ChunkFits`) and `FramesAlwaysFollow` (`ReaderSpec =>
FramesFollow`). The invariant bounds `framesRead` by `framesToRead` and that by
the ring's free space, which the audio thread only increases, and ties
`position` to the last frame read. That a chunk also fits `mFileBuffer` is not a
theorem: it is false when the ring has been rounded up (`ChunkFitsFileBuffer`).

`SynthSequencer_proofs` proves, for any number of voices, clients, events, frames
per block, ticks per frame and any rounding of less than half a frame:

- `NoVoiceIsLost`: `Spec => []ListsConserved`,
- `SweepIsAlmostComplete`: `Spec => SweepLeavesAtMostOne`,
- `EventsSoundInTime`: `Spec => EventsSoundWithinAFrame`.

The invariant says that there are three sequences of voices, the inserting, the
active and the free ones: the links spell them out (`Held`), no voice is twice
on them or in a client's hand or waiting for its event (`Apart`, `Owned`). A splice
joins two of them, a sweep moves a voice from the second to the third, a push and
`allocatePolyphony()` put one at an end. `Walking` says where in the second
sequence the audio thread is, which is what makes the links it stores the right
ones; `Swept` that every voice it has passed was active when the sweep began,
except the one that became the head without being looked at. It can be only one, for the
head is not replaced again. `OnTime` says in which block and with which offset an
event is waiting, sounding or still held back; it needs that the events are in
order and none is overdue (`Timetable`, `NoneOverdue`), which is where
`Position` and the two bounds of `processEvents()` matter. With a rounded clock
an offset is not a function of the event: `Near` says how far the frame it stands
for may lie from the event's time, `TruncatedIs` what the conversion to `int` does to it
(also to a product rounded below zero, which becomes zero). What `Walk` and
`Members` compute on such a sequence is proved as for `Chain` (`WalkIs`,
`MembersAre`). The assumptions are `VoiceAssumption` (finitely many voices),
`FramesAssumption` (a block has a frame) and `TicksAssumption` (two roundings are
less than a frame).

`PresetTools_proofs` proves about three components, each for any number of
threads, files, steps and listeners:

- `EndReportedOnce`: `Spec => []EndIsReported` and `CompositionStops`: `Spec =>
  QuietAfterStop` of `Composition`;
- `StepsAreChanges`: `EveryStepIsAChange` and `FilesAreKept`: `EarlierFilesKept`
  of `SequenceRecorder`, with `MaxFiles \in Nat`;
- `ListenersAlwaysAgree` (between notifications all listeners have been sent the
  same value) and `GetIsMonotonic` (no thread gets a value older than one it got
  before) of `ParameterServer`. No run lists these two; the run of that module
  is the violated one.

For the composition, `OneEngine` says that a playing thread is the one the sequencer
points to or is being joined with it, and that none plays while the
composition is about to start one. `EndsOnce` follows the end callback: it is the
composition's only while one sequencer thread exists, which is on its way to it;
the user's is in the cache; nothing is reported before the last sequence ends. It holds
until a sequence ends in a window (`overtaken`), as the run does. For the recorder,
`NameIsLeft` says that a recording which may not overwrite still has
a free name (the bound `MaxFiles`) and that `mOverwrite` is the argument it was
started with; `WokenBy` says who woke the thread. The smallest free
number exists by well-foundedness (`FileNameIsFree`).

Every safety property of the passing runs is thus stated by a theorem. Only
model-checked is liveness under fairness, which is out of the prover's reach: `CacheDrainsWhileSending`,
`DestructorReturns`, `RecallApplied`, the two `CallsReturn`, `NotesComeAndGo`,
`StopReturns`, `SeekIsCarriedOut` and `PlaybackGoesOn`.

## 5. Not modelled, and what would come next

`PROJECT.json` lists every component with its reason. In this order, what is
worth adding:

1. `OutputMaster` over `TimedQueue`: the OSC thread schedules in a queue that
   the audio thread updates (`al_OutputMaster.cpp:379` and `:142`).
2. `WindowDraw`: one chain of draws per window over `Main` and `TimedQueue`.
3. `PresetStore` and the servers: registration while messages are dispatched.
4. `PeriodicThread`, `Watcher`, `ResourceManager`.
5. Recordings with only a window or only audio in `RenderToDisk`, the destructor of
   `Composition`, `TIME_MASTER_GRAPHICS`.

Theorems worth proving next: that `TimedQueue` keeps its queue in order of time;
that `Composition`'s reduced sequencer is implemented by `PresetSequencer`.

Most of the repository's lines are device layers, rendering, numeric code and
vendored libraries, where there is no protocol to check.
