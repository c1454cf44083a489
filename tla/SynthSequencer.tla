----------------------------- MODULE SynthSequencer -----------------------------
(***************************************************************************)
(* al::SynthSequencer: a PolySynth whose audio thread first triggers the   *)
(* events that are due.  Events are added before the audio starts, as the  *)
(* comment of add() demands, and other threads trigger voices of the       *)
(* PolySynth on the fly.                                                   *)
(*                                                                         *)
(* The times are doubles in the code, in seconds.  Here a frame is a       *)
(* number of ticks, and what is computed with doubles may come out some    *)
(* ticks off either way: each sum that makes the time of the next block,   *)
(* and each product that is truncated to a frame of the block.             *)
(***************************************************************************)
EXTENDS PolySynth, SequencesExt

CONSTANTS
  FramesPerBuffer,
  Ticks,             \* ticks in a frame
  Rounding,          \* the ticks that an operation on doubles may be off
  StartTimes,        \* the times, in ticks, an event can be added at
  MaxEvents          \* bound: events added

ASSUME FramesAssumption == FramesPerBuffer \in Nat \ {0} /\ StartTimes \subseteq Nat
\* A rounding is much less than a frame.
ASSUME TicksAssumption == Ticks \in Nat /\ Rounding \in Nat /\ 2 * Rounding < Ticks

timeIncrement == FramesPerBuffer * Ticks
Rounded(t) == t - Rounding..t + Rounding

VARIABLES
  mEvents,           \* the start time and the voice of each event
  mNextEvent,
  mMasterTime,
  blockStartTime,    \* local of render(), for processEvents()
  started,           \* the audio thread runs
  mOnOffsetFrames,
  begun,             \* history: the voices of events that sound
  late               \* history: those that a failed try_lock() held back

seq == <<mEvents, mNextEvent, mMasterTime, blockStartTime, started, mOnOffsetFrames>>
vars == <<synth, seq, begun, late>>

Init ==
  /\ PolySynthInit
  /\ mEvents = << >> /\ mNextEvent = 0 /\ started = FALSE
  /\ mMasterTime = 0 /\ blockStartTime = 0
  /\ mOnOffsetFrames = [v \in Voice |-> 0]
  /\ begun = {} /\ late = {}

\* In front of the first event that does not start earlier.
Position(start) == 1 + Cardinality({i \in DOMAIN mEvents : mEvents[i].start < start})

Add(start) ==
  /\ ~started /\ Len(mEvents) < MaxEvents /\ mFreeVoiceLock = Null
  /\ Allocate
  /\ mEvents' = InsertAt(mEvents, Position(start), [start |-> start, voice |-> NewVoice])
  /\ UNCHANGED <<links, mActive, locks, cpc, mine, avars, shown, mNextEvent,
                 mMasterTime, blockStartTime, started, mOnOffsetFrames, begun, late>>

\* Bound: the time is followed while events are left.  Afterwards nothing reads it.
EventsLeft == mNextEvent < Len(mEvents)

\* render(): the block starts, and the time is already that of its end.
BlockBegin ==
  /\ apc = "idle" /\ apc' = "events" /\ started' = TRUE
  /\ blockStartTime' = mMasterTime
  /\ mMasterTime' \in IF EventsLeft THEN Rounded(mMasterTime + timeIncrement) ELSE {0}
  /\ UNCHANGED <<links, mActive, locks, cvars, voice, previousVoice, done, shown,
                 mEvents, mNextEvent, mOnOffsetFrames, begun, late>>

Timed(v) == \E i \in DOMAIN mEvents : mEvents[i].voice = v
Due == EventsLeft /\ mEvents[mNextEvent + 1].start <= mMasterTime

\* A plausible bug: the next frame is taken.
FaultRoundUp(t) == (t + Ticks - 1) \div Ticks

\* The conversion to int drops the fraction of a frame.
Truncated(t) == IF t < 0 THEN -((-t) \div Ticks) ELSE t \div Ticks

TriggerEvent ==
  /\ apc = "events" /\ Due
  /\ LET event == mEvents[mNextEvent + 1] IN
       /\ \E t \in Rounded(event.start - blockStartTime) :
            mOnOffsetFrames' = [mOnOffsetFrames EXCEPT ![event.voice] = Truncated(t)]
       /\ mActive' = [mActive EXCEPT ![event.voice] = TRUE]
       /\ mVoiceToInsertLock = Null
       /\ Push(event.voice)
  /\ mNextEvent' = mNextEvent + 1
  /\ UNCHANGED <<locks, cvars, avars, shown, mEvents, mMasterTime, blockStartTime,
                 started, begun, late>>

EventsDone ==
  /\ apc = "events" /\ ~Due /\ apc' = "insert"
  /\ UNCHANGED <<links, mActive, locks, cvars, voice, previousVoice, done, shown,
                 seq, begun, late>>

\* getStartOffsetFrames() resets the offset.  A voice whose offset is the
\* whole block renders nothing yet.
Offset ==
  IF apc = "render" /\ voice # Null /\ mActive[voice]
  THEN /\ mOnOffsetFrames' = [mOnOffsetFrames EXCEPT ![voice] = 0]
       /\ begun' = IF Timed(voice) /\ mOnOffsetFrames[voice] < FramesPerBuffer
                   THEN begun \cup {voice} ELSE begun
  ELSE UNCHANGED <<mOnOffsetFrames, begun>>

HeldBack ==
  late' = IF apc = "insert" /\ mVoiceToInsertLock # Null
          THEN late \cup {v \in Members(mVoicesToInsert) : Timed(v)} ELSE late \ begun

Render == RenderStep /\ Offset /\ HeldBack
                     /\ UNCHANGED <<mEvents, mNextEvent, mMasterTime, blockStartTime,
                                    started>>

AudioStep == BlockBegin \/ TriggerEvent \/ EventsDone \/ Render

\* The steps of the other threads.
Elsewhere(A) == A /\ UNCHANGED <<seq, begun, late>>

Next ==
  \/ \E start \in StartTimes : Add(start)
  \/ AudioStep
  \/ \E c \in Client : Elsewhere(started /\ ClientCalls(c)) \/ Elsewhere(ClientGoesOn(c))
  \/ Elsewhere(FrameBegin)
  \/ Elsewhere(DrawVoice)

(***************************************************************************)
(* The audio callback keeps being called; a frame and a client's call go   *)
(* on once they have begun.                                                *)
(***************************************************************************)
Fairness ==
  /\ WF_vars(AudioStep)
  /\ WF_vars(Elsewhere(DrawVoice))
  /\ \A c \in Client : WF_vars(Elsewhere(ClientGoesOn(c)))

Spec == Init /\ [][Next]_vars /\ Fairness

-------------------------------------------------------------------------------
Lists == <<Members(mVoicesToInsert), Members(mActiveVoices), Members(mFreeVoices)>>

\* The three lists share their next pointers and stay three lists: each ends,
\* no voice is on two of them, and a voice once pushed or swept is on one,
\* whatever was spliced, swept or pushed while another thread was walking.
ListsConserved ==
  /\ \A head \in {mVoicesToInsert, mActiveVoices, mFreeVoices} :
       Walk(head)[Cardinality(Voice)] = Null
  /\ \A i, j \in 1..3 : i # j => Lists[i] \cap Lists[j] = {}
  /\ allocated = (UNION {Lists[i] : i \in 1..3})
                 \cup {mine[c] : c \in {d \in Client : mine[d] # Null}}
                 \cup {mEvents[i].voice : i \in mNextEvent + 1..Len(mEvents)}

\* The sweep does not look at the voice that becomes the head, and still leaves
\* at most one of the voices that were done when it began.
SweepLeavesAtMostOne ==
  [][apc = "sweep" /\ apc' = "idle"
       => Cardinality(done \cap Members(mActiveVoices)) <= 1]_vars

\* Now and then the audio thread finds the lock of the queue free.
InsertionsSucceed == []<><<TryInsert /\ mVoiceToInsertLock = Null>>_vars
ClientsFallSilent == <>[](\A c \in Client : cpc[c] = "idle")

\* Whatever was put off while other threads held the locks is made good.  A voice
\* is rendered again and again from when it was triggered until it is done, if
\* insertions find their lock free now and then; and when the other threads have
\* fallen silent no voice that is done stays on the list for ever, however often
\* the sweep was put off or has passed it over.
NotesComeAndGo ==
  /\ InsertionsSucceed =>
       \A v \in Voice : []<>(mActive[v] => apc = "render" /\ voice = v)
  /\ ClientsFallSilent =>
       \A v \in Voice : []<>(v \in Members(mActiveVoices) => mActive[v])

\* An event is heard, on the clock of the sequencer, no later than two roundings
\* after its start time and less than a frame and a rounding before it, be it in
\* the first frame of a block or the last, or right behind it, unless the
\* insertion had to be put off.  (Its own frame it may miss by one: a quotient
\* that is rounded below a whole number of frames loses the whole frame.)
EventsSoundWithinAFrame ==
  [][\A i \in DOMAIN mEvents :
       LET event == mEvents[i]
           offset == mOnOffsetFrames[event.voice]
           heard == blockStartTime + offset * Ticks
       IN  event.voice \in begun' \ (begun \cup late)
             => /\ offset >= 0
                /\ heard <= event.start + 2 * Rounding
                /\ heard > event.start - Ticks - Rounding]_vars
===============================================================================
