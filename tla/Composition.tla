------------------------------ MODULE Composition ------------------------------
(***************************************************************************)
(* al::Composition: a playback thread that plays the sequences of a        *)
(* composition one after the other on a PresetSequencer, and reports the   *)
(* end of the composition through the end callback of the last sequence.   *)
(*                                                                         *)
(* The sequencer is reduced to what PresetSequencer is checked to promise  *)
(* (one engine, stopped by a join, its end callback called once per        *)
(* thread): a sequencer thread plays, ends by itself or on a stop, and     *)
(* then looks at the end callback.  The user has registered an end         *)
(* callback with the sequencer and one with the composition.  Durations    *)
(* are left out: a wait may end at any moment.                             *)
(***************************************************************************)
EXTENDS Integers, FiniteSets

CONSTANTS
  Player,        \* the threads of the sequencer
  Sizes,         \* numbers of steps a composition file may have
  None           \* no thread

ASSUME SizesAssumption == Sizes \subseteq Nat
ASSUME NoneAssumption == None \notin Player

VARIABLES
  \* the sequencer
  running,           \* PresetSequencer::mRunning
  engine,            \* its mSequencerThread, or the thread being joined
  player,            \* where each of its threads is
  endCallback,       \* its mEndCallback: the user's, or waitForSequencerCallback
  endEnabled,        \* its mEndCallbackEnabled
  \* the composition
  mPlaying, mPlayerLock,
  steps,             \* mCompositionSteps.size()
  cache,             \* mSequencerEndCallbackCache
  tpc, index,        \* the playback thread, if there is one
  op, cpc,           \* the client's call and where it is
  reports,           \* history: end callbacks since the thread began
  overtaken          \* history: a sequence ended in a window of the end callbacks

seqvars == <<running, engine, player>>
callbacks == <<endCallback, endEnabled, cache>>
tvars == <<tpc, index>>
cvars == <<op, cpc>>
hvars == <<reports, overtaken>>
vars == <<seqvars, callbacks, mPlaying, mPlayerLock, steps, tvars, cvars, hvars>>

Thread == "thread"      \* owners of mPlayerLock
Caller == "caller"

Init ==
  /\ running = FALSE /\ engine = None /\ player = [p \in Player |-> "none"]
  /\ endCallback = "user" /\ endEnabled = TRUE /\ cache = "user"
  /\ mPlaying = FALSE /\ mPlayerLock = None
  /\ steps \in Sizes
  /\ tpc = "none" /\ index = 0
  /\ op = "none" /\ cpc = "idle"
  /\ reports = 0 /\ overtaken = FALSE

-------------------------------------------------------------------------------
(***************************************************************************)
(* The sequencer.                                                          *)
(***************************************************************************)
\* The end of a sequence, by itself or because running has been cleared.
SequenceEnd(p) ==
  /\ player[p] = "play"
  /\ player' = [player EXCEPT ![p] = "ended"]
  /\ running' = FALSE
  /\ UNCHANGED <<engine, callbacks, mPlaying, mPlayerLock, steps, tvars, cvars, hvars>>

\* Past the lock the thread looks whether it has to call back.
LookAtCallback(p) ==
  /\ player[p] = "ended"
  /\ player' = [player EXCEPT ![p] = IF endEnabled /\ endCallback = "composition"
                                     THEN "report" ELSE "none"]
  /\ UNCHANGED <<running, engine, callbacks, mPlaying, mPlayerLock, steps, tvars,
                 cvars, hvars>>

\* A plausible bug: the user's callback is not put back.
FaultNoRestore(p) ==
  /\ player[p] = "report"
  /\ reports' = reports + 1
  /\ player' = [player EXCEPT ![p] = "none"]
  /\ UNCHANGED <<running, engine, callbacks, mPlaying, mPlayerLock,
                 steps, tvars, cvars, overtaken>>

waitForSequencerCallback(p) ==
  /\ player[p] = "report"
  /\ endCallback' = cache
  /\ reports' = reports + 1
  /\ player' = [player EXCEPT ![p] = "none"]
  /\ UNCHANGED <<running, engine, endEnabled, cache, mPlaying, mPlayerLock,
                 steps, tvars, cvars, overtaken>>

\* stopSequence() up to its join, which Joined awaits.
Halt == running' = FALSE /\ UNCHANGED <<engine, player>>
Joined == \A p \in Player : engine = p => player[p] = "none"

StartSequence(p) ==
  /\ player[p] = "none"
  /\ running' = TRUE /\ engine' = p
  /\ player' = [player EXCEPT ![p] = "play"]

SequencerStep == \E p \in Player : SequenceEnd(p) \/ LookAtCallback(p)
                                     \/ waitForSequencerCallback(p)

-------------------------------------------------------------------------------
(***************************************************************************)
(* playbackThread().                                                       *)
(***************************************************************************)
Step(from, to) == tpc = from /\ tpc' = to

\* A sequence has ended and its thread has not dealt with the end callback.
Ending == \E p \in Player : player[p] \in {"ended", "report"}

ThreadEmpty ==     \* it returns without a notification
  /\ Step("begin", "done") /\ steps = 0
  /\ UNCHANGED <<seqvars, callbacks, mPlaying, mPlayerLock, steps, index, cvars, hvars>>

ThreadBegin ==
  /\ Step("begin", "lock") /\ steps > 0
  /\ endEnabled' = FALSE
  /\ cpc' = IF cpc = "asleep" THEN "awake" ELSE cpc
  /\ reports' = 0
  /\ overtaken' = (overtaken \/ Ending)
  /\ UNCHANGED <<seqvars, endCallback, cache, mPlaying, mPlayerLock, steps, index, op>>

ThreadLock ==
  /\ Step("lock", "loop")
  /\ mPlayerLock = None /\ mPlayerLock' = Thread
  /\ cache' = endCallback
  /\ UNCHANGED <<seqvars, endCallback, endEnabled, mPlaying, steps, index, cvars, hvars>>

\* The wait is cut short when mPlaying is cleared; the step is played anyway.
ThreadHold ==
  /\ Step("loop", "play") /\ mPlaying
  /\ UNCHANGED <<seqvars, callbacks, mPlaying, mPlayerLock, steps, index, cvars, hvars>>

ThreadHalt ==
  /\ Step("play", IF running THEN "join" ELSE "start")
  /\ IF running THEN Halt ELSE UNCHANGED seqvars
  /\ UNCHANGED <<callbacks, mPlaying, mPlayerLock, steps, index, cvars, hvars>>

ThreadJoin ==
  /\ Step("join", "start") /\ Joined
  /\ UNCHANGED <<seqvars, callbacks, mPlaying, mPlayerLock, steps, index, cvars, hvars>>

ThreadStart ==
  /\ Step("start", "loop")
  /\ \E p \in Player : StartSequence(p)
  /\ index' = index + 1
  /\ mPlaying' = (mPlaying /\ index' # steps)
  /\ UNCHANGED <<callbacks, mPlayerLock, steps, cvars, hvars>>

\* A plausible bug: the lock is kept when the composition is over.
FaultNoUnlock ==
  /\ Step("loop", "branch") /\ ~mPlaying
  /\ UNCHANGED <<seqvars, callbacks, mPlaying, mPlayerLock, steps, index, cvars, hvars>>

ThreadUnlock ==
  /\ Step("loop", "branch") /\ ~mPlaying
  /\ mPlayerLock' = None
  /\ UNCHANGED <<seqvars, callbacks, mPlaying, steps, index, cvars, hvars>>

\* Whether the last sequence still plays decides who reports the end.
ThreadBranch ==
  /\ Step("branch", IF running THEN "register" ELSE "report")
  /\ UNCHANGED <<seqvars, callbacks, mPlaying, mPlayerLock, steps, index, cvars, hvars>>

ThreadRegister ==
  /\ Step("register", "enable")
  /\ endCallback' = "composition" /\ endEnabled' = TRUE
  /\ overtaken' = (overtaken \/ ~running \/ Ending)
  /\ UNCHANGED <<seqvars, cache, mPlaying, mPlayerLock, steps, index, cvars, reports>>

ThreadReport ==
  /\ Step("report", "enable")
  /\ reports' = reports + 1
  /\ UNCHANGED <<seqvars, callbacks, mPlaying, mPlayerLock, steps, index, cvars, overtaken>>

ThreadEnable ==
  /\ Step("enable", "done")
  /\ endEnabled' = TRUE
  /\ UNCHANGED <<seqvars, endCallback, cache, mPlaying, mPlayerLock, steps, index, cvars,
                 hvars>>

ThreadStep == \/ ThreadEmpty \/ ThreadBegin \/ ThreadLock \/ ThreadHold \/ ThreadHalt
              \/ ThreadJoin \/ ThreadStart \/ ThreadUnlock \/ ThreadBranch
              \/ ThreadRegister \/ ThreadReport \/ ThreadEnable
-------------------------------------------------------------------------------
(***************************************************************************)
(* The client's calls.                                                     *)
(***************************************************************************)
Go(from, to) == cpc = from /\ cpc' = to
Return == cpc' = "idle" /\ op' = "none"

Call(name, first) ==
  /\ Go("idle", first) /\ op' = name
  /\ UNCHANGED <<seqvars, callbacks, mPlaying, mPlayerLock, steps, tvars, hvars>>

\* stop(), which play() and playArchive() call first.
StopThread ==
  /\ Go("stop", IF tpc = "none" THEN "halt" ELSE "join")
  /\ mPlaying' = (mPlaying /\ tpc = "none")
  /\ UNCHANGED <<seqvars, callbacks, mPlayerLock, steps, tvars, op, hvars>>

\* A plausible bug: the playback thread is not waited for.
FaultDetach ==
  /\ Go("join", "halt")
  /\ UNCHANGED <<seqvars, callbacks, mPlaying, mPlayerLock, steps, tvars, op, hvars>>

StopJoin ==
  /\ Go("join", "halt") /\ tpc = "done"
  /\ tpc' = "none" /\ index' = 0
  /\ UNCHANGED <<seqvars, callbacks, mPlaying, mPlayerLock, steps, op, hvars>>

StopSequence ==
  /\ Go("halt", "wait")
  /\ IF running THEN Halt ELSE engine' = None /\ UNCHANGED <<running, player>>
  /\ UNCHANGED <<callbacks, mPlaying, mPlayerLock, steps, tvars, op, hvars>>

StopReturn ==
  /\ cpc = "wait" /\ Joined
  /\ CASE op = "stop" -> Return
       [] op = "play" -> cpc' = "load" /\ UNCHANGED op
       [] op = "archive" -> cpc' = "relabel" /\ UNCHANGED op
  /\ UNCHANGED <<seqvars, callbacks, mPlaying, mPlayerLock, steps, tvars, hvars>>

\* playArchive() stops with the lock held, releases it and then plays.
ArchiveLock ==
  /\ Go("lock", "stop") /\ op = "archive"
  /\ mPlayerLock = None /\ mPlayerLock' = Caller
  /\ UNCHANGED <<seqvars, callbacks, mPlaying, steps, tvars, op, hvars>>

ArchiveLoad ==
  /\ Go("relabel", "stop") /\ op' = "play"
  /\ steps' \in Sizes
  /\ mPlayerLock' = None
  /\ UNCHANGED <<seqvars, callbacks, mPlaying, tvars, hvars>>

PlayLoad ==
  /\ Go("load", "spawn") /\ mPlayerLock = None
  /\ steps' \in Sizes
  /\ mPlaying' = TRUE
  /\ UNCHANGED <<seqvars, callbacks, mPlayerLock, tvars, op, hvars>>

PlaySpawn ==
  /\ Go("spawn", "asleep")
  /\ tpc' = "begin" /\ index' = 0
  /\ UNCHANGED <<seqvars, callbacks, mPlaying, mPlayerLock, steps, op, hvars>>

SpuriousWake ==
  /\ Go("asleep", "awake")
  /\ UNCHANGED <<seqvars, callbacks, mPlaying, mPlayerLock, steps, tvars, op, hvars>>

PlayReturn ==
  /\ cpc = "awake" /\ Return
  /\ UNCHANGED <<seqvars, callbacks, mPlaying, mPlayerLock, steps, tvars, hvars>>

Size ==
  /\ Go("lock", "idle") /\ op = "size" /\ op' = "none" /\ mPlayerLock = None
  /\ UNCHANGED <<seqvars, callbacks, mPlaying, mPlayerLock, steps, tvars, hvars>>

\* For a positive index the lock is taken a second time, by size().
GetStep(position) ==
  /\ cpc = "lock" /\ op = "getStep" /\ mPlayerLock = None
  /\ IF position > 0 THEN cpc' = "relock" /\ mPlayerLock' = Caller /\ UNCHANGED op
                     ELSE Return /\ UNCHANGED mPlayerLock
  /\ UNCHANGED <<seqvars, callbacks, mPlaying, steps, tvars, hvars>>

Request ==
  \/ \E name \in {"play", "stop"} : Call(name, "stop")
  \/ \E name \in {"archive", "size", "getStep"} : Call(name, "lock")

Continue ==
  \/ StopThread \/ StopJoin \/ StopSequence \/ StopReturn \/ ArchiveLock \/ ArchiveLoad
  \/ PlayLoad \/ PlaySpawn \/ PlayReturn \/ Size \/ \E i \in {0, 1} : GetStep(i)

Next == SequencerStep \/ ThreadStep \/ Request \/ Continue \/ SpuriousWake

Fairness == WF_vars(SequencerStep) /\ WF_vars(ThreadStep) /\ WF_vars(Continue)

Spec == Init /\ [][Next]_vars /\ Fairness

-------------------------------------------------------------------------------
\* When stop() returns neither the composition nor the sequencer plays, even
\* though the playback thread may have started one more step meanwhile.
QuietAfterStop ==
  [][op = "stop" /\ cpc' = "idle" /\ cpc # "idle"
       => tpc = "none" /\ ~running /\ \A p \in Player : player[p] # "play"]_vars

Silent == tpc \in {"none", "done"} /\ \A p \in Player : player[p] = "none"

\* When everything has ended, the end was reported once and the sequencer has
\* the user's callback again, unless a sequence ended by itself around the time
\* the thread turned the callbacks off or registered its own.
EndIsReported ==
  Silent /\ ~overtaken /\ tpc = "done" /\ steps > 0
    => reports = 1 /\ endCallback = "user" /\ endEnabled

\* The calls that hang: play() of a composition without steps, getStep() of a
\* positive index, and playArchive() when the thread is yet to take the lock.
Hangs ==
  \/ cpc = "asleep" /\ tpc = "done" /\ steps = 0
  \/ cpc = "relock"
  \/ op = "archive" /\ cpc = "join" /\ tpc = "lock"

\* Every other call returns, also size(), which waits for a whole composition.
CallsReturn == cpc # "idle" ~> cpc = "idle" \/ Hangs
===============================================================================
