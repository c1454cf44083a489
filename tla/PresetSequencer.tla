---------------------------- MODULE PresetSequencer ----------------------------
(***************************************************************************)
(* al::PresetSequencer: playSequence() loads the steps of a sequence and   *)
(* starts a playback thread, stopSequence() clears the flag the thread     *)
(* polls and joins it.  The playback thread holds mSequenceLock from       *)
(* before its first step until after its last one, and calls the begin     *)
(* callback with mPlayWaitLock held.  Clients are the threads that call    *)
(* the sequencer: the application, the OSC thread of a SequenceServer.     *)
(* The callbacks are code that does not call the sequencer back.           *)
(***************************************************************************)
EXTENDS Integers, Sequences, FiniteSets

CONSTANTS
  Client, Thread,
  Sequences,   \* what loadSequence() returns: <<>> if there is no such file
  MaxSteps,    \* bound: steps that appendStep() makes of a sequence
  None         \* no thread, no client

ASSUME SequencesAssumption == Sequences \subseteq Seq({"PRESET", "EVENT"})
ASSUME MaxStepsAssumption == MaxSteps \in Nat
ASSUME NoneAssumption == None \notin Client \cup Thread

VARIABLES
  mSteps,            \* the types of the steps to be played
  mRunning,
  mSequencerThread,  \* the thread it points to, or None
  mEndCallbackEnabled,
  mSequenceLock, mPlayWaitLock,  \* the owner or None
  morphing,          \* the last call to the PresetHandler was recallPreset()
  tpc,               \* where each thread is, "none" when it does not exist
  cpc, op,           \* where each client is, and the call it is in
  th, saved,         \* the local variables th and mCallbackStatus of stopSequence()
  last,              \* history: the last call of each client, once it is over
  cut,               \* history: the stop that came while the thread played:
                     \* "never", "early" (in the wait of a step) or "late"
  finished           \* the argument of the thread's end callback

flags == <<mRunning, mSequencerThread, mEndCallbackEnabled>>
locks == <<mSequenceLock, mPlayWaitLock>>
locals == <<op, th, saved, last>>
cvars == <<cpc, locals>>
hvars == <<cut, finished>>
vars == <<mSteps, flags, locks, morphing, tpc, cvars, hvars>>

Init ==
  /\ mSteps = <<>>
  /\ mRunning = FALSE
  /\ mSequencerThread = None
  /\ mEndCallbackEnabled \in BOOLEAN
  /\ mSequenceLock = None /\ mPlayWaitLock = None
  /\ morphing = FALSE
  /\ tpc = [t \in Thread |-> "none"]
  /\ cpc = [c \in Client |-> "idle"]
  /\ op = [c \in Client |-> "none"]
  /\ th = [c \in Client |-> None]
  /\ saved = [c \in Client |-> FALSE]
  /\ last = [c \in Client |-> "none"]
  /\ cut = [t \in Thread |-> "never"]
  /\ finished = [t \in Thread |-> FALSE]

-----------------------------------------------------------------------------
(* The playback thread: sequencerFunction() *)

Step(t, from, to) ==
  /\ tpc[t] = from
  /\ tpc' = [tpc EXCEPT ![t] = to]

ThreadBegin(t) ==
  /\ Step(t, "start", "begin")
  /\ mPlayWaitLock = None
  /\ mPlayWaitLock' = t
  /\ UNCHANGED <<mSteps, flags, mSequenceLock, morphing, cvars, hvars>>

\* The begin callback returns; notify_one() wakes one waiting client, if any.
Waiting == {c \in Client : cpc[c] = "waiting"}

ThreadNotify(t) ==
  /\ Step(t, "begin", "ready")
  /\ mPlayWaitLock' = None
  /\ \/ Waiting = {} /\ UNCHANGED cpc
     \/ \E c \in Waiting : cpc' = [cpc EXCEPT ![c] = "woken"]
  /\ UNCHANGED <<mSteps, flags, mSequenceLock, morphing, locals, hvars>>

ThreadLock(t) ==
  /\ Step(t, "ready", "loop")
  /\ mSequenceLock = None
  /\ mSequenceLock' = t
  /\ UNCHANGED <<mSteps, flags, mPlayWaitLock, morphing, cvars, hvars>>

Playable == mRunning /\ mSteps # <<>>

\* A step starts: a preset is recalled, an event waits for its time.
StepStart(t) ==
  /\ Step(t, "loop", "hold")
  /\ Playable
  /\ morphing' = (morphing \/ Head(mSteps) = "PRESET")
  /\ UNCHANGED <<mSteps, flags, locks, cvars, hvars>>

\* The time is up, or the thread has seen mRunning to be false; an event
\* callback is called only if mRunning is still true.
HoldEnd(t) ==
  /\ Step(t, "hold", IF Head(mSteps) = "EVENT" /\ mRunning THEN "event" ELSE "pop")
  /\ UNCHANGED <<mSteps, flags, locks, morphing, cvars, hvars>>

EventReturn(t) ==
  /\ Step(t, "event", "pop")
  /\ UNCHANGED <<mSteps, flags, locks, morphing, cvars, hvars>>

StepPop(t) ==
  /\ Step(t, "pop", "loop")
  /\ mSteps' = Tail(mSteps)
  /\ UNCHANGED <<flags, locks, morphing, cvars, hvars>>

\* Fault: the morph is left running.
FaultMorphGoesOn(t) ==
  /\ Step(t, "loop", "ending")
  /\ ~ Playable
  /\ UNCHANGED <<mSteps, flags, locks, morphing, cvars, hvars>>

LoopEnd(t) ==
  /\ Step(t, "loop", "ending")
  /\ ~ Playable
  /\ morphing' = FALSE
  /\ UNCHANGED <<mSteps, flags, locks, cvars, hvars>>

ClearRunning(t) ==
  /\ Step(t, "ending", "unlock")
  /\ mRunning' = FALSE
  /\ UNCHANGED <<mSteps, mSequencerThread, mEndCallbackEnabled, locks, morphing, cvars, hvars>>

\* Fault: the lock is not released.
FaultNoUnlock(t) ==
  /\ Step(t, "unlock", "unlocked")
  /\ UNCHANGED <<mSteps, flags, locks, morphing, cvars, hvars>>

ThreadUnlock(t) ==
  /\ Step(t, "unlock", "unlocked")
  /\ mSequenceLock' = None
  /\ UNCHANGED <<mSteps, flags, mPlayWaitLock, morphing, cvars, hvars>>

\* The end callback's argument is computed after the unlock.
EndCallback(t) ==
  /\ Step(t, "unlocked", IF mEndCallbackEnabled THEN "callback" ELSE "done")
  /\ finished' = [finished EXCEPT ![t] = (mSteps = <<>>)]
  /\ UNCHANGED <<mSteps, flags, locks, morphing, cvars, cut>>

ThreadEnd(t) ==
  /\ Step(t, "callback", "done")
  /\ UNCHANGED <<mSteps, flags, locks, morphing, cvars, hvars>>

-----------------------------------------------------------------------------
(* The clients *)

Go(c, from, to) ==
  /\ cpc[c] = from
  /\ cpc' = [cpc EXCEPT ![c] = to]

Return(c, from) ==
  /\ Go(c, from, "idle")
  /\ op' = [op EXCEPT ![c] = "none"]
  /\ last' = [last EXCEPT ![c] = op[c]]

\* stopSequence(false)
Silent == {"stopSilently", "destroy"}
Alive == \A c \in Client : "destroy" \notin {op[c], last[c]}

\* All calls but appendStep() start with stopSequence().
Call(c, name) ==
  /\ Alive
  /\ Go(c, "idle", IF name = "append" THEN "append" ELSE "check")
  /\ op' = [op EXCEPT ![c] = name]
  /\ last' = [last EXCEPT ![c] = "none"]
  /\ UNCHANGED <<mSteps, flags, locks, morphing, tpc, th, saved, hvars>>

\* if (mRunning == true) { mRunning = false;
Check(c) ==
  /\ Go(c, "check", IF mRunning THEN "halt" ELSE "stopped")
  /\ UNCHANGED <<mSteps, flags, locks, morphing, tpc, locals, hvars>>

Halt(c) ==
  /\ Go(c, "halt", "disable")
  /\ mRunning' = FALSE
  /\ cut' = [t \in Thread |-> IF t # mSequencerThread \/ cut[t] # "never" THEN cut[t]
                              ELSE IF tpc[t] = "hold" THEN "early" ELSE "late"]
  /\ UNCHANGED <<mSteps, mSequencerThread, mEndCallbackEnabled, locks,
                 morphing, tpc, locals, finished>>

Disable(c) ==
  /\ Go(c, "disable", "take")
  /\ IF op[c] \in Silent
       THEN /\ saved' = [saved EXCEPT ![c] = mEndCallbackEnabled]
            /\ mEndCallbackEnabled' = FALSE
       ELSE UNCHANGED <<saved, mEndCallbackEnabled>>
  /\ UNCHANGED <<mSteps, mRunning, mSequencerThread, locks, morphing,
                 tpc, op, th, last, hvars>>

\* Fault: the thread is detached, not joined.
FaultDetach(c) ==
  /\ Go(c, "take", "enable")
  /\ mSequencerThread' = None
  /\ UNCHANGED <<mSteps, mRunning, mEndCallbackEnabled, locks, morphing, tpc, locals, hvars>>

Take(c) ==
  /\ Go(c, "take", IF mSequencerThread = None THEN "enable" ELSE "join")
  /\ th' = [th EXCEPT ![c] = mSequencerThread]
  /\ mSequencerThread' = None
  /\ UNCHANGED <<mSteps, mRunning, mEndCallbackEnabled, locks, morphing,
                 tpc, op, saved, last, hvars>>

\* th->join(); delete th;
Join(c) ==
  /\ Go(c, "join", "enable")
  /\ tpc[th[c]] = "done"
  /\ tpc' = [tpc EXCEPT ![th[c]] = "none"]
  /\ th' = [th EXCEPT ![c] = None]
  /\ UNCHANGED <<mSteps, flags, locks, morphing, op, saved, last, hvars>>

Enable(c) ==
  /\ Go(c, "enable", "stopped")
  /\ mEndCallbackEnabled' = IF op[c] \in Silent THEN saved[c] ELSE mEndCallbackEnabled
  /\ saved' = [saved EXCEPT ![c] = FALSE]
  /\ UNCHANGED <<mSteps, mRunning, mSequencerThread, locks, morphing,
                 tpc, op, th, last, hvars>>

StopReturn(c) ==
  /\ op[c] \in {"stop"} \cup Silent
  /\ Return(c, "stopped")
  /\ UNCHANGED <<mSteps, flags, locks, morphing, tpc, th, saved, hvars>>

\* Fault: the client keeps the lock.
FaultLockKept(c, steps) ==
  /\ op[c] = "play"
  /\ Go(c, "stopped", "spawn")
  /\ mSequenceLock = None
  /\ mSequenceLock' = c
  /\ mSteps' = steps
  /\ mRunning' = TRUE
  /\ UNCHANGED <<mSequencerThread, mEndCallbackEnabled, mPlayWaitLock, morphing,
                 tpc, locals, hvars>>

\* playSequence() with mSequenceLock held; an empty name keeps the steps.
Load(c, steps) ==
  /\ op[c] = "play"
  /\ Go(c, "stopped", "spawn")
  /\ mSequenceLock = None
  /\ mSteps' = steps
  /\ mRunning' = TRUE
  /\ UNCHANGED <<mSequencerThread, mEndCallbackEnabled, locks, morphing, tpc, locals, hvars>>

\* Threads that have been joined, and those that have ended and that nothing
\* points to any more: their std::thread is leaked.
Gone(t) == \/ tpc[t] = "none"
           \/ tpc[t] = "done" /\ t # mSequencerThread /\ \A c \in Client : th[c] # t

\* The new thread and the wait, which releases mPlayWaitLock
Spawn(c, t) ==
  /\ Go(c, "spawn", "waiting")
  /\ mPlayWaitLock = None
  /\ Gone(t)
  /\ mSequencerThread' = t
  /\ tpc' = [tpc EXCEPT ![t] = "start"]
  /\ cut' = [cut EXCEPT ![t] = "never"]
  /\ finished' = [finished EXCEPT ![t] = FALSE]
  /\ UNCHANGED <<mSteps, mRunning, mEndCallbackEnabled, locks, morphing, locals>>

SpuriousWake(c) ==
  /\ Go(c, "waiting", "woken")
  /\ UNCHANGED <<mSteps, flags, locks, morphing, tpc, locals, hvars>>

PlayReturn(c) ==
  /\ mPlayWaitLock = None
  /\ Return(c, "woken")
  /\ UNCHANGED <<mSteps, flags, locks, morphing, tpc, th, saved, hvars>>

ClearSteps(c) ==
  /\ op[c] = "clear"
  /\ mSequenceLock = None
  /\ Return(c, "stopped")
  /\ mSteps' = <<>>
  /\ UNCHANGED <<flags, locks, morphing, tpc, th, saved, hvars>>

AppendStep(c, type) ==
  /\ mSequenceLock = None
  /\ Len(mSteps) < MaxSteps
  /\ Return(c, "append")
  /\ mSteps' = Append(mSteps, type)
  /\ UNCHANGED <<flags, locks, morphing, tpc, th, saved, hvars>>

-----------------------------------------------------------------------------

Run(t) ==
  \/ ThreadBegin(t) \/ ThreadNotify(t) \/ ThreadLock(t)
  \/ StepStart(t) \/ HoldEnd(t) \/ EventReturn(t) \/ StepPop(t)
  \/ LoopEnd(t) \/ ClearRunning(t) \/ ThreadUnlock(t)
  \/ EndCallback(t) \/ ThreadEnd(t)

Continue(c) ==
  \/ Check(c) \/ Halt(c) \/ Disable(c) \/ Take(c) \/ Join(c) \/ Enable(c)
  \/ StopReturn(c)
  \/ \E steps \in Sequences \cup {mSteps} : Load(c, steps)
  \/ \E t \in Thread : Spawn(c, t)
  \/ PlayReturn(c)
  \/ ClearSteps(c)
  \/ \E type \in {"PRESET", "EVENT"} : AppendStep(c, type)

Next ==
  \/ \E t \in Thread : Run(t)
  \/ \E c \in Client :
       \/ \E name \in {"play", "stop", "stopSilently", "clear", "append", "destroy"} :
            Call(c, name)
       \/ SpuriousWake(c)
       \/ Continue(c)

Spec == Init /\ [][Next]_vars

\* Threads are scheduled, steps and callbacks take a finite time; nobody is
\* obliged to call the sequencer.
Fairness ==
  /\ \A t \in Thread : WF_vars(Run(t))
  /\ \A c \in Client : WF_vars(Continue(c))

FairSpec == Spec /\ Fairness

-----------------------------------------------------------------------------
(* Properties *)

TypeOK ==
  /\ mSteps \in Seq({"PRESET", "EVENT"})
  /\ {mRunning, mEndCallbackEnabled, morphing} \subseteq BOOLEAN
  /\ {mSequencerThread, mSequenceLock, mPlayWaitLock} \subseteq Thread \cup {None}
  /\ tpc \in [Thread -> {"none", "start", "begin", "ready", "loop", "hold", "event", "pop",
                         "ending", "unlock", "unlocked", "callback", "done"}]
  /\ cpc \in [Client -> {"idle", "append", "check", "halt", "disable", "take", "join",
                         "enable", "stopped", "spawn", "waiting", "woken"}]
  /\ th \in [Client -> Thread \cup {None}]
  /\ {saved[c] : c \in Client} \cup {finished[t] : t \in Thread} \subseteq BOOLEAN
  /\ cut \in [Thread -> {"never", "early", "late"}]

\* The thread can still recall a preset or call an event callback.
MayPlay(t) == tpc[t] \in {"start", "begin", "ready", "loop", "hold", "event", "pop"}

\* al_PresetSequencer.hpp:140 "There is a single sequencer engine": while the
\* sequencer runs, the only thread that may play is the one it points to, so
\* that a stop reaches it.
SingleEngine ==
  mRunning => \A t \in Thread : MayPlay(t) => t = mSequencerThread

\* Once stopSequence() has returned, whatever the thread was doing and even if
\* the flag was already false, no step is played and the morph the sequence
\* started has been stopped, until the next call.
QuietAfterStop ==
  \A c \in Client : last[c] \in {"stop", "clear"} \cup Silent =>
    /\ \A t \in Thread : ~ MayPlay(t)
    /\ ~ mRunning /\ ~ morphing

\* Every call returns: the notification that playSequence() waits for is not
\* lost, and no thread is joined by someone it waits for.
CallsReturn == \A c \in Client : cpc[c] \notin {"idle", "append"} ~> cpc[c] = "idle"

\* al_PresetSequencer.hpp:238 "If it was stopped by the user prematurely, it
\* will send false"
FalseWhenStopped ==
  \A t \in Thread : tpc[t] = "callback" /\ cut[t] = "early" => ~ finished[t]

=============================================================================
