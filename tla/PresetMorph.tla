------------------------------ MODULE PresetMorph ------------------------------
(***************************************************************************)
(* al::PresetHandler as seen by its morph thread: client threads recall,   *)
(* interpolate or stop presets, and one thread owned by the handler moves  *)
(* the parameters to the target values in mMorphRemainingSteps rounds.     *)
(*                                                                         *)
(* The threads share the atomic counter mMorphRemainingSteps, the map      *)
(* mTargetValues, the mutex mTargetLock (which the morph thread holds      *)
(* whenever it is not waiting on mMorphConditionVar) and mMorphLock (which *)
(* it holds for its whole life).  A client that interrupts a morph stores  *)
(* -1 in the counter, waits for mTargetLock to be free and then works      *)
(* without any lock.                                                       *)
(*                                                                         *)
(* A parameter's value is abstracted to the preset it was taken from, to   *)
(* the pair of presets it was interpolated from, or to Between when it     *)
(* lies anywhere else, on the way from one value to another for instance.  *)
(***************************************************************************)
EXTENDS Integers

CONSTANTS
  Client,        \* the threads that use the handler
  Param,         \* mParameters
  Preset,        \* the presets on disk
  Stored,        \* for each preset, the parameters its file has a value for
  Between,       \* the values that no preset has
  MaxRounds,     \* bound: ceil(mMorphTime / mMorphInterval) at its largest
  MaxIdleWakes,  \* bound: how far the counter is followed below zero
  None           \* no preset, no thread

ASSUME StoredAssumption == Stored \in [Preset -> SUBSET Param]
ASSUME BoundsAssumption == MaxRounds \in Nat /\ MaxIdleWakes \in Nat \ {0}

Morph == "morph"    \* the morph thread as the owner of a lock

ASSUME NoneAssumption == None \notin Client \cup {Morph}

VARIABLES
  value,         \* the values of the parameters
  remaining,     \* mMorphRemainingSteps
  target,        \* mTargetValues, a function on the parameters it has
  targetLock,    \* mTargetLock: its owner or None
  morphLock,     \* mMorphLock: its owner or None
  mRunning,
  tpc,           \* where the morph thread is
  todo,          \* the parameters still to be set in the current round
  cpc,           \* where each client is
  op,            \* the operation each client is in
  arg,           \* the preset(s) it works on; the steps a stop has cancelled
  last,          \* history: the last call and its presets, once it is over
  heard          \* history: that call's notification found the thread asleep

morph == <<value, remaining, target>>
locks == <<targetLock, morphLock>>
tvars == <<tpc, todo>>
call == <<op, arg>>
cvars == <<cpc, call>>
hvars == <<last, heard>>
NoCall == [op |-> "none", arg |-> None]
vars == <<morph, locks, mRunning, tvars, cvars, hvars>>

\* What setInterpolatedPreset() computes, for a factor between 0 and 1
Mix(p, q) == IF p = q THEN p ELSE <<p, q>>

\* loadPresetValues()
Load(preset) == [x \in Stored[preset] |-> preset]

Init ==
  /\ value \in [Param -> {Between}]
  /\ remaining = -1
  /\ target = [x \in {} |-> Between]
  /\ targetLock = None /\ morphLock = None
  /\ mRunning = TRUE
  /\ tpc = "start" /\ todo = {}
  /\ cpc = [c \in Client |-> "idle"]
  /\ op = [c \in Client |-> "none"]
  /\ arg = [c \in Client |-> None]
  /\ last = NoCall /\ heard = FALSE

-----------------------------------------------------------------------------
(* The morph thread: morphingFunction() *)

ThreadStart ==
  /\ tpc = "start"
  /\ morphLock = None
  /\ morphLock' = Morph
  /\ tpc' = "check"
  /\ UNCHANGED <<morph, targetLock, mRunning, todo, cvars, hvars>>

\* while (mRunning): the lock of the round, or the end of the thread
ThreadCheck ==
  /\ tpc = "check"
  /\ IF mRunning THEN tpc' = "lock" /\ UNCHANGED morphLock
                 ELSE tpc' = "done" /\ morphLock' = None
  /\ UNCHANGED <<morph, targetLock, mRunning, todo, cvars, hvars>>

ThreadLock ==
  /\ tpc \in {"lock", "relock"}
  /\ targetLock = None
  /\ targetLock' = Morph
  /\ tpc' = IF tpc = "lock" THEN "wait" ELSE "count"
  /\ UNCHANGED <<morph, morphLock, mRunning, todo, cvars, hvars>>

\* mMorphConditionVar.wait(lk) has no predicate: the thread releases the lock
\* and sleeps, whatever was requested before.
ThreadWait ==
  /\ tpc = "wait"
  /\ targetLock' = None
  /\ tpc' = "asleep"
  /\ UNCHANGED <<morph, morphLock, mRunning, todo, cvars, hvars>>

\* A condition variable may wake its waiter without a notification.
SpuriousWake ==
  /\ tpc = "asleep"
  /\ tpc' = "relock"
  /\ UNCHANGED <<morph, locks, mRunning, todo, cvars, hvars>>

\* atomic_fetch_sub(): all negative values behave alike.
Decrement(n) == IF n > -MaxIdleWakes THEN n - 1 ELSE n

ThreadCount ==
  /\ tpc = "count"
  /\ remaining' = Decrement(remaining)
  /\ IF remaining > 0
       THEN tpc' = "round" /\ todo' = Param /\ UNCHANGED targetLock
       ELSE tpc' = "check" /\ targetLock' = None /\ UNCHANGED todo
  /\ UNCHANGED <<value, target, morphLock, mRunning, cvars, hvars>>

\* One parameter of a round: the difference to the target is divided by the
\* steps that remain, and taken whole when the counter is not positive.
Moved(x) ==
  IF remaining > 1 /\ value[x] # target[x] THEN Between ELSE target[x]

ThreadSet(x) ==
  /\ tpc = "round"
  /\ x \in todo
  /\ value' = IF x \in DOMAIN target THEN [value EXCEPT ![x] = Moved(x)] ELSE value
  /\ todo' = todo \ {x}
  /\ UNCHANGED <<remaining, target, locks, mRunning, tpc, cvars, hvars>>

\* al::wait(mMorphInterval) ends.
ThreadRoundEnd ==
  /\ tpc = "round"
  /\ todo = {}
  /\ tpc' = "count"
  /\ UNCHANGED <<morph, locks, mRunning, todo, cvars, hvars>>

-----------------------------------------------------------------------------
(* The clients *)

Go(c, from, to) ==
  /\ cpc[c] = from
  /\ cpc' = [cpc EXCEPT ![c] = to]

Alive == \A c \in Client : op[c] # "destroy"

\* Every operation starts by looking at the counter.  One that finds a morph
\* will set it to -1 and wait for the morph thread to let go of mTargetLock;
\* stopMorph(), also called by the destructor, takes that lock in any case.
Stopping == {"stop", "destroy"}

Begin(c, name, a) ==
  /\ Alive
  /\ op' = [op EXCEPT ![c] = name]
  /\ arg' = [arg EXCEPT ![c] = a]
  /\ Go(c, "idle", IF remaining >= 0 THEN "cancel"
                   ELSE IF name \in Stopping THEN "stopping" ELSE "write")
  /\ last' = NoCall /\ heard' = FALSE
  /\ UNCHANGED <<morph, locks, mRunning, tvars>>

\* mMorphRemainingSteps.store(-1)
Cancel(c) ==
  /\ Go(c, "cancel", IF op[c] \in Stopping THEN "stopping" ELSE "interrupt")
  /\ remaining' = -1
  /\ arg' = IF op[c] \in Stopping THEN [arg EXCEPT ![c] = <<remaining>>] ELSE arg
  /\ UNCHANGED <<value, target, locks, mRunning, tvars, op, hvars>>

\* Fault: the client does not wait for the round to end.
FaultNoWait(c) ==
  /\ Go(c, "interrupt", "write")
  /\ UNCHANGED <<morph, locks, mRunning, tvars, call, hvars>>

\* { std::lock_guard<std::mutex> lk(mTargetLock); }
Interrupt(c) ==
  /\ targetLock = None
  /\ Go(c, "interrupt", "write")
  /\ UNCHANGED <<morph, locks, mRunning, tvars, call, hvars>>

\* mTargetValues is replaced, without a lock; setInterpolatedPreset() keeps the
\* parameters both presets have.
Write(c) ==
  /\ Go(c, "write", CASE op[c] \in {"recall", "morphTo"} -> "store"
                      [] op[c] = "interpolate" -> "notify"
                      [] op[c] = "synchronous" -> "apply")
  /\ target' = IF op[c] = "interpolate"
                 THEN [x \in Stored[arg[c][1]] \cap Stored[arg[c][2]] |->
                         Mix(arg[c][1], arg[c][2])]
                 ELSE Load(arg[c][1])
  /\ UNCHANGED <<value, remaining, locks, mRunning, tvars, call, hvars>>

\* Fault: a morph of no duration gets no round.
FaultNoLastStep(c, rounds) ==
  /\ Go(c, "store", "notify")
  /\ remaining' = rounds
  /\ UNCHANGED <<value, target, locks, mRunning, tvars, call, hvars>>

\* mMorphRemainingSteps.store(1 + ceil(mMorphTime / mMorphInterval))
StoreSteps(c, rounds) ==
  /\ Go(c, "store", "notify")
  /\ remaining' = 1 + rounds
  /\ UNCHANGED <<value, target, locks, mRunning, tvars, call, hvars>>

\* notify_one() and the rest of the call; a notification finds the morph
\* thread asleep or has no effect.
Wake == tpc' = IF tpc = "asleep" THEN "relock" ELSE tpc

Finish(c) ==
  /\ op' = [op EXCEPT ![c] = "none"]
  /\ arg' = [arg EXCEPT ![c] = None]
  /\ last' = [op |-> op[c], arg |-> arg[c]]
  /\ heard' = (tpc = "asleep")

\* Fault: the notification is missing.
FaultNoNotify(c) ==
  /\ Go(c, "notify", "idle")
  /\ Finish(c)
  /\ UNCHANGED <<morph, locks, mRunning, tvars>>

Notify(c) ==
  /\ Go(c, "notify", "idle")
  /\ Wake
  /\ Finish(c)
  /\ UNCHANGED <<morph, locks, mRunning, todo>>

\* recallPresetSynchronous(): the client sets the parameters itself.
Apply(c) ==
  /\ Go(c, "apply", "idle")
  /\ value' = [x \in Param |-> IF x \in DOMAIN target THEN target[x] ELSE value[x]]
  /\ Finish(c)
  /\ UNCHANGED <<remaining, target, locks, mRunning, tvars>>

\* Fault: the stop does not take the lock.
FaultStopWithoutLock(c) ==
  /\ Go(c, "stopping", IF op[c] = "stop" THEN "idle" ELSE "clear")
  /\ Wake
  /\ IF op[c] = "stop" THEN Finish(c) ELSE UNCHANGED <<call, hvars>>
  /\ UNCHANGED <<morph, locks, mRunning, todo>>

\* stopMorph() notifies with the lock held.
StopNotify(c) ==
  /\ targetLock = None
  /\ Go(c, "stopping", IF op[c] = "stop" THEN "idle" ELSE "clear")
  /\ Wake
  /\ IF op[c] = "stop" THEN Finish(c) ELSE UNCHANGED <<call, hvars>>
  /\ UNCHANGED <<morph, locks, mRunning, todo>>

\* ~PresetHandler(): mRunning = false, notify_all() without a lock ...
DestroyClear(c) ==
  /\ Go(c, "clear", "notifyEnd")
  /\ mRunning' = FALSE
  /\ UNCHANGED <<morph, locks, tvars, call, hvars>>

\* Fault: the thread is not notified.
FaultSilentDestroy(c) ==
  /\ Go(c, "notifyEnd", "morphLock")
  /\ UNCHANGED <<morph, locks, mRunning, tvars, call, hvars>>

DestroyNotify(c) ==
  /\ Go(c, "notifyEnd", "morphLock")
  /\ Wake
  /\ UNCHANGED <<morph, locks, mRunning, todo, call, hvars>>

\* ... mMorphLock.lock() ...
DestroyLock(c) ==
  /\ morphLock = None
  /\ Go(c, "morphLock", "join")
  /\ morphLock' = c
  /\ UNCHANGED <<morph, targetLock, mRunning, tvars, call, hvars>>

\* ... join() and unlock().
DestroyJoin(c) ==
  /\ tpc = "done"
  /\ Go(c, "join", "destroyed")
  /\ morphLock' = None
  /\ UNCHANGED <<morph, targetLock, mRunning, tvars, call, hvars>>

-----------------------------------------------------------------------------

Thread ==
  \/ ThreadStart
  \/ ThreadCheck
  \/ ThreadLock
  \/ ThreadWait
  \/ ThreadCount
  \/ \E x \in Param : ThreadSet(x)
  \/ ThreadRoundEnd

Request(c) ==
  \/ \E name \in {"recall", "morphTo", "synchronous"}, p \in Preset :
       Begin(c, name, <<p>>)
  \/ \E p, q \in Preset : Begin(c, "interpolate", <<p, q>>)
  \/ \E name \in Stopping : Begin(c, name, None)

Continue(c) ==
  \/ Cancel(c)
  \/ Interrupt(c)
  \/ Write(c)
  \/ \E rounds \in 0 .. MaxRounds : StoreSteps(c, rounds)
  \/ Notify(c)
  \/ Apply(c)
  \/ StopNotify(c)
  \/ DestroyClear(c)
  \/ DestroyNotify(c)
  \/ DestroyLock(c)
  \/ DestroyJoin(c)

Next ==
  \/ Thread
  \/ SpuriousWake
  \/ \E c \in Client : Request(c) \/ Continue(c)

Spec == Init /\ [][Next]_vars

\* The threads are scheduled; nobody is obliged to make a request, and the
\* condition variable is not obliged to wake anyone spuriously.
Fairness ==
  /\ WF_vars(Thread)
  /\ \A c \in Client : WF_vars(Continue(c))

FairSpec == Spec /\ Fairness

-----------------------------------------------------------------------------
(* Properties *)

Recalls == {"recall", "morphTo", "synchronous"}
Recalled(p) == last.op \in Recalls /\ last.arg = <<p>>
Interpolated(p, q) == last.op = "interpolate" /\ last.arg = <<p, q>>

\* The map mTargetValues is replaced without a lock while the morph thread reads
\* it in its rounds.  With one client the counter and the empty critical
\* section keep the two apart.
TargetsNotRaced == \A c \in Client : cpc[c] \in {"write", "apply"} => tpc # "round"

At(p) == \A x \in Stored[p] : value[x] = p

\* A recall whose rounds are over, whatever it interrupted and however the
\* differences were divided, has left each parameter exactly on the preset's
\* value (the step count is decremented before it divides: al_Preset.cpp:457).
MorphEndsOnTarget ==
  \A p \in Preset : Recalled(p) /\ remaining < 0 => At(p)

\* Once stopMorph() has returned no parameter moves until the next call.
StopHolds == [][last.op = "stop" => value' = value]_vars

\* A recall that found the morph thread asleep ends on the preset unless
\* another call comes.
RecallApplied ==
  \A p \in Preset : Recalled(p) /\ heard ~> ~ Recalled(p) \/ At(p)

\* Once its stopMorph() is over the destructor returns, unless its notification
\* comes between the thread's look at mRunning and its wait, or it takes
\* mMorphLock before the thread has reached its first line: then it waits for
\* ever.
NotificationMissed(c) == cpc[c] = "morphLock" /\ tpc \in {"lock", "wait"}
LockTakenFirst(c) == cpc[c] = "join" /\ tpc = "start"

DestructorReturns ==
  \A c \in Client :
    cpc[c] = "clear" ~> cpc[c] = "destroyed" \/ NotificationMissed(c) \/ LockTakenFirst(c)

-----------------------------------------------------------------------------
(* What the documentation says and TLC refutes: no configuration lists these. *)

\* al_Preset.hpp:109 "Recall a preset by name"
EveryRecallApplied == \A p \in Preset : Recalled(p) ~> ~ Recalled(p) \/ At(p)

\* al_Preset.hpp:139 "Set parameters to values interpolated between two
\* presets", even when the morph thread was asleep
InterpolationApplied ==
  \A p, q \in Preset : Interpolated(p, q) /\ heard ~>
     \/ ~ Interpolated(p, q)
     \/ \A x \in Stored[p] \cap Stored[q] : value[x] = Mix(p, q)

\* al_Preset.hpp:235 "To be able to trip and stop morphing at any time": a stop
\* that finds more than the last step of a morph left does not complete it.
StopLeavesValuesBetween ==
  [][\A c \in Client : op[c] = "stop" /\ arg[c] # None /\ arg[c][1] > 1 =>
       \A x \in Param : value'[x] # value[x] => value'[x] = Between]_vars

=============================================================================
