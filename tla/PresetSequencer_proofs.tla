------------------------ MODULE PresetSequencer_proofs ------------------------
(***************************************************************************)
(* Proofs about PresetSequencer for one client and any number of playback  *)
(* threads, whatever the sequences: there is one engine, and a stop leaves *)
(* the sequencer quiet.                                                    *)
(***************************************************************************)
EXTENDS PresetSequencer, TLAPS

\* The thread may still play, or has yet to clear mRunning.
Live(t) == MayPlay(t) \/ tpc[t] = "ending"
Stops == {"stop", "clear"} \cup Silent

-----------------------------------------------------------------------------
(* The inductive invariant, in parts, for the only client c *)

Shape ==
  /\ tpc = [t \in Thread |-> tpc[t]]
  /\ cpc = [c \in Client |-> cpc[c]] /\ op = [c \in Client |-> op[c]]
  /\ th = [c \in Client |-> th[c]] /\ last = [c \in Client |-> last[c]]

\* A live thread is the one the sequencer points to, or is being joined.
LiveIsKnown(c) ==
  \A t \in Thread : Live(t) =>
    t = mSequencerThread \/ (cpc[c] = "join" /\ th[c] = t)

\* How far a stop has got
StopProgress(c) ==
  /\ cpc[c] \in {"disable", "take", "join", "enable", "stopped"} => ~ mRunning
  /\ cpc[c] = "join" => mSequencerThread = None
  /\ cpc[c] \in {"enable", "stopped", "spawn"} => \A t \in Thread : ~ Live(t)
  /\ cpc[c] = "spawn" => mRunning

\* Unless a stop is on its way, a sequencer that does not run has no live thread.
IdleIsDead(c) ==
  \/ mRunning
  \/ cpc[c] \in {"disable", "take", "join"}
  \/ \A t \in Thread : ~ Live(t)

\* Only a thread that plays keeps a morph going.
MorphIsPlayed == morphing => \E t \in Thread : MayPlay(t)

\* The calls that set mRunning are not those that a stop is remembered by.
CallShape(c) ==
  /\ cpc[c] \in {"spawn", "waiting", "woken"} => op[c] = "play"
  /\ cpc[c] = "append" => op[c] = "append"
  /\ last[c] \in Stops => cpc[c] = "idle" /\ ~ mRunning /\ \A t \in Thread : ~ Live(t)

IInv(c) == /\ Shape /\ LiveIsKnown(c) /\ StopProgress(c)
           /\ IdleIsDead(c) /\ MorphIsPlayed /\ CallShape(c)

-----------------------------------------------------------------------------
(* The steps preserve the invariant *)

LEMMA InitIInv ==
  ASSUME NEW c \in Client, Init
  PROVE  IInv(c)
<1>1. \A t \in Thread : ~ Live(t)
  BY DEF Init, Live, MayPlay
<1>2. Shape /\ LiveIsKnown(c) /\ IdleIsDead(c) /\ MorphIsPlayed
  BY <1>1 DEF Init, Shape, LiveIsKnown, IdleIsDead, MorphIsPlayed
<1>3. StopProgress(c) /\ CallShape(c)
  BY <1>1 DEF Init, StopProgress, CallShape, Stops, Silent
<1> QED BY <1>2, <1>3 DEF IInv

LEMMA RunKeepsIInv ==
  ASSUME NEW c, Client = {c}, IInv(c), NEW t \in Thread, Run(t)
  PROVE  IInv(c)'
<1> USE NoneAssumption DEF IInv, Shape, LiveIsKnown, StopProgress, IdleIsDead, MorphIsPlayed, CallShape,
            Live, MayPlay, Step, flags, locks, locals, cvars, hvars
<1>1. CASE ThreadBegin(t)
  BY <1>1 DEF ThreadBegin
<1>2. CASE ThreadNotify(t)
  BY <1>2 DEF ThreadNotify, Waiting
<1>3. CASE ThreadLock(t)
  BY <1>3 DEF ThreadLock
<1>4. CASE StepStart(t)
  BY <1>4 DEF StepStart
<1>5. CASE HoldEnd(t)
  BY <1>5 DEF HoldEnd
<1>6. CASE EventReturn(t)
  BY <1>6 DEF EventReturn
<1>7. CASE StepPop(t)
  BY <1>7 DEF StepPop
<1>8. CASE LoopEnd(t)
  BY <1>8 DEF LoopEnd
<1>9. CASE ClearRunning(t)
  BY <1>9 DEF ClearRunning
<1>10. CASE ThreadUnlock(t)
  BY <1>10 DEF ThreadUnlock
<1>11. CASE EndCallback(t)
  BY <1>11 DEF EndCallback
<1>12. CASE ThreadEnd(t)
  BY <1>12 DEF ThreadEnd
<1> QED BY <1>1, <1>2, <1>3, <1>4, <1>5, <1>6,
            <1>7, <1>8, <1>9, <1>10, <1>11, <1>12 DEF Run

LEMMA CallKeepsIInv ==
  ASSUME NEW c, Client = {c}, IInv(c), NEW name, Call(c, name),
         name \in {"play", "stop", "stopSilently", "clear", "append", "destroy"}
  PROVE  IInv(c)'
BY DEF Call, Go, IInv, Shape, LiveIsKnown, StopProgress, IdleIsDead, MorphIsPlayed,
   CallShape, Live, MayPlay, Stops, Silent, flags, locks, locals, cvars, hvars

LEMMA ContinueKeepsIInv ==
  ASSUME NEW c, Client = {c}, IInv(c), Continue(c) \/ SpuriousWake(c)
  PROVE  IInv(c)'
<1> USE NoneAssumption DEF IInv, Shape, LiveIsKnown, StopProgress, IdleIsDead, MorphIsPlayed, CallShape,
            Live, MayPlay, Go, Stops, Silent, flags, locks, locals, cvars, hvars
<1>1. CASE Check(c)
  BY <1>1 DEF Check
<1>2. CASE Halt(c)
  BY <1>2 DEF Halt
<1>3. CASE Disable(c)
  BY <1>3 DEF Disable
<1>4. CASE Take(c)
  BY <1>4 DEF Take
<1>5. CASE Join(c)
  BY <1>5 DEF Join
<1>6. CASE Enable(c)
  BY <1>6 DEF Enable
<1>7. CASE StopReturn(c)
  BY <1>7 DEF StopReturn, Return
<1>8. CASE \E steps \in Sequences \cup {mSteps} : Load(c, steps)
  <2>1. PICK steps : Load(c, steps)
    BY <1>8
  <2> QED BY <2>1 DEF Load
<1>9. CASE \E t \in Thread : Spawn(c, t)
  <2>1. PICK t \in Thread : Spawn(c, t)
    BY <1>9
  <2>2. /\ \A s \in Thread : Live(s)' => s = t
        /\ MayPlay(t)'
    BY <2>1 DEF Spawn
  <2>3. /\ mSequencerThread' = t /\ cpc'[c] = "waiting" /\ op[c] = "play"
        /\ UNCHANGED <<mRunning, morphing, op, th, last>>
    BY <2>1 DEF Spawn
  <2>4. Shape' /\ LiveIsKnown(c)' /\ MorphIsPlayed'
    BY <2>1, <2>2, <2>3 DEF Spawn
  <2>5. StopProgress(c)' /\ CallShape(c)'
    BY <2>2, <2>3, <2>1 DEF Spawn
  <2>6. IdleIsDead(c)'
    BY <2>3, <2>1 DEF Spawn
  <2> QED BY <2>4, <2>5, <2>6
<1>10. CASE PlayReturn(c)
  BY <1>10 DEF PlayReturn, Return
<1>11. CASE ClearSteps(c)
  BY <1>11 DEF ClearSteps, Return
<1>12. CASE \E type \in {"PRESET", "EVENT"} : AppendStep(c, type)
  <2>1. PICK type : AppendStep(c, type)
    BY <1>12
  <2> QED BY <2>1 DEF AppendStep, Return
<1>13. CASE SpuriousWake(c)
  BY <1>13 DEF SpuriousWake
<1> QED BY <1>1, <1>2, <1>3, <1>4, <1>5, <1>6, <1>7,
            <1>8, <1>9, <1>10, <1>11, <1>12, <1>13 DEF Continue

LEMMA StepKeepsIInv ==
  ASSUME NEW c, Client = {c}, IInv(c), [Next]_vars
  PROVE  IInv(c)'
<1>1. CASE UNCHANGED vars
  BY <1>1 DEF vars, flags, locks, locals, cvars, hvars, IInv, Shape, LiveIsKnown,
     StopProgress, IdleIsDead, MorphIsPlayed, CallShape, Live, MayPlay
<1>2. ASSUME NEW t \in Thread, Run(t)
      PROVE  IInv(c)'
  BY <1>2, RunKeepsIInv
<1>3. ASSUME NEW name \in {"play", "stop", "stopSilently", "clear", "append", "destroy"},
             Call(c, name)
      PROVE  IInv(c)'
  BY <1>3, CallKeepsIInv
<1>4. CASE Continue(c) \/ SpuriousWake(c)
  BY <1>4, ContinueKeepsIInv
<1> QED BY <1>1, <1>2, <1>3, <1>4 DEF Next

LEMMA InvariantHolds ==
  ASSUME NEW CONSTANT c, Client = {c}
  PROVE  Spec => []IInv(c)
<1>1. Init => IInv(c)
  BY InitIInv
<1>2. IInv(c) /\ [Next]_vars => IInv(c)'
  BY StepKeepsIInv
<1> QED BY <1>1, <1>2, PTL DEF Spec

-----------------------------------------------------------------------------
(* The theorems *)

\* al_PresetSequencer.hpp:140 "There is a single sequencer engine": with one
\* client, no thread of an earlier play is still playing while the sequencer
\* runs, because stopSequence() has joined it (al_PresetSequencer.cpp:38-57).
THEOREM OneEngine ==
  ASSUME NEW CONSTANT c, Client = {c}
  PROVE  Spec => []SingleEngine
<1>1. IInv(c) => SingleEngine
  BY DEF IInv, LiveIsKnown, StopProgress, SingleEngine, Live
<1> QED BY <1>1, InvariantHolds, PTL

\* When stopSequence() has returned (al_PresetSequencer.cpp:38-57), even to a
\* caller that found mRunning false already, no thread plays and no morph of
\* the sequence goes on.
THEOREM StopIsQuiet ==
  ASSUME NEW CONSTANT c, Client = {c}
  PROVE  Spec => []QuietAfterStop
<1>1. IInv(c) => QuietAfterStop
  BY DEF IInv, CallShape, Stops, MorphIsPlayed, QuietAfterStop, Live
<1> QED BY <1>1, InvariantHolds, PTL

-----------------------------------------------------------------------------
(* Types, for any number of clients *)

\* A thread that is in its loop owns mSequenceLock, and while it plays a step
\* nobody takes the step away: this is what makes steps.pop() legal.
StepsAreLocked ==
  \A t \in Thread :
    /\ tpc[t] \in {"loop", "hold", "event", "pop", "ending", "unlock"} => mSequenceLock = t
    /\ tpc[t] \in {"hold", "event", "pop"} => mSteps # <<>>

Functions ==
  /\ saved = [c \in Client |-> saved[c]]
  /\ finished = [t \in Thread |-> finished[t]]

TInv == TypeOK /\ StepsAreLocked /\ Functions

LEMMA InitTInv == Init => TInv
<1> SUFFICES ASSUME Init
             PROVE  TInv
  OBVIOUS
<1>1. TypeOK
  <2>1. {saved[c] : c \in Client} \cup {finished[t] : t \in Thread} \subseteq BOOLEAN
    BY DEF Init
  <2>2. mSteps \in Seq({"PRESET", "EVENT"})
    BY DEF Init
  <2> QED BY <2>1, <2>2 DEF Init, TypeOK
<1>2. StepsAreLocked /\ Functions
  BY DEF Init, StepsAreLocked, Functions
<1> QED BY <1>1, <1>2 DEF TInv

LEMMA RunKeepsTInv ==
  ASSUME TInv, NEW t \in Thread, Run(t)
  PROVE  TInv'
<1> USE NoneAssumption DEF TInv, TypeOK, StepsAreLocked, Functions, Step, flags, locks, locals,
            cvars, hvars
<1>1. CASE ThreadBegin(t)
  BY <1>1 DEF ThreadBegin
<1>2. CASE ThreadNotify(t)
  BY <1>2 DEF ThreadNotify, Waiting
<1>3. CASE ThreadLock(t)
  BY <1>3 DEF ThreadLock
<1>4. CASE StepStart(t)
  BY <1>4 DEF StepStart, Playable
<1>5. CASE HoldEnd(t)
  BY <1>5 DEF HoldEnd
<1>6. CASE EventReturn(t)
  BY <1>6 DEF EventReturn
<1>7. CASE StepPop(t)
  BY <1>7 DEF StepPop
<1>8. CASE LoopEnd(t)
  BY <1>8 DEF LoopEnd, Playable
<1>9. CASE ClearRunning(t)
  BY <1>9 DEF ClearRunning
<1>10. CASE ThreadUnlock(t)
  BY <1>10 DEF ThreadUnlock
<1>11. CASE EndCallback(t)
  BY <1>11 DEF EndCallback
<1>12. CASE ThreadEnd(t)
  BY <1>12 DEF ThreadEnd
<1> QED BY <1>1, <1>2, <1>3, <1>4, <1>5, <1>6,
            <1>7, <1>8, <1>9, <1>10, <1>11, <1>12 DEF Run

LEMMA ContinueKeepsTInv ==
  ASSUME TInv, NEW c \in Client, Continue(c) \/ SpuriousWake(c)
  PROVE  TInv'
<1> USE NoneAssumption DEF TInv, TypeOK, StepsAreLocked, Functions, Go, flags, locks, locals,
            cvars, hvars
<1>1. CASE Check(c)
  BY <1>1 DEF Check
<1>2. CASE Halt(c)
  <2>1. cut' \in [Thread -> {"never", "early", "late"}]
    BY <1>2 DEF Halt
  <2>2. /\ mRunning' = FALSE /\ cpc' = [cpc EXCEPT ![c] = "disable"]
        /\ UNCHANGED <<mSteps, mSequencerThread, mEndCallbackEnabled, locks, morphing,
                       tpc, th, saved, finished>>
    BY <1>2 DEF Halt
  <2>3. StepsAreLocked' /\ Functions'
    BY <2>2
  <2>4. {saved[d] : d \in Client}' \cup {finished[t] : t \in Thread}' \subseteq BOOLEAN
    BY <2>2
  <2> QED BY <2>1, <2>2, <2>3, <2>4
<1>3. CASE Disable(c)
  <2>1. /\ \A d \in Client : saved'[d] \in BOOLEAN
        /\ saved' = [d \in Client |-> saved'[d]] /\ mEndCallbackEnabled' \in BOOLEAN
    BY <1>3 DEF Disable
  <2>2. /\ cpc' = [cpc EXCEPT ![c] = "take"]
        /\ UNCHANGED <<mSteps, mRunning, mSequencerThread, locks, morphing, tpc, th, hvars>>
    BY <1>3 DEF Disable
  <2> QED BY <2>1, <2>2
<1>4. CASE Take(c)
  BY <1>4 DEF Take
<1>5. CASE Join(c)
  <2>1. tpc' = [tpc EXCEPT ![th[c]] = "none"] /\ UNCHANGED <<mSteps, mSequenceLock>>
    BY <1>5 DEF Join
  <2>2. StepsAreLocked'
    BY <2>1
  <2>3. tpc' \in [Thread -> {"none", "start", "begin", "ready", "loop", "hold", "event", "pop",
                         "ending", "unlock", "unlocked", "callback", "done"}]
    BY <2>1
  <2>4. th' \in [Client -> Thread \cup {None}]
    BY <1>5 DEF Join
  <2> QED BY <1>5, <2>2, <2>3, <2>4 DEF Join
<1>6. CASE Enable(c)
  BY <1>6 DEF Enable
<1>7. CASE StopReturn(c)
  BY <1>7 DEF StopReturn, Return
<1>8. CASE \E steps \in Sequences \cup {mSteps} : Load(c, steps)
  <2>1. PICK steps \in Sequences \cup {mSteps} : Load(c, steps)
    BY <1>8
  <2> QED BY SequencesAssumption, <2>1 DEF Load
<1>9. CASE \E t \in Thread : Spawn(c, t)
  <2>1. PICK t \in Thread : Spawn(c, t)
    BY <1>9
  <2> QED BY <2>1 DEF Spawn, Gone
<1>10. CASE PlayReturn(c)
  BY <1>10 DEF PlayReturn, Return
<1>11. CASE ClearSteps(c)
  BY <1>11 DEF ClearSteps, Return
<1>12. CASE \E type \in {"PRESET", "EVENT"} : AppendStep(c, type)
  <2>1. PICK type \in {"PRESET", "EVENT"} : AppendStep(c, type)
    BY <1>12
  <2> QED BY <2>1 DEF AppendStep, Return
<1>13. CASE SpuriousWake(c)
  BY <1>13 DEF SpuriousWake
<1> QED BY <1>1, <1>2, <1>3, <1>4, <1>5, <1>6, <1>7,
            <1>8, <1>9, <1>10, <1>11, <1>12, <1>13 DEF Continue

LEMMA StepKeepsTInv == TInv /\ [Next]_vars => TInv'
<1> SUFFICES ASSUME TInv, [Next]_vars
             PROVE  TInv'
  OBVIOUS
<1>1. CASE UNCHANGED vars
  BY <1>1 DEF vars, flags, locks, locals, cvars, hvars, TInv, TypeOK, StepsAreLocked, Functions
<1>2. ASSUME NEW t \in Thread, Run(t)
      PROVE  TInv'
  BY <1>2, RunKeepsTInv
<1>3. ASSUME NEW c \in Client, NEW name, Call(c, name)
      PROVE  TInv'
  BY <1>3 DEF Call, Go, TInv, TypeOK, StepsAreLocked, Functions, flags, locks, hvars
<1>4. ASSUME NEW c \in Client, Continue(c) \/ SpuriousWake(c)
      PROVE  TInv'
  BY <1>4, ContinueKeepsTInv
<1> QED BY <1>1, <1>2, <1>3, <1>4 DEF Next

\* However many threads call the sequencer, its state stays well formed; in
\* particular the playback thread pops a step only from a sequence that has
\* one (al_PresetSequencer.cpp:198).
THEOREM TypeCorrect == Spec => []TypeOK
<1>1. TInv => TypeOK
  BY DEF TInv
<1> QED BY <1>1, InitTInv, StepKeepsTInv, PTL DEF Spec

=============================================================================
