-------------------------- MODULE PresetMorph_proofs --------------------------
(***************************************************************************)
(* Proofs about PresetMorph for one client and any parameters, presets and *)
(* morph lengths: the target map is not raced, a stopped morph holds, and  *)
(* one that is over has reached the preset.                                *)
(***************************************************************************)
EXTENDS PresetMorph, TLAPS

\* At most one thread uses the handler.
OneClient == \A c, d \in Client : c = d

-----------------------------------------------------------------------------
(* The inductive invariant, in parts *)

\* The morph thread holds mTargetLock exactly where it is not asleep or on
\* the way to the lock.
LockHeld ==
  /\ targetLock \in {None, Morph}
  /\ tpc \in {"wait", "count", "round"} => targetLock = Morph

\* What the place a client is at says about its call
Calls == Recalls \cup {"interpolate"} \cup Stopping

CallShape ==
  /\ cpc = [c \in Client |-> cpc[c]] /\ op = [c \in Client |-> op[c]]
  /\ \A c \in Client :
       /\ cpc[c] # "idle" => op[c] \in Calls
       /\ cpc[c] \in {"interrupt", "write", "store", "notify", "apply"} => op[c] \notin Stopping
       /\ last.op = "stop" => cpc[c] = "idle"

\* A client that is past its look at the counter has made the counter
\* negative, and nobody but a client makes it positive.
Cancelled ==
  /\ remaining \in Int
  /\ \A c \in Client :
       cpc[c] \in {"interrupt", "write", "store", "apply", "stopping"} => remaining < 0

\* A round goes on with a negative counter only while the client that has
\* interrupted it waits for the lock.
RoundIsWatched ==
  tpc = "round" =>
    \/ remaining >= 0
    \/ \E c \in Client : cpc[c] \in {"interrupt", "stopping"}

\* Nothing moves once a stop has returned.
StoppedQuietly == last.op = "stop" => remaining < 0 /\ tpc # "round"

IInv == LockHeld /\ CallShape /\ Cancelled /\ RoundIsWatched /\ StoppedQuietly

-----------------------------------------------------------------------------
(* The threads preserve the invariant *)

LEMMA InitIInv == Init => IInv
<1> SUFFICES ASSUME Init PROVE IInv
  OBVIOUS
<1>1. last.op = "none"
  BY DEF Init, NoCall
<1>2. CallShape
  BY <1>1 DEF Init, CallShape
<1>3. LockHeld /\ RoundIsWatched
  BY DEF Init, LockHeld, RoundIsWatched
<1>4. Cancelled /\ StoppedQuietly
  BY <1>1 DEF Init, Cancelled, StoppedQuietly
<1> QED BY <1>2, <1>3, <1>4 DEF IInv

LEMMA DecrementBounds ==
  ASSUME NEW n \in Int
  PROVE  /\ Decrement(n) \in Int
         /\ n < 0 => Decrement(n) < 0
         /\ n > 0 => Decrement(n) >= 0
BY BoundsAssumption DEF Decrement

LEMMA ThreadKeepsIInv ==
  ASSUME IInv, Thread \/ SpuriousWake
  PROVE  IInv'
<1> USE DEF IInv, LockHeld, CallShape, Cancelled, RoundIsWatched, StoppedQuietly,
            morph, locks, tvars, cvars, call, hvars
<1>1. CASE ThreadStart
  BY <1>1 DEF ThreadStart
<1>2. CASE ThreadCheck
  BY <1>2 DEF ThreadCheck
<1>3. CASE ThreadLock
  BY <1>3 DEF ThreadLock
<1>4. CASE ThreadWait
  BY <1>4 DEF ThreadWait
<1>5. CASE ThreadCount
  BY <1>5, DecrementBounds DEF ThreadCount
<1>6. CASE \E x \in Param : ThreadSet(x)
  BY <1>6 DEF ThreadSet
<1>7. CASE ThreadRoundEnd
  BY <1>7 DEF ThreadRoundEnd
<1>8. CASE SpuriousWake
  BY <1>8 DEF SpuriousWake
<1> QED BY <1>1, <1>2, <1>3, <1>4, <1>5, <1>6, <1>7, <1>8 DEF Thread

\* One client: whatever holds of the acting client holds of all.
LEMMA RequestKeepsIInv ==
  ASSUME OneClient, IInv, NEW c \in Client, Request(c)
  PROVE  IInv'
<1>1. PICK name, a : name \in Calls /\ Begin(c, name, a)
  BY DEF Request, Calls, Recalls
<1>2. /\ op' = [op EXCEPT ![c] = name]
      /\ cpc[c] = "idle"
      /\ cpc' = [cpc EXCEPT ![c] = IF remaining >= 0 THEN "cancel"
                                   ELSE IF name \in Stopping THEN "stopping" ELSE "write"]
      /\ last' = NoCall
      /\ UNCHANGED <<remaining, targetLock, tpc>>
  BY <1>1 DEF Begin, Go, morph, locks, tvars
<1>3. last'.op # "stop"
  BY <1>2 DEF NoCall
<1>4. \A d \in Client : d = c
  BY DEF OneClient
<1>5. LockHeld' /\ StoppedQuietly'
  BY <1>2, <1>3 DEF IInv, LockHeld, StoppedQuietly
<1>6. CallShape'
  BY <1>1, <1>2, <1>3, <1>4 DEF IInv, CallShape, Calls, Recalls, Stopping
<1>7. Cancelled' /\ RoundIsWatched'
  BY <1>2, <1>4 DEF IInv, CallShape, Cancelled, RoundIsWatched
<1> QED BY <1>5, <1>6, <1>7 DEF IInv

LEMMA ContinueKeepsIInv ==
  ASSUME OneClient, IInv, NEW c \in Client, Continue(c)
  PROVE  IInv'
<1>0. \A d \in Client : d = c
  BY DEF OneClient
<1> USE <1>0 DEF IInv, LockHeld, CallShape, Cancelled, RoundIsWatched, StoppedQuietly,
            morph, locks, tvars, cvars, call, hvars, Go, Calls, Recalls, Stopping
<1>1. CASE Cancel(c)
  BY <1>1 DEF Cancel
<1>2. CASE Interrupt(c)
  BY <1>2, NoneAssumption DEF Interrupt
<1>3. CASE Write(c)
  BY <1>3 DEF Write
<1>4. CASE \E rounds \in 0 .. MaxRounds : StoreSteps(c, rounds)
  BY <1>4, BoundsAssumption DEF StoreSteps
<1>5. CASE Notify(c)
  BY <1>5 DEF Notify, Wake, Finish
<1>6. CASE Apply(c)
  BY <1>6 DEF Apply, Finish
<1>7. CASE StopNotify(c)
  BY <1>7, NoneAssumption DEF StopNotify, Wake, Finish
<1>8. CASE DestroyClear(c)
  BY <1>8 DEF DestroyClear
<1>9. CASE DestroyNotify(c)
  BY <1>9 DEF DestroyNotify, Wake
<1>10. CASE DestroyLock(c)
  BY <1>10 DEF DestroyLock
<1>11. CASE DestroyJoin(c)
  BY <1>11 DEF DestroyJoin
<1> QED BY <1>1, <1>2, <1>3, <1>4, <1>5, <1>6, <1>7, <1>8, <1>9, <1>10, <1>11 DEF Continue

LEMMA StepKeepsIInv ==
  ASSUME OneClient, IInv, [Next]_vars
  PROVE  IInv'
<1>1. CASE Next
  BY <1>1, ThreadKeepsIInv, RequestKeepsIInv, ContinueKeepsIInv DEF Next
<1>2. CASE UNCHANGED vars
  BY <1>2 DEF vars, morph, locks, tvars, cvars, call, hvars, IInv, LockHeld, CallShape,
     Cancelled, RoundIsWatched, StoppedQuietly
<1> QED BY <1>1, <1>2

LEMMA InvariantHolds ==
  ASSUME OneClient
  PROVE  Spec => []IInv
<1>1. Init => IInv
  BY InitIInv
<1>2. IInv /\ [Next]_vars => IInv'
  BY StepKeepsIInv
<1> QED BY <1>1, <1>2, PTL DEF Spec

-----------------------------------------------------------------------------
(* The theorems *)

\* recallPreset() and its relatives replace mTargetValues without a lock
\* (al_Preset.cpp:158); with one client the morph thread never reads the map
\* meanwhile.
THEOREM TargetsSafe ==
  ASSUME OneClient
  PROVE  Spec => []TargetsNotRaced
<1>1. IInv => TargetsNotRaced
  BY DEF OneClient, IInv, Cancelled, RoundIsWatched, TargetsNotRaced
<1> QED BY <1>1, InvariantHolds, PTL

\* Between the return of stopMorph() (al_Preset.cpp:310-321) and the next call
\* no parameter moves, whatever the morph was doing and however many rounds
\* it had left.
THEOREM StopIsFinal ==
  ASSUME OneClient
  PROVE  Spec => StopHolds
<1>1. IInv /\ [Next]_vars => [last.op = "stop" => value' = value]_vars
  <2> SUFFICES ASSUME IInv, Next, last.op = "stop"
               PROVE  value' = value
    BY DEF vars, morph
  <2> USE DEF morph
  <2>1. CASE Thread \/ SpuriousWake
    <3>1. tpc # "round"
      BY DEF IInv, StoppedQuietly
    <3> QED BY <2>1, <3>1 DEF Thread, SpuriousWake, ThreadStart, ThreadCheck, ThreadLock,
               ThreadWait, ThreadCount, ThreadSet, ThreadRoundEnd
  <2>2. ASSUME NEW c \in Client, Request(c)
        PROVE  value' = value
    BY <2>2 DEF Request, Begin
  <2>3. ASSUME NEW c \in Client, Continue(c)
        PROVE  value' = value
    <3>1. cpc[c] = "idle"
      BY DEF IInv, CallShape
    <3> QED BY <2>3, <3>1 DEF Continue, Go, Cancel, Interrupt, Write, StoreSteps, Notify,
               Apply, StopNotify, DestroyClear, DestroyNotify, DestroyLock, DestroyJoin
  <2> QED BY <2>1, <2>2, <2>3 DEF Next
<1> QED BY <1>1, InvariantHolds, PTL DEF Spec, StopHolds

-----------------------------------------------------------------------------
(* A morph ends on its target. *)

\* The values and the round are over the parameters; nothing is left to set
\* outside a round.
RoundShape ==
  /\ value = [x \in Param |-> value[x]]
  /\ todo \subseteq Param
  /\ tpc # "round" => todo = {}

\* A call works on its presets, and is the latest as long as it runs.
CallData ==
  /\ arg = [c \in Client |-> arg[c]]
  /\ \A c \in Client :
       /\ cpc[c] # "idle" => last = NoCall
       /\ cpc[c] # "idle" /\ op[c] \in Recalls => \E p \in Preset : arg[c] = <<p>>
       /\ cpc[c] \in {"store", "apply"} =>
            op[c] \in Recalls /\ target = Load(arg[c][1])

\* The parameters are on their way to p: a recall of p has stored its steps,
\* or is over.
Requested(p) ==
  \E c \in Client : cpc[c] = "notify" /\ op[c] \in Recalls /\ arg[c] = <<p>>
Aimed(p) == Recalled(p) \/ Requested(p)

\* The round that finds the counter at zero is the last one: what it has set is
\* on the preset, and when the counter is negative all of it has been set.
LastRoundArrives ==
  \A p \in Preset : Aimed(p) =>
    /\ target = Load(p)
    /\ remaining <= 0 => \A x \in Stored[p] \ todo : value[x] = p
    /\ remaining < 0 => tpc # "round"

EndInv == RoundShape /\ CallData /\ LastRoundArrives

LEMMA InitEndInv == Init => EndInv
<1> SUFFICES ASSUME Init PROVE EndInv
  OBVIOUS
<1>1. \A p \in Preset : ~ Aimed(p)
  BY DEF Init, Aimed, Recalled, Requested, Recalls, NoCall
<1> QED
  BY <1>1 DEF Init, EndInv, RoundShape, CallData, LastRoundArrives

LEMMA ThreadKeepsEndInv ==
  ASSUME IInv, EndInv, Thread \/ SpuriousWake
  PROVE  EndInv'
<1> USE DEF EndInv, RoundShape, CallData, LastRoundArrives, Aimed, Recalled,
            Requested, Load, morph, locks, tvars, cvars, call, hvars
<1>1. CASE ThreadStart
  BY <1>1 DEF ThreadStart
<1>2. CASE ThreadCheck
  BY <1>2 DEF ThreadCheck
<1>3. CASE ThreadLock
  BY <1>3 DEF ThreadLock
<1>4. CASE ThreadWait
  BY <1>4 DEF ThreadWait
<1>5. CASE ThreadCount
  <2>1. /\ remaining' = Decrement(remaining)
        /\ remaining \in Int
        /\ tpc = "count"
        /\ UNCHANGED <<value, target, cpc, op, arg, last>>
    BY <1>5 DEF ThreadCount, IInv, Cancelled
  <2>2. CASE remaining > 0
    <3>1. tpc' = "round" /\ todo' = Param /\ remaining' >= 0 /\ remaining' \in Int
      BY <1>5, <2>1, <2>2, DecrementBounds DEF ThreadCount
    <3> QED BY <2>1, <3>1, StoredAssumption
  <2>3. CASE ~(remaining > 0)
    <3>1. tpc' = "check" /\ todo' = todo /\ remaining <= 0
      BY <1>5, <2>1, <2>3 DEF ThreadCount
    <3> QED BY <2>1, <3>1
  <2> QED BY <2>2, <2>3
<1>6. ASSUME NEW x \in Param, ThreadSet(x)
      PROVE  EndInv'
  <2>1. /\ tpc = "round" /\ tpc' = tpc /\ x \in todo
        /\ todo' = todo \ {x}
        /\ value' = IF x \in DOMAIN target THEN [value EXCEPT ![x] = Moved(x)] ELSE value
        /\ UNCHANGED <<remaining, target, cpc, op, arg, last>>
    BY <1>6 DEF ThreadSet
  <2>2. RoundShape'
    BY <2>1
  <2>3. CallData'
    BY <2>1
  <2>4. LastRoundArrives'
    <3> SUFFICES ASSUME NEW p \in Preset, Aimed(p)
                 PROVE  /\ target = Load(p)
                        /\ remaining <= 0 => \A y \in Stored[p] \ todo' : value'[y] = p
                        /\ ~ (remaining < 0)
      BY <2>1
    <3>1. target = Load(p) /\ ~ (remaining < 0)
      BY <2>1
    <3>2. ASSUME remaining <= 0, NEW y \in Stored[p] \ todo'
          PROVE  value'[y] = p
      <4>1. CASE y = x
        <5>1. x \in DOMAIN target /\ target[x] = p
          BY <3>1, <3>2, <4>1
        <5>2. Moved(x) = p
          BY <3>2, <5>1 DEF Moved, IInv, Cancelled
        <5> QED BY <2>1, <4>1, <5>1, <5>2
      <4>2. CASE y # x
        BY <2>1, <3>2, <4>2
      <4> QED BY <4>1, <4>2
    <3> QED BY <3>1, <3>2
  <2> QED BY <2>2, <2>3, <2>4
<1>7. CASE ThreadRoundEnd
  BY <1>7 DEF ThreadRoundEnd
<1>8. CASE SpuriousWake
  BY <1>8 DEF SpuriousWake
<1> QED BY <1>1, <1>2, <1>3, <1>4, <1>5, <1>6, <1>7, <1>8 DEF Thread

LEMMA RequestKeepsEndInv ==
  ASSUME OneClient, IInv, EndInv, NEW c \in Client, Request(c)
  PROVE  EndInv'
<1>1. PICK name, a :
        /\ name \in Calls
        /\ name \in Recalls => \E p \in Preset : a = <<p>>
        /\ Begin(c, name, a)
  BY DEF Request, Calls, Recalls, Stopping
<1>2. /\ op' = [op EXCEPT ![c] = name]
      /\ arg' = [arg EXCEPT ![c] = a]
      /\ cpc' = [cpc EXCEPT ![c] = IF remaining >= 0 THEN "cancel"
                                   ELSE IF name \in Stopping THEN "stopping" ELSE "write"]
      /\ last' = NoCall
      /\ UNCHANGED <<value, target, remaining, tpc, todo>>
  BY <1>1 DEF Begin, Go, morph, locks, tvars
<1>3. \A d \in Client : d = c
  BY DEF OneClient
<1>4. /\ op'[c] = name /\ arg'[c] = a
      /\ cpc'[c] \in {"cancel", "stopping", "write"}
  BY <1>2 DEF IInv, CallShape, EndInv, CallData
<1>5. \A p : ~ Aimed(p)'
  BY <1>2, <1>3, <1>4 DEF Aimed, Recalled, Requested, Recalls, NoCall
<1>6. CallData'
  BY <1>1, <1>2, <1>3, <1>4 DEF EndInv, CallData
<1>7. RoundShape' /\ LastRoundArrives'
  BY <1>2, <1>5 DEF EndInv, RoundShape, LastRoundArrives
<1> QED BY <1>6, <1>7 DEF EndInv

LEMMA ContinueKeepsEndInv ==
  ASSUME OneClient, IInv, EndInv, NEW c \in Client, Continue(c)
  PROVE  EndInv'
<1>1. \A d \in Client : d = c
  BY DEF OneClient
<1>2. cpc[c] # "idle" /\ last = NoCall
  BY DEF Continue, Cancel, Interrupt, Write, StoreSteps, Notify, Apply, StopNotify,
         DestroyClear, DestroyNotify, DestroyLock, DestroyJoin, Go, EndInv, CallData
<1>3. \A p : ~ Recalled(p)
  BY <1>2 DEF Recalled, Recalls, NoCall
<1> USE <1>1, <1>2, <1>3
    DEF EndInv, RoundShape, CallData, LastRoundArrives, Aimed, Recalled, Requested,
        Load, morph, locks, tvars, cvars, call, hvars, Go, NoCall
<1>4. CASE Cancel(c)
  <2>1. cpc'[c] \in {"stopping", "interrupt"} /\ last' = last
    BY <1>4 DEF Cancel, IInv, CallShape
  <2> QED BY <1>4, <2>1 DEF Cancel, IInv, CallShape, Stopping, Recalls
<1>5. CASE Interrupt(c)
  BY <1>5 DEF Interrupt, IInv, CallShape
<1>6. CASE Write(c)
  <2>1. /\ cpc[c] = "write" /\ op[c] \notin Stopping /\ op[c] \in Calls
        /\ cpc' = [cpc EXCEPT ![c] =
                     CASE op[c] \in {"recall", "morphTo"} -> "store"
                       [] op[c] = "interpolate" -> "notify"
                       [] op[c] = "synchronous" -> "apply"]
        /\ UNCHANGED <<value, remaining, tpc, todo, op, arg, last>>
    BY <1>6 DEF Write, IInv, CallShape
  <2>2. CASE op[c] = "interpolate"
    <3>1. cpc'[c] = "notify"
      BY <2>1, <2>2 DEF IInv, CallShape
    <3> QED BY <2>1, <2>2, <3>1 DEF Recalls
  <2>3. CASE op[c] \in Recalls
    <3>1. cpc'[c] \in {"store", "apply"}
      BY <2>1, <2>3 DEF IInv, CallShape, Recalls
    <3>2. target' = Load(arg[c][1])
      BY <1>6, <2>3 DEF Write, Recalls
    <3> QED BY <2>1, <2>3, <3>1, <3>2
  <2> QED BY <2>1, <2>2, <2>3 DEF Calls
<1>7. CASE \E rounds \in 0 .. MaxRounds : StoreSteps(c, rounds)
  BY <1>7, BoundsAssumption DEF StoreSteps, IInv, CallShape
<1>8. CASE Notify(c)
  BY <1>8 DEF Notify, Wake, Finish, IInv, CallShape
<1>9. CASE Apply(c)
  <2>1. /\ cpc[c] = "apply" /\ cpc'[c] = "idle" /\ op[c] \in Recalls
        /\ arg' = [arg EXCEPT ![c] = None]
        /\ last' = [op |-> op[c], arg |-> arg[c]]
        /\ value' = [x \in Param |-> IF x \in DOMAIN target THEN target[x] ELSE value[x]]
        /\ UNCHANGED <<remaining, target, tpc, todo>>
    BY <1>9 DEF Apply, Finish, IInv, CallShape
  <2>2. PICK p \in Preset : arg[c] = <<p>>
    BY <2>1
  <2>3. target = Load(p) /\ last'.arg = <<p>>
    BY <2>1, <2>2
  <2>4. tpc # "round"
    BY <2>1 DEF IInv, Cancelled, RoundIsWatched
  <2>5. \A x \in Stored[p] : value'[x] = p
    BY <2>1, <2>3, StoredAssumption
  <2>6. \A q \in Preset : Aimed(q)' => q = p
    BY <2>1, <2>3
  <2>7. RoundShape' /\ CallData'
    BY <2>1
  <2>8. LastRoundArrives'
    BY <2>1, <2>3, <2>4, <2>5, <2>6
  <2> QED BY <2>7, <2>8
<1>10. CASE StopNotify(c)
  BY <1>10 DEF StopNotify, Wake, Finish, IInv, CallShape, Stopping, Recalls
<1>11. CASE DestroyClear(c)
  BY <1>11 DEF DestroyClear, IInv, CallShape
<1>12. CASE DestroyNotify(c)
  BY <1>12 DEF DestroyNotify, Wake, IInv, CallShape
<1>13. CASE DestroyLock(c)
  BY <1>13 DEF DestroyLock, IInv, CallShape
<1>14. CASE DestroyJoin(c)
  BY <1>14 DEF DestroyJoin, IInv, CallShape
<1> QED BY <1>4, <1>5, <1>6, <1>7, <1>8, <1>9, <1>10, <1>11, <1>12, <1>13, <1>14 DEF Continue

\* With one client a recall whose rounds are over has left every parameter
\* exactly on the preset's value (al_Preset.cpp:457-476), whatever it has
\* interrupted, however many rounds it took and whoever woke the thread.
THEOREM MorphsArrive ==
  ASSUME OneClient
  PROVE  Spec => []MorphEndsOnTarget
<1>1. Init => IInv /\ EndInv
  BY InitIInv, InitEndInv
<1>2. IInv /\ EndInv /\ [Next]_vars => IInv' /\ EndInv'
  <2> SUFFICES ASSUME IInv, EndInv, [Next]_vars PROVE EndInv'
    BY StepKeepsIInv
  <2>1. CASE Next
    BY <2>1, ThreadKeepsEndInv, RequestKeepsEndInv, ContinueKeepsEndInv DEF Next
  <2>2. CASE UNCHANGED vars
    BY <2>2 DEF vars, morph, locks, tvars, cvars, call, hvars, EndInv, RoundShape,
       CallData, LastRoundArrives, Aimed, Recalled, Requested, Load
  <2> QED BY <2>1, <2>2
<1>3. IInv /\ EndInv => MorphEndsOnTarget
  BY DEF IInv, Cancelled, EndInv, RoundShape, LastRoundArrives, Aimed,
         MorphEndsOnTarget, At
<1> QED BY <1>1, <1>2, <1>3, PTL DEF Spec

=============================================================================
