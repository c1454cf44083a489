---------------------------- MODULE SequenceRecorder ----------------------------
(***************************************************************************)
(* al::SequenceRecorder: a thread that appends a step each time the        *)
(* PresetHandler reports a new preset, and writes the steps to a file when *)
(* it is stopped or has recorded for mMaxRecordTime.                       *)
(*                                                                         *)
(* The mutex mSequenceLock is only held for the assignments of one step    *)
(* below and by the wait, so it needs no variable: the thread tests its    *)
(* flag, and reads the preset's name, outside of it.  Steps are counted:   *)
(* what one says (mPresetName as it is when read, and times) is left out.  *)
(* A file is the number of its steps; file 0 has the name asked for, file  *)
(* n + 1 the name with the suffix _n.                                      *)
(***************************************************************************)
EXTENDS Integers

CONSTANTS
  MaxSteps,      \* bound: mMaxRecordTime has passed by then
  MaxFiles,      \* bound: numbered files
  None           \* no file, no call

ASSUME NoneAssumption == None \notin Nat 
ASSUME BoundsAssumption == MaxSteps \in Nat /\ MaxFiles \in Nat

VARIABLES
  mRecording, mOverwrite,
  rpc,               \* the recorder thread, "none" without one
  timeUp,            \* mMaxRecordTime has passed
  steps,             \* the number of the thread's steps
  files, mLastSequenceName,
  op, cpc,           \* the client's call and where it is
  asked,             \* history: the overwrite argument of the recording
  changed,           \* history: the preset has changed since the last step
  woken              \* history: who woke the thread

flags == <<mRecording, mOverwrite>>
rvars == <<rpc, timeUp, steps>>
disk == <<files, mLastSequenceName>>
cvars == <<op, cpc>>
hvars == <<asked, changed, woken>>
vars == <<flags, rvars, disk, cvars, hvars>>

Init ==
  /\ mRecording = FALSE /\ mOverwrite = FALSE
  /\ rpc = "none" /\ timeUp = FALSE /\ steps = 0
  /\ files = [n \in 0..MaxFiles |-> None] /\ mLastSequenceName = None
  /\ op = None /\ cpc = "idle"
  /\ asked = FALSE /\ changed = FALSE /\ woken = None

Notify(who) == IF rpc = "asleep" THEN rpc' = "awake" /\ woken' = who
                                 ELSE UNCHANGED <<rpc, woken>>

-------------------------------------------------------------------------------
\* presetChanged(), on the thread that recalls a preset.
PresetChanged ==
  /\ Notify("change")
  /\ changed' = TRUE
  /\ UNCHANGED <<flags, timeUp, steps, disk, cvars, asked>>

-------------------------------------------------------------------------------
(***************************************************************************)
(* recorderFunction().                                                     *)
(***************************************************************************)
Thread(from, to) == rpc = from /\ rpc' = to

TimePasses ==
  /\ rpc # "none" /\ ~timeUp /\ timeUp' = TRUE
  /\ UNCHANGED <<flags, rpc, steps, disk, cvars, hvars>>

\* The flag and the time are only looked at here, once per change.
Loop ==
  /\ Thread("loop", IF mRecording /\ ~timeUp /\ steps < MaxSteps THEN "wait" ELSE "write")
  /\ UNCHANGED <<flags, timeUp, steps, disk, cvars, hvars>>

Wait ==
  /\ Thread("wait", "asleep")
  /\ UNCHANGED <<flags, timeUp, steps, disk, cvars, hvars>>

SpuriousWake ==
  /\ Thread("asleep", "awake") /\ woken' = "spurious"
  /\ UNCHANGED <<flags, timeUp, steps, disk, cvars, asked, changed>>

\* A plausible bug: the flag is not looked at again after the wait.
FaultNoRecheck ==
  /\ Thread("awake", "record")
  /\ UNCHANGED <<flags, timeUp, steps, disk, cvars, hvars>>

Awake ==
  /\ Thread("awake", IF mRecording THEN "record" ELSE "write")
  /\ UNCHANGED <<flags, timeUp, steps, disk, cvars, hvars>>

\* The name may have changed again, or not at all, since the notification.
Record ==
  /\ Thread("record", "loop")
  /\ steps' = steps + 1
  /\ changed' = FALSE
  /\ UNCHANGED <<flags, timeUp, disk, cvars, asked, woken>>

\* The first name that is not taken, or the plain one.
FileName ==
  IF mOverwrite THEN 0
  ELSE CHOOSE n \in 0..MaxFiles : /\ files[n] = None
                                  /\ \A m \in 0..n - 1 : files[m] # None

Write ==
  /\ Thread("write", "done")
  /\ \E opens \in BOOLEAN :
       IF opens /\ steps >= 2
       THEN /\ files' = [files EXCEPT ![FileName] = steps]
            /\ mLastSequenceName' = FileName
       ELSE UNCHANGED disk
  /\ UNCHANGED <<flags, timeUp, steps, cvars, hvars>>

RecorderStep == Loop \/ Wait \/ Awake \/ Record \/ Write

-------------------------------------------------------------------------------
(***************************************************************************)
(* startRecord() and stopRecord(), called by one thread.                   *)
(***************************************************************************)
Go(from, to) == cpc = from /\ cpc' = to

\* Plausible bugs: the new argument is stored before the old recording is
\* stopped; a thread that does not sleep is not joined.
FaultEarlyArgument(name) ==
  /\ Go("idle", IF rpc = "none" THEN "spawn" ELSE "clear") /\ op' = name
  /\ mOverwrite' \in BOOLEAN
  /\ UNCHANGED <<mRecording, rvars, disk, hvars>>

Call(name) ==
  /\ Go("idle", IF rpc = "none" THEN "spawn" ELSE "clear")
  /\ op' = name
  /\ UNCHANGED <<flags, rvars, disk, hvars>>

StopClear ==
  /\ Go("clear", "notify") /\ mRecording' = FALSE
  /\ UNCHANGED <<mOverwrite, rvars, disk, op, hvars>>

\* A plausible bug: nobody is notified.
FaultNoNotify == Go("notify", "join") /\ UNCHANGED <<flags, rvars, disk, op, hvars>>

StopNotify ==
  /\ Go("notify", "join") /\ Notify("stop")
  /\ UNCHANGED <<flags, timeUp, steps, disk, op, asked, changed>>

StopJoin ==
  /\ Go("join", "spawn") /\ Thread("done", "none")
  /\ steps' = 0 /\ timeUp' = FALSE
  /\ UNCHANGED <<flags, disk, op, hvars>>

Spawn(overwrite) ==
  /\ Go("spawn", "idle")
  /\ overwrite \/ files[MaxFiles] = None     \* bound
  /\ IF op = "start"
     THEN /\ mOverwrite' = overwrite /\ mRecording' = TRUE
          /\ rpc' = "loop"
          /\ asked' = overwrite /\ changed' = FALSE /\ woken' = None
     ELSE UNCHANGED <<flags, rpc, hvars>>
  /\ op' = None
  /\ UNCHANGED <<timeUp, steps, disk>>

Continue == StopClear \/ StopNotify \/ StopJoin \/ \E overwrite \in BOOLEAN : Spawn(overwrite)

Next ==
  \/ PresetChanged
  \/ TimePasses \/ RecorderStep \/ SpuriousWake
  \/ \E name \in {"start", "stop"} : Call(name)
  \/ Continue

Fairness == WF_vars(RecorderStep) /\ WF_vars(Continue)

Spec == Init /\ [][Next]_vars /\ Fairness

-------------------------------------------------------------------------------
\* A step stands for a change of preset since the step before it: the
\* notification of stopRecord(), and a name replaced between the notification
\* and its reading, do not record one twice.  Only a spurious wake-up does.
EveryStepIsAChange ==
  [][steps' > steps /\ woken # "spurious" => changed]_vars

\* A file once written is only replaced by a recording that was started with
\* overwrite, whatever the next recording asks for while this one is written.
EarlierFilesKept ==
  [][\A n \in 0..MaxFiles : files[n] # None /\ files'[n] # files[n] => asked /\ n = 0]_vars

\* stopRecord() returns when it finds the thread asleep; when it does not, its
\* notification is lost, and it returns as long as presets go on changing.
StopReturns ==
  /\ cpc = "notify" /\ rpc = "asleep" ~> cpc = "idle"
  /\ []<><<PresetChanged>>_vars => (cpc = "join" ~> cpc = "idle")
===============================================================================
