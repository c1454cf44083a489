--------------------------- MODULE PresetTools_proofs ---------------------------
(***************************************************************************)
(* Proofs about three tools around the presets, for any number of          *)
(* threads, listeners, files and steps: the Composition, which this module *)
(* extends; the SequenceRecorder, as the instance Recorder; and the        *)
(* ParameterServer, as the instance Server.  Variables that have the same  *)
(* name in two of them (op, cpc, steps) are declared once: a theorem is    *)
(* about one of the three.                                                 *)
(***************************************************************************)
EXTENDS Composition, WellFoundedInduction, TLAPS

CONSTANTS MaxSteps, MaxFiles
VARIABLES mRecording, mOverwrite, rpc, timeUp, files, mLastSequenceName, asked, changed,
          woken

Recorder == INSTANCE SequenceRecorder

CONSTANTS Threads, Listener, MaxStores
VARIABLES mValue, mValueCache, mMutex, mListenerLock, mOSCSenders, heard, pc, value,
          unsent, begun

Server == INSTANCE ParameterServer WITH Caller <- Threads

-------------------------------------------------------------------------------
(* The composition *)

PlayerState == {"none", "play", "ended", "report"}

PlaybackTypes ==
  /\ running \in BOOLEAN /\ endEnabled \in BOOLEAN /\ overtaken \in BOOLEAN
  /\ player \in [Player -> PlayerState]
  /\ endCallback \in {"user", "composition"} /\ cache \in {"user", "composition"}
  /\ reports \in Nat

\* Where a call is says which call it is, and whether the thread is gone.
CallPlaces ==
  /\ cpc \in {"stop", "join", "halt", "wait"} => op \in {"play", "stop", "archive"}
  /\ cpc \in {"load", "spawn", "asleep", "awake"} => op = "play"
  /\ cpc \in {"halt", "wait", "relabel", "load", "spawn"} => tpc = "none"

Plays(p) == player[p] = "play"

\* The sequencer plays on the thread it points to, or is being joined with it.
OneEngine ==
  /\ \A p \in Player : Plays(p) => engine = p /\ (running \/ tpc = "join" \/ cpc = "wait")
  /\ running => \E p \in Player : Plays(p)
  /\ tpc = "join" \/ cpc = "wait" => ~running
  /\ cpc \in {"load", "spawn"} \/ tpc \in {"begin", "lock", "start"}
       => \A p \in Player : ~Plays(p)

OnlyOne == \E p \in Player : /\ player[p] # "none"
                             /\ \A q \in Player : player[q] # "none" => q = p

Busy == {"lock", "loop", "play", "join", "start", "branch", "register", "report"}

\* Unless a sequence ended in a window of the end callbacks: the composition's
\* callback is registered only while the last sequence is on its way to it, the
\* user's is the one kept, and nothing is reported before the end.
EndsOnce ==
  ~overtaken =>
    /\ cache = "user"
    /\ endCallback = "composition" => endEnabled /\ OnlyOne
    /\ \A p \in Player : player[p] = "report" => endCallback = "composition"
    /\ tpc \in Busy => endCallback = "user" /\ reports = 0
    /\ tpc \in {"enable", "done"} /\ steps > 0
         => reports = IF endCallback = "user" THEN 1 ELSE 0
    /\ tpc = "done" /\ steps > 0 => endEnabled

PlaybackInv == PlaybackTypes /\ CallPlaces /\ OneEngine /\ EndsOnce

LEMMA PlaybackBegins == Init => PlaybackInv
<1> SUFFICES ASSUME Init PROVE PlaybackInv
  OBVIOUS
<1> USE DEF Init
<1>1. PlaybackTypes /\ CallPlaces
  BY DEF PlaybackTypes, PlayerState, CallPlaces
<1>2. OneEngine /\ EndsOnce
  BY DEF OneEngine, EndsOnce, Plays, Busy
<1> QED BY <1>1, <1>2 DEF PlaybackInv

\* A sequence ends, and its thread deals with the callback.
LEMMA SequencerStepKeeps ==
  ASSUME PlaybackInv, NEW p \in Player,
         \/ SequenceEnd(p) \/ LookAtCallback(p)
         \/ waitForSequencerCallback(p)
  PROVE  PlaybackInv'
<1> USE DEF SequenceEnd, LookAtCallback, waitForSequencerCallback, callbacks, tvars,
            cvars, hvars
<1>1. UNCHANGED <<engine, tpc, cpc, op, steps, overtaken, cache, endEnabled>>
  OBVIOUS
<1>2. PlaybackTypes' /\ CallPlaces'
  <2>1. player' \in [Player -> PlayerState]
    BY DEF PlaybackInv, PlaybackTypes, PlayerState
  <2>2. /\ running' = running \/ running' = FALSE
        /\ endCallback' = endCallback \/ endCallback' = cache
        /\ reports' = reports \/ reports' = reports + 1
    OBVIOUS
  <2>3 PlaybackTypes'
    <3>1. reports' \in Nat
      BY <1>1, <2>1, <2>2 DEF PlaybackInv, PlaybackTypes
    <3> QED BY <1>1, <2>1, <2>2, <3>1, Zenon DEF PlaybackInv, PlaybackTypes
  <2>4. CallPlaces'
    BY <1>1 DEF PlaybackInv, CallPlaces
  <2> QED BY <2>3, <2>4
<1>3. OneEngine'
  BY DEF PlaybackInv, PlaybackTypes, PlayerState, OneEngine, Plays
<1>4. EndsOnce'
  <2>1. CASE SequenceEnd(p)
    BY <2>1 DEF PlaybackInv, PlaybackTypes, PlayerState, EndsOnce, OnlyOne, Busy
  <2>2. CASE LookAtCallback(p)
    BY <2>2 DEF PlaybackInv, PlaybackTypes, PlayerState, EndsOnce, OnlyOne, Busy
  <2>3. CASE waitForSequencerCallback(p)
    BY <2>3 DEF PlaybackInv, PlaybackTypes, PlayerState, EndsOnce, OnlyOne, Busy
  <2> QED BY <2>1, <2>2, <2>3
<1> QED BY <1>2, <1>3, <1>4 DEF PlaybackInv


\* The playback thread's steps that do not start or stop a sequence
LEMMA ThreadStepKeeps ==
  ASSUME PlaybackInv,
         \/ ThreadEmpty \/ ThreadLock \/ ThreadHold
         \/ ThreadUnlock \/ ThreadBranch \/ ThreadReport
         \/ ThreadEnable
  PROVE  PlaybackInv'
<1> USE DEF ThreadEmpty, ThreadLock, ThreadHold, ThreadUnlock, ThreadBranch,
            ThreadReport, ThreadEnable, Step, seqvars, callbacks, cvars, hvars
<1>1. UNCHANGED <<running, engine, player, cpc, op, steps, overtaken, endCallback>>
  OBVIOUS
<1>2. PlaybackTypes' /\ CallPlaces'
  <2>1. /\ cache' = cache \/ cache' = endCallback
        /\ endEnabled' = endEnabled \/ endEnabled' = TRUE
        /\ reports' = reports \/ reports' = reports + 1
    OBVIOUS
  <2>2 PlaybackTypes'
    <3>1. reports' \in Nat
      BY <1>1, <2>1 DEF PlaybackInv, PlaybackTypes
    <3> QED BY <1>1, <2>1, <3>1, Zenon DEF PlaybackInv, PlaybackTypes
  <2>3. tpc # "none"
    OBVIOUS
  <2>4. CallPlaces'
    BY <1>1, <2>3 DEF PlaybackInv, CallPlaces
  <2> QED BY <2>2, <2>4
<1>3. OneEngine'
  BY DEF PlaybackInv, OneEngine, Plays
<1>4. EndsOnce'
  <2>1. OnlyOne' = OnlyOne
    BY <1>1 DEF OnlyOne
  <2>2. CASE ThreadEmpty
    BY <1>1, <2>1, <2>2 DEF PlaybackInv, EndsOnce, Busy
  <2>3. CASE ThreadLock
    BY <1>1, <2>1, <2>3 DEF PlaybackInv, EndsOnce, Busy
  <2>4. CASE ThreadHold \/ ThreadUnlock \/ ThreadBranch
    BY <1>1, <2>1, <2>4 DEF PlaybackInv, EndsOnce, Busy
  <2>5. CASE ThreadReport
    BY <1>1, <2>1, <2>5 DEF PlaybackInv, EndsOnce, Busy
  <2>6. CASE ThreadEnable
    BY <1>1, <2>1, <2>6 DEF PlaybackInv, EndsOnce, Busy
  <2> QED BY <2>2, <2>3, <2>4, <2>5, <2>6
<1> QED BY <1>2, <1>3, <1>4 DEF PlaybackInv

\* It turns the callbacks off: no sequence plays, and if one is in its end
\* callback the end may be reported twice or never.
LEMMA ThreadBeginKeeps ==
  ASSUME PlaybackInv, ThreadBegin
  PROVE  PlaybackInv'
<1> USE DEF ThreadBegin, Step, seqvars
<1>1. UNCHANGED <<running, engine, player, op, steps, endCallback, cache>>
  OBVIOUS
<1>2. PlaybackTypes' /\ CallPlaces'
  BY DEF PlaybackInv, PlaybackTypes, CallPlaces
<1>3. OneEngine'
  BY DEF PlaybackInv, OneEngine, Plays
<1>4. EndsOnce'
  <2> SUFFICES ASSUME ~overtaken' PROVE EndsOnce'
    BY DEF EndsOnce
  <2>1. ~overtaken /\ ~Ending
    OBVIOUS
  <2>2. \A p \in Player : player[p] = "none"
    BY <2>1 DEF PlaybackInv, PlaybackTypes, PlayerState, OneEngine, Plays, Ending
  <2>3. cache = "user" /\ endCallback = "user"
    BY <2>1, <2>2 DEF PlaybackInv, PlaybackTypes, EndsOnce, OnlyOne
  <2> QED BY <1>1, <2>2, <2>3 DEF EndsOnce, Busy
<1> QED BY <1>2, <1>3, <1>4 DEF PlaybackInv

\* It registers the composition's callback while the last sequence plays, and
\* no other thread of the sequencer does anything.
LEMMA ThreadRegisterKeeps ==
  ASSUME PlaybackInv, ThreadRegister
  PROVE  PlaybackInv'
<1> USE DEF ThreadRegister, Step, seqvars, cvars
<1>1. UNCHANGED <<running, engine, player, op, cpc, steps, cache, reports>>
  OBVIOUS
<1>2. PlaybackTypes' /\ CallPlaces'
  BY DEF PlaybackInv, PlaybackTypes, CallPlaces
<1>3. OneEngine'
  BY DEF PlaybackInv, OneEngine, Plays
<1>4. EndsOnce'
  <2> SUFFICES ASSUME ~overtaken' PROVE EndsOnce'
    BY DEF EndsOnce
  <2>1. ~overtaken /\ running /\ ~Ending
    OBVIOUS
  <2>2. PICK p \in Player : Plays(p)
    BY <2>1 DEF PlaybackInv, OneEngine
  <2>3. \A q \in Player : player[q] # "none" => Plays(q)
    BY <2>1 DEF PlaybackInv, PlaybackTypes, PlayerState, Plays, Ending
  <2>4. \A q \in Player : Plays(q) => q = p
    BY <2>2 DEF PlaybackInv, OneEngine
  <2>5. OnlyOne'
    BY <1>1, <2>2, <2>3, <2>4 DEF OnlyOne, Plays
  <2>6. cache = "user" /\ reports = 0
    BY <2>1 DEF PlaybackInv, EndsOnce, Busy
  <2> QED BY <1>1, <2>1, <2>3, <2>5, <2>6 DEF EndsOnce, Busy, Plays
<1> QED BY <1>2, <1>3, <1>4 DEF PlaybackInv

\* A sequence is halted, waited for and replaced by the next one.
LEMMA ThreadPlayKeeps ==
  ASSUME PlaybackInv, ThreadHalt \/ ThreadJoin \/ ThreadStart
  PROVE  PlaybackInv'
<1> USE DEF Step, callbacks, cvars, hvars
<1>1. UNCHANGED <<endCallback, endEnabled, cache, steps, op, cpc, reports, overtaken>>
  BY DEF ThreadHalt, ThreadJoin, ThreadStart
<1>2. CASE ThreadHalt
  <2>1. /\ tpc = "play" /\ tpc' = (IF running THEN "join" ELSE "start")
        /\ running' = FALSE /\ UNCHANGED <<engine, player>>
    BY <1>2 DEF ThreadHalt, Halt, seqvars, PlaybackInv, PlaybackTypes
  <2>2. PlaybackTypes' /\ CallPlaces'
    BY <1>1, <2>1 DEF PlaybackInv, PlaybackTypes, CallPlaces
  <2>3. OneEngine'
    BY <1>1, <2>1 DEF PlaybackInv, CallPlaces, OneEngine, Plays
  <2>4. EndsOnce'
    BY <1>1, <2>1 DEF PlaybackInv, EndsOnce, OnlyOne, Busy
  <2> QED BY <2>2, <2>3, <2>4 DEF PlaybackInv
<1>3. CASE ThreadJoin
  <2>1. /\ tpc = "join" /\ tpc' = "start" /\ UNCHANGED <<running, engine, player>>
        /\ \A p \in Player : ~Plays(p)
    BY <1>3 DEF ThreadJoin, Joined, seqvars, PlaybackInv, OneEngine, Plays
  <2>2. PlaybackTypes' /\ CallPlaces'
    BY <1>1, <2>1 DEF PlaybackInv, PlaybackTypes, CallPlaces
  <2>3. OneEngine'
    BY <1>1, <2>1 DEF PlaybackInv, CallPlaces, OneEngine, Plays
  <2>4. EndsOnce'
    BY <1>1, <2>1 DEF PlaybackInv, EndsOnce, OnlyOne, Busy
  <2> QED BY <2>2, <2>3, <2>4 DEF PlaybackInv
<1>4. CASE ThreadStart
  <2>1. PICK p \in Player : StartSequence(p)
    BY <1>4 DEF ThreadStart
  <2>2. /\ tpc = "start" /\ tpc' = "loop" /\ running' = TRUE /\ engine' = p
        /\ player' = [player EXCEPT ![p] = "play"]
    BY <1>4, <2>1 DEF ThreadStart, StartSequence
  <2>3. PlaybackTypes' /\ CallPlaces'
    BY <1>1, <2>2 DEF PlaybackInv, PlaybackTypes, PlayerState, CallPlaces
  <2>4. OneEngine'
    <3>1. \A q \in Player : Plays(q)' <=> q = p
      BY <2>2 DEF PlaybackInv, PlaybackTypes, OneEngine, Plays
    <3> QED BY <1>1, <2>2, <3>1 DEF PlaybackInv, CallPlaces, OneEngine
  <2>5. EndsOnce'
    BY <1>1, <2>2 DEF PlaybackInv, PlaybackTypes, EndsOnce, Busy
  <2> QED BY <2>3, <2>4, <2>5 DEF PlaybackInv
<1> QED BY <1>2, <1>3, <1>4


\* The calls that leave the sequencer alone
LEMMA CallsKeep ==
  ASSUME PlaybackInv,
         \/ \E name \in {"play", "stop"} : Call(name, "stop")
         \/ \E name \in {"archive", "size", "getStep"} : Call(name, "lock")
         \/ StopThread \/ StopJoin \/ ArchiveLock
         \/ ArchiveLoad \/ PlayLoad \/ PlaySpawn
         \/ SpuriousWake \/ PlayReturn \/ Size
         \/ \E i \in {0, 1} : GetStep(i)
  PROVE  PlaybackInv'
<1> USE DEF Call, StopThread, StopJoin, ArchiveLock, ArchiveLoad, PlayLoad, PlaySpawn,
            SpuriousWake, PlayReturn, Size, GetStep, Go, Return, seqvars, callbacks,
            tvars, hvars
<1>1. /\ UNCHANGED <<running, engine, player, reports, overtaken>>
      /\ UNCHANGED <<endCallback, endEnabled, cache>>
  OBVIOUS
<1>2. PlaybackTypes'
  BY <1>1, Zenon DEF PlaybackInv, PlaybackTypes
<1>3. CallPlaces'
  BY DEF PlaybackInv, CallPlaces
<1>4. \/ tpc' = tpc
      \/ tpc = "done" /\ tpc' = "none"
      \/ tpc = "none" /\ tpc' = "begin" /\ cpc = "spawn"
  BY DEF PlaybackInv, CallPlaces
<1>5. steps' = steps \/ (tpc = "none" /\ tpc' = "none")
  BY DEF PlaybackInv, CallPlaces
<1>6. /\ cpc' \in {"load", "spawn"} => cpc = "load"
      /\ cpc' # "wait" /\ cpc # "wait"
  OBVIOUS
<1>7. OneEngine'
  BY <1>1, <1>4, <1>6 DEF PlaybackInv, OneEngine, Plays
<1>8. EndsOnce'
  <2>1. OnlyOne' = OnlyOne
    BY <1>1 DEF OnlyOne
  <2> QED BY <1>1, <1>4, <1>5, <2>1 DEF PlaybackInv, EndsOnce, Busy
<1> QED BY <1>2, <1>3, <1>7, <1>8 DEF PlaybackInv

\* A call stops the sequencer, which is silent when the call goes on.
LEMMA StopKeeps ==
  ASSUME PlaybackInv, StopSequence \/ StopReturn
  PROVE  PlaybackInv'
<1> USE DEF Go, Return, callbacks, tvars, hvars
<1>1. /\ UNCHANGED <<player, endCallback, endEnabled, cache, steps, tpc>>
      /\ UNCHANGED <<reports, overtaken>>
  BY DEF StopSequence, StopReturn, Halt, seqvars
<1>2. PlaybackTypes'
  <2>1. running' = running \/ running' = FALSE
    BY DEF StopSequence, StopReturn, Halt, seqvars
  <2> QED BY <1>1, <2>1, Zenon DEF PlaybackInv, PlaybackTypes
<1>3. EndsOnce'
  <2>1. OnlyOne' = OnlyOne
    BY <1>1 DEF OnlyOne
  <2> QED BY <1>1, <2>1 DEF PlaybackInv, EndsOnce
<1>4. CASE StopSequence
  <2>1. /\ cpc = "halt" /\ cpc' = "wait" /\ op' = op /\ tpc = "none"
        /\ running' = FALSE
        /\ \A p \in Player : Plays(p) => engine' = p
    BY <1>4 DEF StopSequence, Halt, PlaybackInv, PlaybackTypes, CallPlaces, OneEngine
  <2>2. CallPlaces' /\ OneEngine'
    BY <1>1, <2>1 DEF PlaybackInv, CallPlaces, OneEngine, Plays
  <2> QED BY <1>2, <1>3, <2>2 DEF PlaybackInv
<1>5. CASE StopReturn
  <2>1. /\ cpc = "wait" /\ tpc = "none" /\ ~running /\ \A p \in Player : ~Plays(p)
        /\ cpc' \in {"idle", "load", "relabel"} /\ UNCHANGED <<running, engine>>
        /\ cpc' = "load" => op' = "play"
    BY <1>5 DEF StopReturn, Joined, seqvars, PlaybackInv, CallPlaces, OneEngine, Plays
  <2>2. CallPlaces' /\ OneEngine'
    BY <1>1, <2>1 DEF CallPlaces, OneEngine, Plays
  <2> QED BY <1>2, <1>3, <2>2 DEF PlaybackInv
<1> QED BY <1>4, <1>5

LEMMA PlaybackGoesOn == PlaybackInv /\ [Next]_(vars) => PlaybackInv'
<1>1. ASSUME PlaybackInv, UNCHANGED vars PROVE PlaybackInv'
  BY <1>1, Zenon DEF vars, seqvars, callbacks, tvars, cvars, hvars, PlaybackInv,
                     PlaybackTypes, CallPlaces, OneEngine, EndsOnce, OnlyOne, Plays
<1> QED BY <1>1, SequencerStepKeeps, ThreadStepKeeps, ThreadBeginKeeps, ThreadRegisterKeeps,
           ThreadPlayKeeps, CallsKeep, StopKeeps
        DEF Next, SequencerStep, ThreadStep, Request, Continue

LEMMA PlaybackAlways == Spec => []PlaybackInv
BY PlaybackBegins, PlaybackGoesOn, PTL DEF Spec

\* Whoever reports it, the playback thread or the sequencer, the end of a
\* composition is reported once, and the user's end callback is back in place,
\* unless a sequence ends in a window that the code leaves open.
THEOREM EndReportedOnce == Spec => []EndIsReported
<1>1. PlaybackInv => EndIsReported
  BY DEF PlaybackInv, PlaybackTypes, EndsOnce, OnlyOne, EndIsReported, Silent
<1> QED BY <1>1, PlaybackAlways, PTL

\* stop() returns with nothing playing: neither the playback thread nor a
\* sequence, also one that the thread started while it was being stopped.
THEOREM CompositionStops == Spec => QuietAfterStop
<1>1. PlaybackInv /\ [Next]_(vars)
        => [op = "stop" /\ cpc' = "idle" /\ cpc # "idle"
             => tpc = "none" /\ ~running
                  /\ \A p \in Player : player[p] # "play"]_(vars)
  <2> SUFFICES ASSUME PlaybackInv, Next, op = "stop", cpc' = "idle", cpc # "idle"
               PROVE  tpc = "none" /\ ~running /\ \A p \in Player : player[p] # "play"
    OBVIOUS
  <2>1. cpc = "wait" /\ Joined
    <3>1. StopReturn
      BY DEF PlaybackInv, CallPlaces, Next, SequencerStep, SequenceEnd,
             LookAtCallback, waitForSequencerCallback, ThreadStep, ThreadEmpty,
             ThreadBegin, ThreadLock, ThreadHold, ThreadHalt, ThreadJoin, ThreadStart,
             ThreadUnlock, ThreadBranch, ThreadRegister, ThreadReport, ThreadEnable,
             Request, Call, Continue, StopThread, StopJoin, StopSequence, ArchiveLock,
             ArchiveLoad, PlayLoad, PlaySpawn, SpuriousWake, PlayReturn, Size,
             GetStep, Go, Return, cvars
    <3> QED BY <3>1 DEF StopReturn
  <2> QED BY <2>1 DEF Joined, PlaybackInv, CallPlaces, OneEngine, Plays
<1> QED BY <1>1, PlaybackAlways, PTL DEF Spec, QuietAfterStop

-------------------------------------------------------------------------------
(* The recorder *)

File == 0 .. MaxFiles

RecorderTypes ==
  /\ mOverwrite \in BOOLEAN /\ steps \in Nat
  /\ files \in [File -> Nat \cup {None}]

\* From the moment at which a stop clears the flag until the thread is joined,
\* nothing sets it again.
StopGoesThrough ==
  /\ cpc \in {"notify", "join"} => ~mRecording
  /\ cpc = "spawn" => rpc = "none"

\* Why the thread is awake, and that a stop lets it record no more
WokenBy ==
  rpc \in {"awake", "record"} =>
    /\ woken \in {"change", "stop", "spurious"}
    /\ woken = "change" => changed
    /\ woken = "stop" => ~mRecording /\ rpc = "awake"

\* A recording that may not overwrite has a name left for its file.
NameIsLeft ==
  /\ mOverwrite = asked
  /\ rpc \notin {"none", "done"} /\ ~mOverwrite => files[MaxFiles] = None

RecorderInv == RecorderTypes /\ StopGoesThrough /\ WokenBy /\ NameIsLeft

LEMMA RecorderBegins ==
  ASSUME MaxFiles \in Nat
  PROVE  Recorder!Init => RecorderInv
<1> SUFFICES ASSUME Recorder!Init PROVE RecorderInv
  OBVIOUS
<1>1. RecorderTypes
  BY DEF Recorder!Init, RecorderTypes, File
<1>2. StopGoesThrough /\ WokenBy
  BY DEF Recorder!Init, StopGoesThrough, WokenBy
<1>3. NameIsLeft
  BY DEF Recorder!Init, NameIsLeft
<1> QED BY <1>1, <1>2, <1>3 DEF RecorderInv

\* The name found is one that no file has.
LEMMA FileNameIsFree ==
  ASSUME MaxFiles \in Nat, RecorderInv, rpc = "write", ~mOverwrite
  PROVE  Recorder!FileName \in File /\ files[Recorder!FileName] = None
<1> DEFINE T == {n \in File : files[n] = None}
           R == {ss \in Nat \X Nat : ss[1] < ss[2]}
<1>1. T \subseteq Nat /\ MaxFiles \in T
  BY DEF RecorderInv, NameIsLeft, File
<1>2. IsWellFoundedOn(R, Nat)
  BY NatLessThanWellFounded DEF OpToRel
<1> HIDE DEF T, R
<1>3. PICK n \in T : \A m \in T : ~ (<<m, n>> \in R)
  BY <1>1, <1>2, WFMin
<1>4. n \in File /\ files[n] = None
  BY <1>3 DEF T
<1>5. ASSUME NEW m \in 0 .. n - 1 PROVE files[m] # None
  <2>1. m \in File /\ m \in Nat /\ n \in Nat /\ m < n
    BY <1>4 DEF File
  <2>2. m \notin T
    BY <1>3, <2>1 DEF R
  <2> QED BY <2>1, <2>2 DEF T
<1>6. \E k \in 0 .. MaxFiles : files[k] = None /\ \A m \in 0 .. k - 1 : files[m] # None
  BY <1>4, <1>5 DEF File
<1> QED BY <1>6 DEF Recorder!FileName, File

LEMMA WriteKeeps ==
  ASSUME MaxFiles \in Nat, RecorderInv, Recorder!Write
  PROVE  /\ RecorderInv'
         /\ \A n \in File : files'[n] # files[n] /\ files[n] # None => asked /\ n = 0
<1>1. /\ rpc = "write" /\ rpc' = "done"
      /\ UNCHANGED <<mRecording, mOverwrite, timeUp, steps, op, cpc, asked, changed, woken>>
      /\ files' = files \/ files' = [files EXCEPT ![Recorder!FileName] = steps]
  BY DEF Recorder!Write, Recorder!Thread, Recorder!disk, Recorder!flags,
         Recorder!cvars, Recorder!hvars
<1>2. /\ Recorder!FileName \in File
      /\ files[Recorder!FileName] = None \/ (Recorder!FileName = 0 /\ asked)
  <2>1. CASE mOverwrite
    BY <2>1 DEF Recorder!FileName, File, RecorderInv, NameIsLeft
  <2>2. CASE ~mOverwrite
    BY <1>1, <2>2, FileNameIsFree
  <2> QED BY <2>1, <2>2 DEF RecorderInv, RecorderTypes
<1>3. RecorderTypes'
  BY <1>1, <1>2 DEF RecorderInv, RecorderTypes
<1>4. StopGoesThrough' /\ WokenBy' /\ NameIsLeft'
  BY <1>1 DEF RecorderInv, StopGoesThrough, WokenBy, NameIsLeft
<1>5. \A n \in File : files'[n] # files[n] /\ files[n] # None => asked /\ n = 0
  BY <1>1, <1>2 DEF RecorderInv, RecorderTypes
<1> QED BY <1>3, <1>4, <1>5 DEF RecorderInv

\* The other steps of the thread, and what wakes it
LEMMA ThreadKeeps ==
  ASSUME RecorderInv,
         \/ Recorder!PresetChanged \/ Recorder!TimePasses \/ Recorder!Loop
         \/ Recorder!Wait \/ Recorder!Awake \/ Recorder!SpuriousWake
  PROVE  RecorderInv'
<1> USE DEF RecorderInv, Recorder!Thread, Recorder!Notify, Recorder!flags,
            Recorder!rvars, Recorder!disk, Recorder!cvars, Recorder!hvars
<1>1. UNCHANGED <<mRecording, mOverwrite, steps, files, cpc, asked>>
  BY DEF Recorder!PresetChanged, Recorder!TimePasses, Recorder!Loop, Recorder!Wait,
         Recorder!Awake, Recorder!SpuriousWake
<1>2. rpc' \in {"none", "done"} <=> rpc \in {"none", "done"}
  BY DEF Recorder!PresetChanged, Recorder!TimePasses, Recorder!Loop, Recorder!Wait,
         Recorder!Awake, Recorder!SpuriousWake
<1>3. rpc = "none" => rpc' = "none"
  BY DEF Recorder!PresetChanged, Recorder!TimePasses, Recorder!Loop, Recorder!Wait,
         Recorder!Awake, Recorder!SpuriousWake
<1>4. WokenBy'
  BY DEF WokenBy, Recorder!PresetChanged, Recorder!TimePasses, Recorder!Loop,
         Recorder!Wait, Recorder!Awake, Recorder!SpuriousWake
<1>5. RecorderTypes' /\ StopGoesThrough' /\ NameIsLeft'
  BY <1>1, <1>2, <1>3 DEF RecorderTypes, StopGoesThrough, NameIsLeft
<1> QED BY <1>4, <1>5

LEMMA RecordKeeps ==
  ASSUME RecorderInv, Recorder!Record
  PROVE  RecorderInv' /\ (woken # "spurious" => changed)
BY DEF Recorder!Record, RecorderInv, RecorderTypes, StopGoesThrough, WokenBy,
       NameIsLeft, Recorder!Thread, Recorder!flags, Recorder!disk, Recorder!cvars

LEMMA CallKeeps ==
  ASSUME RecorderInv,
         \/ \E name \in {"start", "stop"} : Recorder!Call(name)
         \/ Recorder!StopClear \/ Recorder!StopNotify \/ Recorder!StopJoin
  PROVE  RecorderInv'
<1> USE DEF RecorderInv, Recorder!Go, Recorder!Thread, Recorder!Notify,
            Recorder!flags, Recorder!rvars, Recorder!disk, Recorder!hvars
<1>1. UNCHANGED <<mOverwrite, files, asked>> /\ steps' \in {0, steps}
  BY DEF Recorder!Call, Recorder!StopClear, Recorder!StopNotify, Recorder!StopJoin
<1>2. rpc' \notin {"none", "done"} => rpc \notin {"none", "done"}
  BY DEF Recorder!Call, Recorder!StopClear, Recorder!StopNotify, Recorder!StopJoin
<1>3. StopGoesThrough'
  BY DEF StopGoesThrough, Recorder!Call, Recorder!StopClear, Recorder!StopNotify,
         Recorder!StopJoin
<1>4. WokenBy'
  BY DEF WokenBy, StopGoesThrough, Recorder!Call, Recorder!StopClear,
         Recorder!StopNotify, Recorder!StopJoin
<1>5. RecorderTypes' /\ NameIsLeft'
  BY <1>1, <1>2 DEF RecorderTypes, NameIsLeft
<1> QED BY <1>3, <1>4, <1>5

LEMMA SpawnKeeps ==
  ASSUME RecorderInv, NEW overwrite \in BOOLEAN, Recorder!Spawn(overwrite)
  PROVE  RecorderInv'
<1> USE DEF RecorderInv, Recorder!Go, Recorder!flags, Recorder!rvars, Recorder!disk,
            Recorder!hvars
<1>1. RecorderTypes' /\ StopGoesThrough' /\ WokenBy'
  BY DEF RecorderTypes, StopGoesThrough, WokenBy, Recorder!Spawn
<1>2. NameIsLeft'
  BY DEF NameIsLeft, StopGoesThrough, Recorder!Spawn
<1> QED BY <1>1, <1>2

LEMMA RecorderGoesOn ==
  ASSUME MaxFiles \in Nat
  PROVE  RecorderInv /\ [Recorder!Next]_(Recorder!vars) => RecorderInv'
<1>1. ASSUME RecorderInv, UNCHANGED Recorder!vars PROVE RecorderInv'
  BY <1>1 DEF Recorder!vars, Recorder!flags, Recorder!rvars, Recorder!disk,
              Recorder!cvars, Recorder!hvars, RecorderInv, RecorderTypes,
              StopGoesThrough, WokenBy, NameIsLeft
<1> QED BY <1>1, WriteKeeps, ThreadKeeps, RecordKeeps, CallKeeps, SpawnKeeps
   DEF Recorder!Next, Recorder!RecorderStep, Recorder!Continue

LEMMA RecorderAlways ==
  ASSUME MaxFiles \in Nat
  PROVE  Recorder!Spec => []RecorderInv
BY RecorderBegins, RecorderGoesOn, PTL DEF Recorder!Spec

\* No change of preset is recorded twice, and a stop records nothing: only a
\* spurious wake-up makes a step without one (al_SequenceRecorder.cpp:123).
THEOREM StepsAreChanges ==
  ASSUME MaxFiles \in Nat
  PROVE  Recorder!Spec => Recorder!EveryStepIsAChange
<1>1. RecorderInv /\ [Recorder!Next]_(Recorder!vars)
        => [steps' > steps /\ woken # "spurious" => changed]_(Recorder!vars)
  <2> SUFFICES ASSUME RecorderInv, Recorder!Next, steps' > steps, woken # "spurious"
               PROVE  changed
    OBVIOUS
  <2>1. Recorder!Record
    BY DEF Recorder!Next, Recorder!RecorderStep, Recorder!Continue,
           Recorder!PresetChanged, Recorder!TimePasses, Recorder!Loop, Recorder!Wait,
           Recorder!Awake, Recorder!Write, Recorder!SpuriousWake, Recorder!Call,
           Recorder!StopClear, Recorder!StopNotify, Recorder!StopJoin, Recorder!Spawn,
           Recorder!rvars, RecorderInv, RecorderTypes
  <2> QED BY <2>1, RecordKeeps
<1> QED BY <1>1, RecorderAlways, PTL DEF Recorder!Spec, Recorder!EveryStepIsAChange

\* A file is only replaced by a recording started with overwrite: a call that
\* comes while the thread still writes does not lend it its own argument.
THEOREM FilesAreKept ==
  ASSUME MaxFiles \in Nat
  PROVE  Recorder!Spec => Recorder!EarlierFilesKept
<1> DEFINE Kept == \A n \in 0 .. MaxFiles :
                     files[n] # None /\ files'[n] # files[n] => asked /\ n = 0
<1>1. RecorderInv /\ [Recorder!Next]_(Recorder!vars) => [Kept]_(Recorder!vars)
  <2> SUFFICES ASSUME RecorderInv, Recorder!Next PROVE Kept
    OBVIOUS
  <2>1. files' = files \/ Recorder!Write
    BY DEF Recorder!Next, Recorder!RecorderStep, Recorder!Continue,
           Recorder!PresetChanged, Recorder!TimePasses, Recorder!Loop, Recorder!Wait,
           Recorder!Awake, Recorder!Record, Recorder!SpuriousWake, Recorder!Call,
           Recorder!StopClear, Recorder!StopNotify, Recorder!StopJoin, Recorder!Spawn,
           Recorder!disk
  <2>2. CASE Recorder!Write
    BY <2>2, WriteKeeps DEF File
  <2> QED BY <2>1, <2>2
<1> QED BY <1>1, RecorderAlways, PTL DEF Recorder!Spec, Recorder!EarlierFilesKept

-------------------------------------------------------------------------------
(* The parameter server *)

ServerTypes ==
  /\ mValue \in Int /\ mValueCache \in Int
  /\ mOSCSenders \subseteq Listener
  /\ heard \in [Listener -> Int]
  /\ pc \in [Threads -> {"idle", "lock", "store", "get", "cache", "return", "notify", "send"}]
  /\ value \in [Threads -> Int]
  /\ unsent \in [Threads -> SUBSET Listener]

\* The lock of the listeners is held by the thread that sends, and by one only.
SenderHasLock ==
  /\ \A t \in Threads : t \in mListenerLock <=> pc[t] = "send"
  /\ mListenerLock \subseteq Threads
  /\ \A t, u \in mListenerLock : t = u

\* What a notification has sent so far, and a listener that was never added.
SentSoFar ==
  /\ \A t \in Threads : pc[t] = "send" =>
       /\ unsent[t] \subseteq mOSCSenders
       /\ \A l \in mOSCSenders \ unsent[t] : heard[l] = value[t]
  /\ \A l \in Listener \ mOSCSenders : heard[l] = -1

\* The cached value is not newer than the stored one, nor older than any that
\* a thread got.
NothingNewerThanStored ==
  /\ mValueCache <= mValue
  /\ \A t \in Threads : value[t] <= mValueCache

ServerInv ==
  /\ ServerTypes /\ SenderHasLock /\ SentSoFar /\ NothingNewerThanStored
  /\ Server!ListenersAgree

-------------------------------------------------------------------------------
LEMMA ServerBegins == Server!Init => ServerInv
BY DEF Server!Init, ServerInv, ServerTypes, SenderHasLock, SentSoFar,
       NothingNewerThanStored, Server!ListenersAgree

\* The steps that neither send nor touch the lock of the listeners.
LEMMA ParameterStep ==
  ASSUME ServerInv, NEW t \in Threads,
         \/ \E name \in {"get", "set", "setNoCalls", "setSilently"} : Server!Call(t, name)
         \/ Server!StoreLock(t) \/ Server!Store(t) \/ Server!TryLock(t)
         \/ Server!Cache(t) \/ Server!Get(t)
  PROVE  ServerInv'
<1>1. \/ \E name \in {"get", "set", "setNoCalls", "setSilently"} : Server!Call(t, name)
      \/ Server!StoreLock(t) \/ Server!Store(t) \/ Server!TryLock(t)
         \/ Server!Cache(t) \/ Server!Get(t)
  OBVIOUS
<1>2. /\ UNCHANGED <<Server!notifier, unsent>>
      /\ \A u \in Threads : pc[u] = "send" <=> pc'[u] = "send"
  BY <1>1 DEF ServerInv, ServerTypes, Server!Call, Server!StoreLock, Server!Store,
              Server!TryLock, Server!Cache, Server!Get, Server!Go, Server!notifier
<1>3. \A u \in Threads : pc[u] = "send" => value'[u] = value[u]
  BY <1>1 DEF ServerInv, ServerTypes, Server!Call, Server!StoreLock, Server!Store,
              Server!TryLock, Server!Cache, Server!Get, Server!Go
<1>4. ServerTypes'
  BY <1>1 DEF ServerInv, ServerTypes, Server!Call, Server!StoreLock, Server!Store,
              Server!TryLock, Server!Cache, Server!Get, Server!Go, Server!notifier,
              Server!parameter
<1>5. SenderHasLock' /\ Server!ListenersAgree'
  BY <1>2 DEF ServerInv, SenderHasLock, Server!ListenersAgree, Server!notifier
<1>6. SentSoFar'
  BY <1>2, <1>3 DEF ServerInv, SentSoFar, Server!notifier
<1>7. NothingNewerThanStored'
  BY <1>1 DEF ServerInv, ServerTypes, NothingNewerThanStored, Server!Call,
              Server!StoreLock, Server!Store, Server!TryLock, Server!Cache, Server!Get,
              Server!Go, Server!parameter
<1> QED BY <1>4, <1>5, <1>6, <1>7 DEF ServerInv

\* A notification begins with every listener unsent.
LEMMA NotifyLockStep ==
  ASSUME ServerInv, NEW t \in Threads, Server!NotifyLock(t)
  PROVE  ServerInv'
<1>1. UNCHANGED <<mValue, mValueCache, mOSCSenders, heard, value>>
  BY DEF Server!NotifyLock, Server!parameter
<1>2. /\ mListenerLock = {} /\ mListenerLock' = {t}
      /\ \A u \in Threads : pc'[u] = IF u = t THEN "send" ELSE pc[u]
      /\ \A u \in Threads : unsent'[u] = IF u = t THEN mOSCSenders ELSE unsent[u]
  BY DEF Server!NotifyLock, Server!Go, ServerInv, ServerTypes
<1>3. ServerTypes'
  BY <1>1 DEF Server!NotifyLock, Server!Go, ServerInv, ServerTypes
<1>4. SenderHasLock'
  BY <1>2 DEF ServerInv, SenderHasLock
<1>5. SentSoFar'
  BY <1>1, <1>2 DEF ServerInv, SentSoFar
<1>6. Server!ListenersAgree' /\ NothingNewerThanStored'
  BY <1>1, <1>2 DEF ServerInv, Server!ListenersAgree, NothingNewerThanStored
<1> QED BY <1>3, <1>4, <1>5, <1>6 DEF ServerInv

\* Only the thread that holds the lock sends.
LEMMA SendStep ==
  ASSUME ServerInv, NEW t \in Threads, NEW l \in Listener, Server!Send(t, l)
  PROVE  ServerInv'
<1>1. UNCHANGED <<mValue, mValueCache, mListenerLock, mOSCSenders, pc, value>>
  BY DEF Server!Send, Server!parameter
<1>2. /\ \A m \in Listener : heard'[m] = IF m = l THEN value[t] ELSE heard[m]
      /\ \A u \in Threads : unsent'[u] = IF u = t THEN unsent[u] \ {l} ELSE unsent[u]
      /\ pc[t] = "send" /\ l \in unsent[t]
  BY DEF Server!Send, ServerInv, ServerTypes
<1>3. ServerTypes'
  BY <1>1 DEF Server!Send, ServerInv, ServerTypes
<1>4. SenderHasLock' /\ NothingNewerThanStored'
  BY <1>1 DEF ServerInv, SenderHasLock, NothingNewerThanStored
<1>5. \A u \in Threads : pc[u] = "send" => u = t
  BY <1>2 DEF ServerInv, SenderHasLock
<1>6. SentSoFar'
  BY <1>1, <1>2, <1>5 DEF ServerInv, ServerTypes, SentSoFar
<1>7. Server!ListenersAgree'
  BY <1>1, <1>2 DEF ServerInv, SenderHasLock, Server!ListenersAgree
<1> QED BY <1>3, <1>4, <1>6, <1>7 DEF ServerInv

\* A notification ends when every listener has the value.
LEMMA NotifyUnlockStep ==
  ASSUME ServerInv, NEW t \in Threads, Server!NotifyUnlock(t)
  PROVE  ServerInv'
<1>1. UNCHANGED <<mValue, mValueCache, mOSCSenders, heard, value, unsent>>
  BY DEF Server!NotifyUnlock, Server!parameter
<1>2. /\ pc[t] = "send" /\ unsent[t] = {} /\ mListenerLock' = {}
      /\ pc'[t] # "send" /\ \A u \in Threads \ {t} : pc'[u] = pc[u]
  BY DEF Server!NotifyUnlock, Server!Go, ServerInv, ServerTypes
<1>3. ServerTypes'
  BY <1>1 DEF Server!NotifyUnlock, Server!Go, ServerInv, ServerTypes
<1>4. SenderHasLock'
  BY <1>2 DEF ServerInv, SenderHasLock
<1>5. SentSoFar' /\ NothingNewerThanStored'
  BY <1>1, <1>2 DEF ServerInv, SentSoFar, NothingNewerThanStored
<1>6. Server!ListenersAgree'
  BY <1>1, <1>2 DEF ServerInv, SentSoFar, Server!ListenersAgree
<1> QED BY <1>3, <1>4, <1>5, <1>6 DEF ServerInv

\* A new listener has heard nothing.
LEMMA AddListenerStep ==
  ASSUME ServerInv, NEW t \in Threads, NEW l \in Listener, Server!addListener(t, l)
  PROVE  ServerInv'
<1>1. UNCHANGED <<mValue, mValueCache, mListenerLock, heard, pc, value, unsent>>
  BY DEF Server!addListener, Server!parameter
<1>2. /\ mListenerLock = {} /\ l \notin mOSCSenders
      /\ mOSCSenders' = mOSCSenders \cup {l}
  BY DEF Server!addListener
<1>3. ServerTypes' /\ SenderHasLock' /\ NothingNewerThanStored'
  BY <1>1, <1>2 DEF ServerInv, ServerTypes, SenderHasLock, NothingNewerThanStored
<1>4. \A u \in Threads : pc[u] # "send"
  BY <1>2 DEF ServerInv, SenderHasLock
<1>5. SentSoFar' /\ Server!ListenersAgree'
  BY <1>1, <1>2, <1>4 DEF ServerInv, SentSoFar, Server!ListenersAgree
<1> QED BY <1>3, <1>5 DEF ServerInv

LEMMA ServerGoesOn == ServerInv /\ [Server!Next]_(Server!vars) => ServerInv'
<1> SUFFICES ASSUME ServerInv, [Server!Next]_(Server!vars) PROVE ServerInv'
  OBVIOUS
<1>1. CASE UNCHANGED Server!vars
  BY <1>1 DEF Server!vars, Server!parameter, Server!notifier, ServerInv, ServerTypes,
              SenderHasLock, SentSoFar, NothingNewerThanStored, Server!ListenersAgree
<1>2. CASE Server!Next
  <2> PICK t \in Threads : Server!Step(t)
    BY <1>2 DEF Server!Next
  <2> QED BY ParameterStep, NotifyLockStep, SendStep, NotifyUnlockStep, AddListenerStep
             DEF Server!Step
<1> QED BY <1>1, <1>2

-------------------------------------------------------------------------------
\* Between notifications all listeners that have heard anything agree, for any
\* number of threads that set the parameter and of listeners that are added
\* meanwhile: the lock of OSCNotifier makes a notification one step for them.
THEOREM ListenersAlwaysAgree == Server!Spec => []Server!ListenersAgree
<1>1. ServerInv => Server!ListenersAgree
  BY DEF ServerInv
<1> QED BY ServerBegins, ServerGoesOn, <1>1, PTL DEF Server!Spec

\* No thread gets an older value than it got before, although get() returns the
\* cached value whenever it finds the mutex taken.
THEOREM GetIsMonotonic == Server!Spec => Server!GetNeverGoesBack
<1>1. ServerInv /\ [Server!Next]_(Server!vars)
        => [\A t \in Threads : value'[t] >= value[t]]_(Server!vars)
  <2> SUFFICES ASSUME ServerInv, Server!Next PROVE \A t \in Threads : value'[t] >= value[t]
    OBVIOUS
  <2> PICK t \in Threads : Server!Step(t)
    BY DEF Server!Next
  <2>1. value' = value \/ Server!Get(t)
    BY DEF Server!Step, Server!Call, Server!StoreLock, Server!Store, Server!TryLock,
           Server!Cache, Server!NotifyLock, Server!NotifyUnlock, Server!Send,
           Server!addListener
  <2> QED BY <2>1 DEF Server!Get, ServerInv, ServerTypes, NothingNewerThanStored
<1> QED BY ServerBegins, ServerGoesOn, <1>1, PTL DEF Server!Spec, Server!GetNeverGoesBack
===============================================================================
