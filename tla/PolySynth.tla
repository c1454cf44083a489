------------------------------- MODULE PolySynth -------------------------------
(***************************************************************************)
(* al::PolySynth: voices on three singly linked lists that share one next  *)
(* pointer per voice.  Client threads take new voices and push them on     *)
(* mVoicesToInsert; the audio thread splices them in front of              *)
(* mActiveVoices, renders, and moves the voices that are done to           *)
(* mFreeVoices; the graphics thread walks mActiveVoices with a lock that   *)
(* the audio thread does not take.  The audio thread never waits for the   *)
(* other two locks: it skips the insertion or the sweep when try_lock()    *)
(* fails.                                                                  *)
(*                                                                         *)
(* The time master is TIME_MASTER_AUDIO (nothing inserts voices under the  *)
(* other one).  getVoice() compares typeid(freeVoice), which is that of a  *)
(* pointer, with that of a voice: no free voice ever matches, and a new    *)
(* one is allocated.  Of print() the two locks that it takes are modelled, *)
(* as often as it is called.                                               *)
(***************************************************************************)
EXTENDS Integers, FiniteSets

CONSTANTS
  Voice,         \* the voices that can be allocated
  Client,        \* the threads that take and trigger voices
  Null           \* no voice, no thread

ASSUME NullAssumption == Null \notin Voice \cup Client
ASSUME VoiceAssumption == IsFiniteSet(Voice)

Audio == "audio"     \* the audio thread as the owner of a lock

VARIABLES
  next,              \* SynthVoice::next
  mActive,           \* SynthVoice::mActive
  mVoicesToInsert, mActiveVoices, mFreeVoices,
  mVoiceToInsertLock, mFreeVoiceLock,
  allocated,         \* the voices that exist
  cpc, mine,         \* where each client is, and the voice it holds
  apc, voice, previousVoice,    \* the audio thread in render(AudioIOData&)
  shown,             \* the voice that render(Graphics&) is at
  done               \* history: inactive and listed when the sweep began

links == <<next, mVoicesToInsert, mActiveVoices, mFreeVoices>>
locks == <<mVoiceToInsertLock, mFreeVoiceLock>>
cvars == <<cpc, mine, allocated>>
avars == <<apc, voice, previousVoice, done>>
synth == <<links, mActive, locks, cvars, avars, shown>>

\* The links from a head, and the voices on them.
Walk(head) ==
  LET step[n \in 0..Cardinality(Voice)] ==
        IF n = 0 THEN head
        ELSE LET v == step[n - 1] IN IF v = Null THEN Null ELSE next[v]
  IN  step
Members(head) == LET walk == Walk(head) IN {walk[n] : n \in DOMAIN walk} \ {Null}
LastOf(head) == CHOOSE v \in Members(head) : next[v] = Null

PolySynthInit ==
  /\ next = [v \in Voice |-> Null] /\ mActive = [v \in Voice |-> FALSE]
  /\ mVoicesToInsert = Null /\ mActiveVoices = Null /\ mFreeVoices = Null
  /\ mVoiceToInsertLock = Null /\ mFreeVoiceLock = Null
  /\ allocated = {}
  /\ cpc = [c \in Client |-> "idle"] /\ mine = [c \in Client |-> Null]
  /\ apc = "idle" /\ voice = Null /\ previousVoice = Null
  /\ shown = Null
  /\ done = {}

-------------------------------------------------------------------------------
(***************************************************************************)
(* Clients.                                                                *)
(***************************************************************************)
Move(c, from, to) == cpc[c] = from /\ cpc' = [cpc EXCEPT ![c] = to]

\* Take the lock of the free list, to search it, to extend it or to print it.
LockFree(c, call) ==
  /\ Move(c, "idle", call)
  /\ mFreeVoiceLock = Null /\ mFreeVoiceLock' = c
  /\ UNCHANGED <<links, mActive, mVoiceToInsertLock, mine, allocated, avars,
                 shown>>

\* Which new voice it is does not matter: one of them is chosen.
NewVoice == CHOOSE v \in Voice : v \notin allocated
Allocate == allocated # Voice /\ allocated' = allocated \cup {NewVoice}

GetVoice(c) ==
  /\ Move(c, "get", "has")
  /\ Allocate /\ mine' = [mine EXCEPT ![c] = NewVoice]
  /\ mFreeVoiceLock' = Null
  /\ UNCHANGED <<links, mActive, mVoiceToInsertLock, avars, shown>>

\* allocatePolyphony(1): on an empty list the first voice becomes its head.
AllocatePolyphony(c) ==
  /\ Move(c, "allocate", "idle")
  /\ Allocate
  /\ IF mFreeVoices = Null
     THEN mFreeVoices' = NewVoice /\ UNCHANGED next
     ELSE next' = [next EXCEPT ![LastOf(mFreeVoices)] = NewVoice] /\ UNCHANGED mFreeVoices
  /\ mFreeVoiceLock' = Null
  /\ UNCHANGED <<mVoicesToInsert, mActiveVoices, mActive, mVoiceToInsertLock, mine,
                 avars, shown>>

\* print() reads the free list and the queue under their locks and changes none.
PrintedFree(c) ==
  /\ Move(c, "print", "printed")
  /\ mFreeVoiceLock' = Null
  /\ UNCHANGED <<links, mActive, mVoiceToInsertLock, mine, allocated, avars, shown>>

PrintQueued(c) ==
  /\ Move(c, "printed", "queued")
  /\ mVoiceToInsertLock = Null /\ mVoiceToInsertLock' = c
  /\ UNCHANGED <<links, mActive, mFreeVoiceLock, mine, allocated, avars, shown>>

PrintEnd(c) ==
  /\ Move(c, "queued", "idle")
  /\ mVoiceToInsertLock' = Null
  /\ UNCHANGED <<links, mActive, mFreeVoiceLock, mine, allocated, avars, shown>>

\* The voice is active before it is on any list.
TriggerOn(c) ==
  /\ Move(c, "has", "push")
  /\ mActive' = [mActive EXCEPT ![mine[c]] = TRUE]
  /\ mVoiceToInsertLock = Null /\ mVoiceToInsertLock' = c
  /\ UNCHANGED <<links, mFreeVoiceLock, mine, allocated, avars, shown>>

Push(v) ==
  /\ next' = [next EXCEPT ![v] = mVoicesToInsert]
  /\ mVoicesToInsert' = v
  /\ UNCHANGED <<mActiveVoices, mFreeVoices>>

PushMine(c) ==
  /\ Move(c, "push", "idle")
  /\ Push(mine[c])
  /\ mine' = [mine EXCEPT ![c] = Null]
  /\ mVoiceToInsertLock' = Null
  /\ UNCHANGED <<mActive, mFreeVoiceLock, allocated, avars, shown>>

-------------------------------------------------------------------------------
(***************************************************************************)
(* render(AudioIOData&).                                                   *)
(***************************************************************************)
\* Plausible bugs: the queue is not emptied; it waits until nothing sounds.
FaultQueueKept ==
  IF mVoicesToInsert = Null THEN UNCHANGED links
  ELSE /\ next' = [next EXCEPT ![LastOf(mVoicesToInsert)] = mActiveVoices]
       /\ mActiveVoices' = mVoicesToInsert
       /\ UNCHANGED <<mVoicesToInsert, mFreeVoices>>
FaultSpliceWhenSilent ==
  IF mVoicesToInsert = Null \/ mActiveVoices # Null THEN UNCHANGED links
  ELSE mActiveVoices' = mVoicesToInsert /\ mVoicesToInsert' = Null
       /\ UNCHANGED <<next, mFreeVoices>>

\* Voices queued by triggerOn() go in front of the active ones.
Splice ==
  IF mVoicesToInsert = Null THEN UNCHANGED links
  ELSE /\ next' = [next EXCEPT ![LastOf(mVoicesToInsert)] = mActiveVoices]
       /\ mActiveVoices' = mVoicesToInsert
       /\ mVoicesToInsert' = Null
       /\ UNCHANGED mFreeVoices

TryInsert ==
  /\ apc = "insert" /\ apc' = "render"
  /\ IF mVoiceToInsertLock = Null THEN Splice ELSE UNCHANGED links
  /\ voice' = mActiveVoices'
  /\ UNCHANGED <<mActive, locks, cvars, previousVoice, done, shown>>

\* onProcess() of either kind may call free().
MayFree(v) == \E b \in BOOLEAN : mActive' = [mActive EXCEPT ![v] = mActive[v] /\ b]

RenderVoice ==
  /\ apc = "render" /\ voice # Null
  /\ MayFree(voice)
  /\ voice' = next[voice]
  /\ UNCHANGED <<links, locks, cvars, apc, previousVoice, done, shown>>

\* All voices rendered: sweep the list, or not when its lock is taken.
TrySweep ==
  /\ apc = "render" /\ voice = Null
  /\ IF mFreeVoiceLock = Null
     THEN /\ apc' = "sweep" /\ mFreeVoiceLock' = Audio
          /\ voice' = mActiveVoices /\ previousVoice' = Null
          /\ done' = {v \in Members(mActiveVoices) : ~mActive[v]}
     ELSE apc' = "idle" /\ UNCHANGED <<mFreeVoiceLock, voice, previousVoice, done>>
  /\ UNCHANGED <<links, mActive, mVoiceToInsertLock, cvars, shown>>

Sweeping == apc = "sweep" /\ voice # Null /\ UNCHANGED <<mVoicesToInsert, mActive, locks,
                                                  cvars, apc, done, shown>>
Retire(v) == mFreeVoices' = v

SweepActive ==
  /\ Sweeping /\ mActive[voice]
  /\ previousVoice' = voice /\ voice' = next[voice]
  /\ UNCHANGED <<next, mActiveVoices, mFreeVoices>>

SweepInside ==
  /\ Sweeping /\ ~mActive[voice] /\ previousVoice # Null
  /\ next' = [next EXCEPT ![previousVoice] = next[voice], ![voice] = mFreeVoices]
  /\ Retire(voice)
  /\ voice' = next'[previousVoice]
  /\ UNCHANGED <<mActiveVoices, previousVoice>>

\* A plausible bug: the sweep ends once it has replaced the head.
FaultOnlyHead ==
  /\ Sweeping /\ ~mActive[voice] /\ previousVoice = Null
  /\ mActiveVoices' = next[voice]
  /\ next' = [next EXCEPT ![voice] = mFreeVoices]
  /\ Retire(voice)
  /\ voice' = Null
  /\ UNCHANGED previousVoice

\* The voice after the head becomes the head and is not itself looked at.
SweepHead ==
  /\ Sweeping /\ ~mActive[voice] /\ previousVoice = Null
  /\ mActiveVoices' = next[voice]
  /\ next' = [next EXCEPT ![voice] = mFreeVoices]
  /\ Retire(voice)
  /\ previousVoice' = mActiveVoices'
  /\ voice' = IF mActiveVoices' = Null THEN Null ELSE next'[mActiveVoices']

SweepEnd ==
  /\ apc = "sweep" /\ voice = Null
  /\ apc' = "idle" /\ mFreeVoiceLock' = Null
  /\ previousVoice' = Null /\ done' = {}
  /\ UNCHANGED <<links, mActive, mVoiceToInsertLock, cvars, voice, shown>>

-------------------------------------------------------------------------------
(***************************************************************************)
(* render(Graphics&).                                                      *)
(***************************************************************************)
\* A frame that finds no voice is over at once.
FrameBegin ==
  /\ shown = Null /\ mActiveVoices # Null
  /\ shown' = mActiveVoices
  /\ UNCHANGED <<links, mActive, locks, cvars, avars>>

DrawVoice ==
  /\ shown # Null
  /\ MayFree(shown)
  /\ shown' = next[shown]
  /\ UNCHANGED <<links, locks, cvars, avars>>

-------------------------------------------------------------------------------
ClientGoesOn(c) == \/ GetVoice(c) \/ AllocatePolyphony(c) \/ TriggerOn(c) \/ PushMine(c)
                   \/ PrintedFree(c) \/ PrintQueued(c) \/ PrintEnd(c)
ClientCalls(c) == \/ /\ Voice # allocated     \* bound: there are voices left
                     /\ \E call \in {"get", "allocate"} : LockFree(c, call)
                  \/ LockFree(c, "print")
RenderStep == \/ TryInsert \/ RenderVoice \/ TrySweep
              \/ SweepActive \/ SweepInside \/ SweepHead \/ SweepEnd
===============================================================================
