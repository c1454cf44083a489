---------------------------- MODULE ParameterServer ----------------------------
(***************************************************************************)
(* al::ParameterServer and the parameters registered with it: threads set  *)
(* and get a parameter, and changeCallback() sends what get() returns to   *)
(* the listeners.                                                          *)
(*                                                                         *)
(* One parameter, of a type with a mutex (ParameterString, ParameterVec3   *)
(* and ParameterVec4, by way of ParameterWrapper).  A Parameter, which is  *)
(* one float, behaves as one whose get() always finds the mutex free.  A   *)
(* value is the number of times that the parameter has been stored.  The   *)
(* callers are the application's threads, a widget, which uses             *)
(* setNoCalls() with itself as the receiver to be left out, and the OSC    *)
(* thread, which sets a parameter on a message.                            *)
(***************************************************************************)
EXTENDS Integers

CONSTANTS
  Caller,        \* the threads
  Listener,      \* the listeners that addListener() may register
  MaxStores      \* bound: how often the parameter is set

VARIABLES
  mValue, mValueCache,
  mMutex,            \* the threads that hold it: one or none
  mListenerLock,     \* likewise
  mOSCSenders,
  heard,             \* what each listener was sent last; -1, nothing
  pc,                \* where each thread is
  op,                \* the call it is in
  value,             \* what its get() returned last
  unsent,            \* the listeners its notification has yet to reach
  begun              \* history: calls that were begun and may store

parameter == <<mValue, mValueCache, mMutex>>
notifier == <<mListenerLock, mOSCSenders, heard>>
vars == <<parameter, notifier, pc, op, value, unsent, begun>>

Init ==
  /\ mValue = 0 /\ mValueCache = 0 /\ mMutex = {}
  /\ mListenerLock = {} /\ mOSCSenders = {}
  /\ heard = [l \in Listener |-> -1]
  /\ pc = [t \in Caller |-> "idle"]
  /\ op = [t \in Caller |-> "get"]
  /\ value = [t \in Caller |-> 0]
  /\ unsent = [t \in Caller |-> {}]
  /\ begun = 0

Go(t, from, to) == pc[t] = from /\ pc' = [pc EXCEPT ![t] = to]

-------------------------------------------------------------------------------
\* set() stores and then calls the callbacks, setNoCalls() calls them first;
\* without a receiver setNoCalls() only stores.
Call(t, name) ==
  /\ Go(t, "idle", IF name \in {"set", "setSilently"} THEN "lock" ELSE "get")
  /\ op' = [op EXCEPT ![t] = name]
  /\ IF name = "get" THEN UNCHANGED begun
                     ELSE begun < MaxStores /\ begun' = begun + 1
  /\ UNCHANGED <<parameter, notifier, value, unsent>>

StoreLock(t) ==
  /\ Go(t, "lock", "store")
  /\ mMutex = {} /\ mMutex' = {t}
  /\ UNCHANGED <<mValue, mValueCache, notifier, op, value, unsent, begun>>

Store(t) ==
  /\ Go(t, "store", IF op[t] = "set" THEN "get" ELSE "idle")
  /\ mValue' = mValue + 1
  /\ mMutex' = {}
  /\ UNCHANGED <<mValueCache, notifier, op, value, unsent, begun>>

\* get(): with the mutex taken the cached value has to do.
TryLock(t) ==
  /\ Go(t, "get", IF mMutex = {} THEN "cache" ELSE "return")
  /\ mMutex' = IF mMutex = {} THEN {t} ELSE mMutex
  /\ UNCHANGED <<mValue, mValueCache, notifier, op, value, unsent, begun>>

Cache(t) ==
  /\ Go(t, "cache", "return")
  /\ mValueCache' = mValue
  /\ mMutex' = {}
  /\ UNCHANGED <<mValue, notifier, op, value, unsent, begun>>

Get(t) ==
  /\ Go(t, "return", IF op[t] = "get" THEN "idle" ELSE "notify")
  /\ value' = [value EXCEPT ![t] = mValueCache]
  /\ UNCHANGED <<parameter, notifier, op, unsent, begun>>

\* notifyListeners(), with what get() returned before the lock was taken.
NotifyLock(t) ==
  /\ Go(t, "notify", "send")
  /\ mListenerLock = {} /\ mListenerLock' = {t}
  /\ unsent' = [unsent EXCEPT ![t] = mOSCSenders]
  /\ UNCHANGED <<parameter, mOSCSenders, heard, op, value, begun>>

Send(t, l) ==
  /\ pc[t] = "send" /\ l \in unsent[t]
  /\ heard' = [heard EXCEPT ![l] = value[t]]
  /\ unsent' = [unsent EXCEPT ![t] = @ \ {l}]
  /\ UNCHANGED <<parameter, mListenerLock, mOSCSenders, pc, op, value, begun>>

NotifyUnlock(t) ==
  /\ Go(t, "send", IF op[t] = "set" THEN "idle" ELSE "lock")
  /\ unsent[t] = {}
  /\ mListenerLock' = {}
  /\ UNCHANGED <<parameter, mOSCSenders, heard, op, value, unsent, begun>>

addListener(t, l) ==
  /\ pc[t] = "idle"
  /\ mListenerLock = {} /\ l \notin mOSCSenders
  /\ mOSCSenders' = mOSCSenders \cup {l}
  /\ UNCHANGED <<parameter, mListenerLock, heard, pc, op, value, unsent, begun>>

Step(t) ==
  \/ \E name \in {"get", "set", "setNoCalls", "setSilently"} : Call(t, name)
  \/ StoreLock(t) \/ Store(t) \/ TryLock(t) \/ Cache(t) \/ Get(t)
  \/ NotifyLock(t) \/ NotifyUnlock(t)
  \/ \E l \in Listener : Send(t, l) \/ addListener(t, l)

Next == \E t \in Caller : Step(t)
Spec == Init /\ [][Next]_vars

-------------------------------------------------------------------------------
\* Between notifications all listeners that have heard anything agree: each
\* notification reaches all of them before the next begins.
ListenersAgree ==
  mListenerLock = {} =>
    \A l, m \in mOSCSenders : heard[l] # -1 /\ heard[m] # -1 => heard[l] = heard[m]

\* No thread gets a value that is older than one it got before: the cached value
\* may be old, but it never goes back.
GetNeverGoesBack == [][\A t \in Caller : value'[t] >= value[t]]_vars

\* A call of setNoCalls() with a receiver, while nothing else runs, leaves the
\* listeners with the value that was set.
ListenersHearTheValue ==
  [][\A t \in Caller :
       /\ op[t] = "setNoCalls" /\ pc[t] # "idle" /\ pc'[t] = "idle"
       /\ \A u \in Caller \ {t} : pc[u] = "idle"
       /\ mOSCSenders # {}
       => \A l \in mOSCSenders : heard[l] \in {-1, mValue'}]_vars
===============================================================================
