--------------------------- MODULE TestableHashMap ---------------------------
(***************************************************************************)
(* ThreadSafetyTestableHashMap of src/src/thread_safety_testable_hashmap.h *)
(* and the log it keeps for the concurrency test: every operation notes    *)
(* the time it was called, the time it got the map's lock and, under the   *)
(* log's own mutex and still under the map's lock, the time it ended.      *)
(*                                                                         *)
(* What an operation does to the map is what Multimap promises of the base *)
(* class (the run "promise" checks that HashMap keeps it); here the matter *)
(* is the two locks, the three times and what the log says afterwards.     *)
(***************************************************************************)
EXTENDS HashMapInterface, SharedMutex, FiniteSets

CONSTANTS
    WriterPriority,   \* does lock_shared wait behind a blocked lock()?
    MaxCalls          \* bound: operations ever called

ASSUME TestableAssumption == WriterPriority \in BOOLEAN /\ MaxCalls \in Nat

VARIABLES
    items, capacity, nPairs, call, ret,   \* the base map, as Multimap has it
    m_mSharedMutex,
    pc,
    now,                                  \* readings of the clock so far
    m_tStartTime, m_tLockTime, m_tEndTime,\* of the timing each thread fills in
    m_mMutex,                             \* who has locked the log
    m_vOperationTimings,                  \* the log
    m_bIsSorted

baseVars  == <<items, capacity, nPairs, call, ret>>
timeVars  == <<now, m_tStartTime, m_tLockTime, m_tEndTime>>
logVars   == <<m_mMutex, m_vOperationTimings, m_bIsSorted>>
vars == <<baseVars, m_mSharedMutex, pc, timeVars, logVars>>

Base == INSTANCE Multimap

PCs == {"idle", "lock", "stamp", "relock", "body", "log", "end", "push", "unlock"}
-----------------------------------------------------------------------------
\* m_bIsSorted is not initialized: it may hold either value.
Init ==
    /\ Base!Init
    /\ m_mSharedMutex = Unlocked(Threads)
    /\ pc = [t \in Threads |-> "idle"]
    /\ now = 0
    /\ m_tStartTime = [t \in Threads |-> 0]
    /\ m_tLockTime = [t \in Threads |-> 0]
    /\ m_tEndTime = [t \in Threads |-> 0]
    /\ m_mMutex = {}
    /\ m_vOperationTimings = <<>>
    /\ m_bIsSorted \in BOOLEAN

\* ClockType::now(), a later time at every reading.
Now == now + 1

ReadClock == now' = Now

Goto(t, l) == pc' = [pc EXCEPT ![t] = l]

Busy == {t \in Threads : pc[t] \notin {"idle", "unlock"}}

\* A worker calls an operation, which notes its arguments and the time.
Start(t, c) ==
    /\ pc[t] = "idle"
    /\ Len(m_vOperationTimings) + Cardinality(Busy) < MaxCalls
    /\ Base!Call(t, c)
    /\ ReadClock
    /\ m_tStartTime' = [m_tStartTime EXCEPT ![t] = Now]
    /\ Goto(t, "lock")
    /\ UNCHANGED <<m_mSharedMutex, m_tLockTime, m_tEndTime, logVars>>

Reads(t) == call[t].op \in ReadOps

WaitingWriters ==
    IF WriterPriority THEN {t \in Threads : pc[t] = "lock" /\ ~Reads(t)} ELSE {}

\* The lock guard: ReadLockType or WriteLockType of m_mSharedMutex.
LockMap(t) ==
    /\ pc[t] = "lock"
    /\ \/ /\ Reads(t)
          /\ CanLockShared(m_mSharedMutex, WaitingWriters)
          /\ m_mSharedMutex' = LockShared(m_mSharedMutex, t)
       \/ /\ ~Reads(t)
          /\ CanLock(m_mSharedMutex)
          /\ m_mSharedMutex' = Lock(m_mSharedMutex, t)
    /\ Goto(t, "stamp")
    /\ UNCHANGED <<baseVars, timeVars, logVars>>

\* The lock time.  Mutant: it is taken before the lock is.
StampLock_Early(t) ==
    /\ pc[t] = "stamp"
    /\ m_tLockTime' = [m_tLockTime EXCEPT ![t] = m_tStartTime[t]]
    /\ Goto(t, IF call[t].op = "find" THEN "relock" ELSE "body")
    /\ UNCHANGED <<baseVars, m_mSharedMutex, now, m_tStartTime, m_tEndTime, logVars>>

StampLock(t) ==
    /\ pc[t] = "stamp"
    /\ ReadClock
    /\ m_tLockTime' = [m_tLockTime EXCEPT ![t] = Now]
    /\ Goto(t, IF call[t].op = "find" THEN "relock" ELSE "body")
    /\ UNCHANGED <<baseVars, m_mSharedMutex, m_tStartTime, m_tEndTime, logVars>>

\* findImpl locks the same mutex again.
LockMapAgain(t) ==
    /\ pc[t] = "relock"
    /\ CanLockShared(m_mSharedMutex, WaitingWriters)
    /\ m_mSharedMutex' = LockShared(m_mSharedMutex, t)
    /\ Goto(t, "body")
    /\ UNCHANGED <<baseVars, timeVars, logVars>>

\* The body of the base class; the lock of findImpl ends with it.  Mutant:
\* the lock of a writer ends with it, too.
Body_UnlocksFirst(t) ==
    /\ pc[t] = "body"
    /\ \/ /\ Base!Grow(t)
          /\ UNCHANGED <<pc, m_mSharedMutex>>
       \/ /\ Base!Effect(t)
          /\ m_mSharedMutex' = IF call[t].op = "find"
                               THEN UnlockShared(m_mSharedMutex, t)
                               ELSE Unlock(m_mSharedMutex, t)
          /\ Goto(t, "log")
    /\ UNCHANGED <<timeVars, logVars>>

Body(t) ==
    /\ pc[t] = "body"
    /\ \/ /\ Base!Grow(t)
          /\ UNCHANGED <<pc, m_mSharedMutex>>
       \/ /\ Base!Effect(t)
          /\ m_mSharedMutex' = IF call[t].op = "find"
                               THEN UnlockShared(m_mSharedMutex, t) ELSE m_mSharedMutex
          /\ Goto(t, "log")
    /\ UNCHANGED <<timeVars, logVars>>

\* m_vTSOpTimings.m_mMutex.lock().  Mutant: without it.
LockLog_Shared(t) ==
    /\ pc[t] = "log"
    /\ m_mMutex' = m_mMutex \cup {t}
    /\ Goto(t, "end")
    /\ UNCHANGED <<baseVars, m_mSharedMutex, timeVars, m_vOperationTimings, m_bIsSorted>>

LockLog(t) ==
    /\ pc[t] = "log"
    /\ m_mMutex = {}
    /\ m_mMutex' = {t}
    /\ Goto(t, "end")
    /\ UNCHANGED <<baseVars, m_mSharedMutex, timeVars, m_vOperationTimings, m_bIsSorted>>

StampEnd(t) ==
    /\ pc[t] = "end"
    /\ ReadClock
    /\ m_tEndTime' = [m_tEndTime EXCEPT ![t] = Now]
    /\ Goto(t, "push")
    /\ UNCHANGED <<baseVars, m_mSharedMutex, m_tStartTime, m_tLockTime, logVars>>

\* The timing of an operation: its type and arguments, its three times, and
\* its result.  An insertion notes the pair it was given; that pair has the
\* latest number, because the inserter still has the map to itself.
Timing(t) ==
    [call |-> call[t],
     result |-> IF call[t].op = "insert"
                THEN Range_(<<[key |-> call[t].tKey, val |-> nPairs]>>) ELSE ret[t],
     m_tStartTime |-> m_tStartTime[t],
     m_tLockTime |-> m_tLockTime[t],
     m_tEndTime |-> m_tEndTime[t]]

\* push_back and m_mMutex.unlock()
Push(t) ==
    /\ pc[t] = "push"
    /\ m_vOperationTimings' = Append(m_vOperationTimings, Timing(t))
    /\ m_mMutex' = m_mMutex \ {t}
    /\ Goto(t, "unlock")
    /\ UNCHANGED <<baseVars, m_mSharedMutex, timeVars, m_bIsSorted>>

\* The return, at which the lock guard dies.
Return(t) ==
    /\ pc[t] = "unlock"
    /\ m_mSharedMutex' = IF Reads(t) THEN UnlockShared(m_mSharedMutex, t)
                                     ELSE Unlock(m_mSharedMutex, t)
    /\ Base!Return(t)
    /\ Goto(t, "idle")
    /\ m_tStartTime' = [m_tStartTime EXCEPT ![t] = 0]
    /\ m_tLockTime' = [m_tLockTime EXCEPT ![t] = 0]
    /\ m_tEndTime' = [m_tEndTime EXCEPT ![t] = 0]
    /\ UNCHANGED <<now, logVars>>

\* The threads are joined: nobody is in a call, and the bound lets none start.
Joined == \A t \in Threads : pc[t] = "idle"

AllJoined ==
    /\ Joined
    /\ Len(m_vOperationTimings) = MaxCalls
    /\ UNCHANGED vars

Step(t) ==
    \/ LockMap(t) \/ StampLock(t) \/ LockMapAgain(t) \/ Body(t)
    \/ LockLog(t) \/ StampEnd(t) \/ Push(t) \/ Return(t)

Next ==
    \/ \E t \in Threads : Step(t) \/ \E c \in Calls : Start(t, c)
    \/ AllJoined

Spec == Init /\ [][Next]_vars
=============================================================================
