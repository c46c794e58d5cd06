------------------------ MODULE TestableHashMapProofs ------------------------
(***************************************************************************)
(* Proofs about TestableHashMap, for any number of threads and calls: the  *)
(* log is in the order of the end times, operations that exclude each      *)
(* other do not overlap in it, checkLockTimes has no complaint about it,   *)
(* and its lock times explain every result it holds.                       *)
(***************************************************************************)
EXTENDS LockTimesCheck, SequenceTheorems, FiniteSetTheorems, WellFoundedInduction, TLAPS

PCInv ==
    \A t \in Threads :
        /\ pc[t] # "idle" => call[t] \in Calls
        /\ pc[t] = "relock" => call[t].op = "find"

(***************************************************************************)
(* Who owns the map's lock.  A find owns it twice in its body.             *)
(***************************************************************************)
Holding(t) == pc[t] \in {"stamp", "relock", "body", "log", "end", "push", "unlock"}

Shares(t) ==
    IF ~(Holding(t) /\ Reads(t)) THEN 0
    ELSE IF pc[t] = "body" /\ call[t].op = "find" THEN 2 ELSE 1

LockInv ==
    /\ \A t \in Threads : t \in m_mSharedMutex.writer <=> Holding(t) /\ ~Reads(t)
    /\ \A t \in Threads : m_mSharedMutex.readers[t] = Shares(t)
    /\ \A t, u \in m_mSharedMutex.writer : t = u
    /\ \A t \in m_mSharedMutex.writer : \A u \in Threads : m_mSharedMutex.readers[u] = 0

(***************************************************************************)
(* What the log says to a thread that has its lock time, or its end time,  *)
(* and is not logged yet.                                                  *)
(***************************************************************************)
Stamped(t) == pc[t] \in {"relock", "body", "log", "end", "push"}

ConflictsEnded(t) ==
    \A i \in DOMAIN m_vOperationTimings :
        IsWrite(m_vOperationTimings[i]) \/ ~Reads(t)
            => m_vOperationTimings[i].m_tEndTime < m_tLockTime[t]

LastToEnd(t) ==
    \A i \in DOMAIN m_vOperationTimings :
        m_vOperationTimings[i].m_tEndTime < m_tEndTime[t]

TimesOf(t) ==
    /\ Stamped(t) => m_tStartTime[t] < m_tLockTime[t] /\ ConflictsEnded(t)
    /\ pc[t] \in {"end", "push"} => m_mMutex = {t}
    /\ pc[t] = "push" => m_tLockTime[t] < m_tEndTime[t] /\ LastToEnd(t)

TimesInv == \A t \in Threads : TimesOf(t)

IInv == TypeOK /\ PCInv /\ LockInv /\ TimesInv /\ LogInEndOrder /\ ConflictsDoNotOverlap
-----------------------------------------------------------------------------
\* What the steps of the base map do to the call.
LEMMA BaseSteps ==
    ASSUME NEW t \in Threads
    PROVE  /\ \A c : Base!Call(t, c) => call' = [call EXCEPT ![t] = c]
           /\ Base!Effect(t) => call' = call
           /\ Base!Grow(t) => call' = call /\ call[t].op = "insert"
           /\ Base!Return(t) => call' = [call EXCEPT ![t] = NoCall]
<1>1. \A c : Base!Call(t, c) => call' = [call EXCEPT ![t] = c]
  BY DEF Base!Call
<1>2. Base!Effect(t) => call' = call
  BY DEF Base!Effect
<1>3. Base!Grow(t) => call' = call /\ call[t].op = "insert"
  BY DEF Base!Grow
<1>4. Base!Return(t) => call' = [call EXCEPT ![t] = NoCall]
  BY DEF Base!Return, Base!NoCall, NoCall
<1> QED
  BY <1>1, <1>2, <1>3, <1>4

\* A sequence with one more element.
LEMMA OneMore ==
    ASSUME NEW s, s \in Seq(ToSet(s)), NEW e
    PROVE  /\ Append(s, e) \in Seq(ToSet(Append(s, e)))
           /\ DOMAIN s = 1 .. Len(s) /\ Len(s) \in Nat
           /\ DOMAIN Append(s, e) = 1 .. Len(s) + 1
           /\ \A i \in 1 .. Len(s) : Append(s, e)[i] = s[i]
           /\ Append(s, e)[Len(s) + 1] = e
<1> DEFINE S == ToSet(s) \cup {e}
           a == Append(s, e)
<1>1. s \in Seq(S)
  BY SeqMonotonic
<1>2. /\ a \in Seq(S)
      /\ Len(a) = Len(s) + 1
      /\ \A i \in 1 .. Len(s) : a[i] = s[i]
      /\ a[Len(s) + 1] = e
  BY <1>1
<1>3. Len(s) \in Nat /\ DOMAIN s = 1 .. Len(s)
  BY <1>1, LenProperties
<1>4. DOMAIN a = 1 .. Len(s) + 1
  BY <1>2, LenProperties
<1>5. S = ToSet(a)
  <2>1. \A x \in ToSet(s) : x \in ToSet(a)
    BY <1>2, <1>3, <1>4 DEF ToSet
  <2>2. e \in ToSet(a)
    BY <1>2, <1>3, <1>4 DEF ToSet
  <2>3. \A i \in 1 .. Len(s) + 1 : a[i] \in S
    BY <1>2, ElementOfSeq
  <2> QED
    BY <2>1, <2>2, <2>3, <1>4 DEF ToSet
<1> QED
  BY <1>2, <1>3, <1>4, <1>5

\* What the operations of the lock do to its fields.
Mutexes == [writer : SUBSET Threads, readers : [Threads -> Nat]]

LEMMA MutexFields ==
    ASSUME NEW m \in Mutexes, NEW t \in Threads
    PROVE  /\ Lock(m, t) \in Mutexes
           /\ Lock(m, t).writer = m.writer \cup {t} /\ Lock(m, t).readers = m.readers
           /\ Unlock(m, t) \in Mutexes
           /\ Unlock(m, t).writer = m.writer \ {t} /\ Unlock(m, t).readers = m.readers
           /\ LockShared(m, t) \in Mutexes
           /\ LockShared(m, t).writer = m.writer
           /\ LockShared(m, t).readers = [m.readers EXCEPT ![t] = @ + 1]
           /\ m.readers[t] > 0 => UnlockShared(m, t) \in Mutexes
           /\ UnlockShared(m, t).writer = m.writer
           /\ UnlockShared(m, t).readers = [m.readers EXCEPT ![t] = @ - 1]
<1> USE DEF Mutexes
<1>1. /\ Lock(m, t) \in Mutexes
      /\ Lock(m, t).writer = m.writer \cup {t} /\ Lock(m, t).readers = m.readers
  BY DEF Lock
<1>2. /\ Unlock(m, t) \in Mutexes
      /\ Unlock(m, t).writer = m.writer \ {t} /\ Unlock(m, t).readers = m.readers
  BY DEF Unlock
<1>3. [m.readers EXCEPT ![t] = @ + 1] \in [Threads -> Nat]
  OBVIOUS
<1>4. /\ LockShared(m, t) \in Mutexes
      /\ LockShared(m, t).writer = m.writer
      /\ LockShared(m, t).readers = [m.readers EXCEPT ![t] = @ + 1]
  BY <1>3 DEF LockShared
<1>5. m.readers[t] > 0 => [m.readers EXCEPT ![t] = @ - 1] \in [Threads -> Nat]
  OBVIOUS
<1>6. /\ UnlockShared(m, t).writer = m.writer
      /\ UnlockShared(m, t).readers = [m.readers EXCEPT ![t] = @ - 1]
  BY DEF UnlockShared
<1>7. m.readers[t] > 0 => UnlockShared(m, t) \in Mutexes
  BY <1>5 DEF UnlockShared
<1> QED
  BY <1>1, <1>2, <1>4, <1>6, <1>7

\* Two threads inside the map are two readers.
LEMMA ReadersOnly ==
    ASSUME LockInv, NEW t \in Threads, NEW u \in Threads, t # u, Holding(t), Holding(u)
    PROVE  Reads(t) /\ Reads(u)
<1>1. ASSUME NEW v \in Threads, NEW w \in Threads, v # w, Holding(v), Holding(w), ~Reads(v)
      PROVE  FALSE
  <2>1. v \in m_mSharedMutex.writer
    BY <1>1 DEF LockInv
  <2>2. CASE Reads(w)
    <3>1. m_mSharedMutex.readers[w] = 0
      BY <2>1 DEF LockInv
    <3>2. Shares(w) # 0
      BY <1>1, <2>2 DEF Shares
    <3> QED
      BY <3>1, <3>2 DEF LockInv
  <2>3. CASE ~Reads(w)
    BY <1>1, <2>1, <2>3 DEF LockInv
  <2> QED
    BY <2>2, <2>3
<1> QED
  BY <1>1

\* An operation writes or reads, not both.
LEMMA WritesDoNotRead ==
    ASSUME NEW t \in Threads, call[t].op \in WriteOps
    PROVE  ~Reads(t)
  BY DEF Reads, WriteOps, ReadOps

-----------------------------------------------------------------------------
LEMMA InitIInv == Init => IInv
<1> SUFFICES ASSUME Init PROVE IInv
  OBVIOUS
<1> USE DEF Init, Unlocked
<1>1. call = [t \in Threads |-> NoCall]
  BY DEF Base!Init, Base!NoCall, NoCall
<1>2. m_vOperationTimings \in Seq(Logged) /\ DOMAIN m_vOperationTimings = {}
  BY EmptySeq DEF Logged
<1>3. TypeOK
  BY <1>1, <1>2 DEF TypeOK, PCs
<1>4. PCInv /\ LockInv /\ TimesInv
  BY DEF PCInv, LockInv, TimesInv, TimesOf, Holding, Shares, Stamped
<1>5. LogInEndOrder /\ ConflictsDoNotOverlap
  BY <1>2 DEF LogInEndOrder, ConflictsDoNotOverlap
<1> QED
  BY <1>3, <1>4, <1>5 DEF IInv

\* Every step but Push leaves the log alone.
LEMMA LogKept ==
    ASSUME TypeOK, UNCHANGED m_vOperationTimings, now' \in Nat, now <= now'
    PROVE  /\ m_vOperationTimings' \in Seq(Logged')
           /\ \A i \in DOMAIN m_vOperationTimings' :
                 LET x == m_vOperationTimings'[i]
                 IN  /\ x.call \in Calls
                     /\ x.m_tStartTime \in Nat /\ x.m_tLockTime \in Nat
                     /\ x.m_tEndTime \in 0 .. now'
                     /\ x.m_tStartTime < x.m_tLockTime /\ x.m_tLockTime < x.m_tEndTime
<1>1. Logged' = Logged
  BY DEF Logged
<1>2. \A n \in 0 .. now : n \in 0 .. now'
  BY DEF TypeOK
<1> QED
  BY <1>1, <1>2 DEF TypeOK

\* The timing a thread logs has the right shape, and its times the right order.
LEMMA TimingTypes ==
    ASSUME IInv, NEW t \in Threads, pc[t] = "push"
    PROVE  /\ Timing(t).call = call[t] /\ call[t] \in Calls
           /\ Timing(t).m_tStartTime = m_tStartTime[t] /\ m_tStartTime[t] \in Nat
           /\ Timing(t).m_tLockTime = m_tLockTime[t] /\ m_tLockTime[t] \in Nat
           /\ Timing(t).m_tEndTime = m_tEndTime[t] /\ m_tEndTime[t] \in 0 .. now
           /\ m_tStartTime[t] < m_tLockTime[t] /\ m_tLockTime[t] < m_tEndTime[t]
<1>1. /\ Timing(t).call = call[t]
      /\ Timing(t).m_tStartTime = m_tStartTime[t]
      /\ Timing(t).m_tLockTime = m_tLockTime[t]
      /\ Timing(t).m_tEndTime = m_tEndTime[t]
  BY DEF Timing
<1>2. call[t] \in Calls /\ m_tStartTime[t] < m_tLockTime[t] /\ m_tLockTime[t] < m_tEndTime[t]
  BY DEF IInv, PCInv, TimesInv, TimesOf, Stamped
<1>3. /\ m_tStartTime[t] \in Nat /\ m_tLockTime[t] \in Nat /\ m_tEndTime[t] \in 0 .. now
  BY DEF IInv, TypeOK
<1> QED
  BY <1>1, <1>2, <1>3

LEMMA StepTypeOK == IInv /\ Next => TypeOK'
<1> SUFFICES ASSUME IInv, Next PROVE TypeOK'
  OBVIOUS
<1> USE DEF PCs
<1>0. TypeOK
  BY DEF IInv
<1>b. m_mSharedMutex \in Mutexes
  BY <1>0 DEF TypeOK, Mutexes
<1>a. now \in Nat /\ now <= Now /\ Now \in Nat
  BY <1>0 DEF TypeOK, Now
<1>1. ASSUME NEW t \in Threads, NEW c \in Calls, Start(t, c)
      PROVE  TypeOK'
  <2>1. UNCHANGED m_vOperationTimings /\ now' = Now
    BY <1>1 DEF Start, ReadClock, logVars
  <2>2. call' = [call EXCEPT ![t] = c]
    BY <1>1, BaseSteps DEF Start
  <2> QED
    BY <1>0, <1>a, <1>1, <2>1, <2>2, LogKept DEF TypeOK, Start, Goto, Now, logVars
<1>2. ASSUME NEW t \in Threads, LockMap(t)
      PROVE  TypeOK'
  <2>1. UNCHANGED <<m_vOperationTimings, now>>
    BY <1>2 DEF LockMap, timeVars, logVars
  <2>2. m_mSharedMutex' \in Mutexes
    <3>1. LockShared(m_mSharedMutex, t) \in Mutexes /\ Lock(m_mSharedMutex, t) \in Mutexes
      BY <1>b, MutexFields
    <3> QED
      BY <1>2, <3>1 DEF LockMap
  <2> QED
    BY <1>0, <1>a, <1>2, <2>1, <2>2, LogKept
    DEF TypeOK, LockMap, Goto, Mutexes, logVars, timeVars, baseVars
<1>3. ASSUME NEW t \in Threads, StampLock(t)
      PROVE  TypeOK'
  <2>1. UNCHANGED m_vOperationTimings /\ now' = Now
    BY <1>3 DEF StampLock, ReadClock, logVars
  <2> QED
    BY <1>0, <1>a, <1>3, <2>1, LogKept DEF TypeOK, StampLock, Goto, Now, logVars, baseVars
<1>4. ASSUME NEW t \in Threads, LockMapAgain(t)
      PROVE  TypeOK'
  <2>1. UNCHANGED <<m_vOperationTimings, now>>
    BY <1>4 DEF LockMapAgain, timeVars, logVars
  <2>2. m_mSharedMutex' \in Mutexes
    BY <1>b, <1>4, MutexFields DEF LockMapAgain
  <2> QED
    BY <1>0, <1>a, <1>4, <2>1, <2>2, LogKept, SMTT(30)
    DEF TypeOK, LockMapAgain, Goto, Mutexes, logVars, timeVars, baseVars
<1>5. ASSUME NEW t \in Threads, Body(t)
      PROVE  TypeOK'
  <2>1. UNCHANGED <<m_vOperationTimings, now>>
    BY <1>5 DEF Body, timeVars, logVars
  <2>2. call' = call
    BY <1>5, BaseSteps DEF Body
  <2>3. m_mSharedMutex' \in Mutexes
    <3>1. CASE pc[t] = "body" /\ call[t].op = "find"
      <4>1. m_mSharedMutex.readers[t] = (IF Reads(t) THEN 2 ELSE 0)
        BY <3>1 DEF IInv, LockInv, Shares, Holding
      <4>2. Reads(t)
        BY <3>1 DEF Reads, ReadOps
      <4>3. m_mSharedMutex.readers[t] > 0
        BY <4>1, <4>2
      <4> QED
        <5>1. UnlockShared(m_mSharedMutex, t) \in Mutexes
          BY <1>b, <4>3, MutexFields
        <5> QED
          BY <1>b, <1>5, <5>1 DEF Body
    <3> QED
      BY <1>b, <1>5, <3>1 DEF Body
  <2> QED
    <3>1. pc' \in [Threads -> PCs]
      BY <1>0, <1>5 DEF TypeOK, Body, Goto
    <3> QED
      BY <1>0, <1>a, <1>5, <2>1, <2>2, <2>3, <3>1, LogKept
      DEF TypeOK, Body, Mutexes, logVars, timeVars
<1>6. ASSUME NEW t \in Threads, LockLog(t)
      PROVE  TypeOK'
  <2>1. UNCHANGED <<m_vOperationTimings, now>>
    BY <1>6 DEF LockLog, timeVars
  <2> QED
    BY <1>0, <1>a, <1>6, <2>1, LogKept DEF TypeOK, LockLog, Goto, timeVars, baseVars
<1>7. ASSUME NEW t \in Threads, StampEnd(t)
      PROVE  TypeOK'
  <2>1. UNCHANGED m_vOperationTimings /\ now' = Now
    BY <1>7 DEF StampEnd, ReadClock, logVars
  <2> QED
    BY <1>0, <1>a, <1>7, <2>1, LogKept, SMTT(30) DEF TypeOK, StampEnd, Goto, Now, logVars, baseVars
<1>8. ASSUME NEW t \in Threads, Push(t)
      PROVE  TypeOK'
  <2>1. m_vOperationTimings \in Seq(ToSet(m_vOperationTimings))
    BY <1>0 DEF TypeOK, Logged
  <2>2. m_vOperationTimings' = Append(m_vOperationTimings, Timing(t)) /\ now' = now
    BY <1>8 DEF Push, timeVars
  <2>3. m_vOperationTimings' \in Seq(Logged')
    BY <2>1, <2>2, OneMore DEF Logged
  <2>4. \A i \in DOMAIN m_vOperationTimings' :
           LET x == m_vOperationTimings'[i]
           IN  /\ x.call \in Calls
               /\ x.m_tStartTime \in Nat /\ x.m_tLockTime \in Nat
               /\ x.m_tEndTime \in 0 .. now'
               /\ x.m_tStartTime < x.m_tLockTime /\ x.m_tLockTime < x.m_tEndTime
    <3> SUFFICES ASSUME NEW i \in DOMAIN m_vOperationTimings'
                 PROVE  LET x == m_vOperationTimings'[i]
                        IN  /\ x.call \in Calls
                            /\ x.m_tStartTime \in Nat /\ x.m_tLockTime \in Nat
                            /\ x.m_tEndTime \in 0 .. now'
                            /\ x.m_tStartTime < x.m_tLockTime /\ x.m_tLockTime < x.m_tEndTime
      OBVIOUS
    <3>1. CASE i \in DOMAIN m_vOperationTimings
      <4>1. m_vOperationTimings'[i] = m_vOperationTimings[i]
        BY <2>1, <2>2, <3>1, OneMore
      <4> QED
        BY <1>0, <2>2, <3>1, <4>1 DEF TypeOK
    <3>2. CASE i \notin DOMAIN m_vOperationTimings
      <4>1. m_vOperationTimings'[i] = Timing(t)
        BY <2>1, <2>2, <3>2, OneMore
      <4>2. pc[t] = "push"
        BY <1>8 DEF Push
      <4> QED
        BY <2>2, <4>1, <4>2, TimingTypes
    <3> QED
      BY <3>1, <3>2
  <2> QED
    BY <1>0, <1>8, <2>2, <2>3, <2>4 DEF TypeOK, Push, Goto, timeVars, baseVars
<1>9. ASSUME NEW t \in Threads, Return(t)
      PROVE  TypeOK'
  <2>1. UNCHANGED <<m_vOperationTimings, now>>
    BY <1>9 DEF Return, logVars
  <2>2. call' = [call EXCEPT ![t] = NoCall]
    BY <1>9, BaseSteps DEF Return
  <2>3. m_mSharedMutex' \in Mutexes
    <3>1. pc[t] = "unlock"
      BY <1>9 DEF Return
    <3>2. Reads(t) => m_mSharedMutex.readers[t] = 1
      BY <3>1 DEF IInv, LockInv, Shares, Holding
    <3> QED
      <4>1. ASSUME Reads(t)
            PROVE  UnlockShared(m_mSharedMutex, t) \in Mutexes
        <5>1. m_mSharedMutex.readers[t] > 0
          BY <3>2, <4>1
        <5> QED
          BY <1>b, <5>1, MutexFields
      <4>2. Unlock(m_mSharedMutex, t) \in Mutexes
        BY <1>b, MutexFields
      <4> QED
        BY <1>9, <4>1, <4>2 DEF Return
  <2> QED
    BY <1>0, <1>a, <1>9, <2>1, <2>2, <2>3, LogKept, SMTT(30)
    DEF TypeOK, Return, Goto, Mutexes, logVars
<1>10. CASE AllJoined
  BY <1>0, <1>a, <1>10, LogKept
  DEF TypeOK, AllJoined, vars, baseVars, timeVars, logVars
<1> QED
  BY <1>1, <1>2, <1>3, <1>4, <1>5, <1>6, <1>7, <1>8, <1>9, <1>10 DEF Next, Step
-----------------------------------------------------------------------------
\* A step of t leaves the other threads where they are, with their calls and
\* their times.
Others(t) ==
    \A u \in Threads \ {t} :
        /\ pc'[u] = pc[u] /\ call'[u] = call[u]
        /\ m_tStartTime'[u] = m_tStartTime[u]
        /\ m_tLockTime'[u] = m_tLockTime[u]
        /\ m_tEndTime'[u] = m_tEndTime[u]

LEMMA StepOthers ==
    ASSUME TypeOK, NEW t \in Threads,
           Step(t) \/ \E c \in Calls : Start(t, c)
    PROVE  Others(t)
<1> USE DEF TypeOK, Others, Goto, baseVars, timeVars
<1>1. ASSUME NEW c \in Calls, Start(t, c)
      PROVE  Others(t)
  BY <1>1, BaseSteps DEF Start
<1>2. CASE LockMap(t)
  BY <1>2 DEF LockMap
<1>3. CASE StampLock(t)
  BY <1>3 DEF StampLock
<1>4. CASE LockMapAgain(t)
  BY <1>4 DEF LockMapAgain
<1>5. CASE Body(t)
  <2>1. call' = call
    BY <1>5, BaseSteps DEF Body
  <2>2. \A u \in Threads \ {t} : pc'[u] = pc[u]
    BY <1>5 DEF Body
  <2> QED
    BY <1>5, <2>1, <2>2 DEF Body
<1>6. CASE LockLog(t)
  BY <1>6 DEF LockLog
<1>7. CASE StampEnd(t)
  BY <1>7 DEF StampEnd
<1>8. CASE Push(t)
  BY <1>8 DEF Push
<1>9. CASE Return(t)
  BY <1>9, BaseSteps DEF Return
<1> QED
  BY <1>1, <1>2, <1>3, <1>4, <1>5, <1>6, <1>7, <1>8, <1>9 DEF Step

\* Where t goes, and that it keeps its call from Start to Return.
LEMMA StepOwn ==
    ASSUME TypeOK, NEW t \in Threads
    PROVE  /\ \A c \in Calls : Start(t, c) =>
                 pc[t] = "idle" /\ pc'[t] = "lock" /\ call'[t] = c
           /\ LockMap(t) => pc[t] = "lock" /\ pc'[t] = "stamp" /\ call'[t] = call[t]
           /\ StampLock(t) =>
                 /\ pc[t] = "stamp" /\ call'[t] = call[t]
                 /\ pc'[t] = IF call[t].op = "find" THEN "relock" ELSE "body"
           /\ LockMapAgain(t) => pc[t] = "relock" /\ pc'[t] = "body" /\ call'[t] = call[t]
           /\ Body(t) => pc[t] = "body" /\ pc'[t] \in {"body", "log"} /\ call'[t] = call[t]
           /\ LockLog(t) => pc[t] = "log" /\ pc'[t] = "end" /\ call'[t] = call[t]
           /\ StampEnd(t) => pc[t] = "end" /\ pc'[t] = "push" /\ call'[t] = call[t]
           /\ Push(t) => pc[t] = "push" /\ pc'[t] = "unlock" /\ call'[t] = call[t]
           /\ Return(t) => pc[t] = "unlock" /\ pc'[t] = "idle"
<1> USE DEF TypeOK, Goto, baseVars
<1>1. ASSUME NEW c \in Calls, Start(t, c)
      PROVE  pc[t] = "idle" /\ pc'[t] = "lock" /\ call'[t] = c
  BY <1>1, BaseSteps DEF Start
<1>2. LockMap(t) => pc[t] = "lock" /\ pc'[t] = "stamp" /\ call'[t] = call[t]
  BY DEF LockMap
<1>3. StampLock(t) =>
         /\ pc[t] = "stamp" /\ call'[t] = call[t]
         /\ pc'[t] = IF call[t].op = "find" THEN "relock" ELSE "body"
  BY DEF StampLock
<1>4. LockMapAgain(t) => pc[t] = "relock" /\ pc'[t] = "body" /\ call'[t] = call[t]
  BY DEF LockMapAgain
<1>5. Body(t) => pc[t] = "body" /\ pc'[t] \in {"body", "log"} /\ call'[t] = call[t]
  BY BaseSteps DEF Body
<1>6. LockLog(t) => pc[t] = "log" /\ pc'[t] = "end" /\ call'[t] = call[t]
  BY DEF LockLog
<1>7. StampEnd(t) => pc[t] = "end" /\ pc'[t] = "push" /\ call'[t] = call[t]
  BY DEF StampEnd
<1>8. Push(t) => pc[t] = "push" /\ pc'[t] = "unlock" /\ call'[t] = call[t]
  BY DEF Push
<1>9. Return(t) => pc[t] = "unlock" /\ pc'[t] = "idle"
  BY DEF Return
<1> QED
  BY <1>1, <1>2, <1>3, <1>4, <1>5, <1>6, <1>7, <1>8, <1>9

LEMMA StepPCInv == IInv /\ Next => PCInv'
<1> SUFFICES ASSUME IInv, Next PROVE PCInv'
  OBVIOUS
<1> USE DEF PCInv
<1>0. TypeOK /\ PCInv
  BY DEF IInv
<1>1. ASSUME NEW t \in Threads, Step(t) \/ \E c \in Calls : Start(t, c)
      PROVE  PCInv'
  <2>1. Others(t)
    BY <1>0, <1>1, StepOthers
  <2>2. /\ pc'[t] # "idle" => call'[t] \in Calls
        /\ pc'[t] = "relock" => call'[t].op = "find"
    BY <1>0, <1>1, StepOwn DEF Step
  <2> QED
    BY <1>0, <2>1, <2>2 DEF Others
<1>2. CASE AllJoined
  BY <1>0, <1>2 DEF AllJoined, vars, baseVars
<1> QED
  BY <1>1, <1>2 DEF Next

\* A step of t that changes neither the lock nor what t may claim of it.
LEMMA LockInvKept ==
    ASSUME LockInv, NEW t \in Threads, Others(t), UNCHANGED m_mSharedMutex,
           Holding(t)' = Holding(t), Holding(t) => call'[t] = call[t],
           Holding(t) => Shares(t)' = Shares(t)
    PROVE  LockInv'
<1> USE DEF LockInv
<1>1. ASSUME NEW u \in Threads
      PROVE  /\ u \in m_mSharedMutex'.writer <=> Holding(u)' /\ ~Reads(u)'
             /\ m_mSharedMutex'.readers[u] = Shares(u)'
  <2>1. CASE u = t
    BY <2>1 DEF Shares, Reads
  <2>2. CASE u # t
    BY <2>2 DEF Others, Holding, Shares, Reads
  <2> QED
    BY <2>1, <2>2
<1> QED
  BY <1>1

\* A step of t that adds to, or takes from, the times t owns the lock shared.
LEMMA SharesChanged ==
    ASSUME LockInv, m_mSharedMutex \in Mutexes, NEW t \in Threads, Others(t),
           m_mSharedMutex'.writer = m_mSharedMutex.writer,
           NEW n \in Nat,
           m_mSharedMutex'.readers = [m_mSharedMutex.readers EXCEPT ![t] = n],
           n = Shares(t)', n > 0 => m_mSharedMutex.writer = {},
           Holding(t) \/ m_mSharedMutex.writer = {},
           Reads(t), Holding(t)' => Reads(t)'
    PROVE  LockInv'
<1> USE DEF LockInv, Mutexes
<1>1. t \notin m_mSharedMutex.writer
  OBVIOUS
<1>2. ASSUME NEW u \in Threads
      PROVE  /\ u \in m_mSharedMutex'.writer <=> Holding(u)' /\ ~Reads(u)'
             /\ m_mSharedMutex'.readers[u] = Shares(u)'
  <2>1. CASE u = t
    BY <1>1, <2>1
  <2>2. CASE u # t
    BY <2>2 DEF Others, Holding, Shares, Reads
  <2> QED
    BY <2>1, <2>2
<1>3. \A v \in m_mSharedMutex'.writer : \A u \in Threads : m_mSharedMutex'.readers[u] = 0
  BY <1>1
<1> QED
  BY <1>2, <1>3

LEMMA StepLockInv == IInv /\ Next => LockInv'
<1> SUFFICES ASSUME IInv, Next PROVE LockInv'
  OBVIOUS
<1>0. TypeOK /\ PCInv /\ LockInv /\ m_mSharedMutex \in Mutexes
  BY DEF IInv, TypeOK, Mutexes
<1>a. ASSUME NEW t \in Threads, Step(t) \/ \E c \in Calls : Start(t, c)
      PROVE  Others(t)
  BY <1>0, <1>a, StepOthers
<1>1. ASSUME NEW t \in Threads, NEW c \in Calls, Start(t, c)
      PROVE  LockInv'
  <2>1. UNCHANGED m_mSharedMutex /\ ~Holding(t) /\ ~Holding(t)'
    BY <1>0, <1>1, StepOwn DEF Start, Holding
  <2>2. Others(t)
    BY <1>1, <1>a
  <2>3. Holding(t)' = Holding(t)
    BY <2>1 DEF Holding
  <2> QED
    BY <1>0, <2>1, <2>2, <2>3, LockInvKept
<1>2. ASSUME NEW t \in Threads, LockMap(t)
      PROVE  LockInv'
  <2>1. /\ pc[t] = "lock" /\ pc'[t] = "stamp" /\ call'[t] = call[t]
        /\ ~Holding(t) /\ Holding(t)' /\ Reads(t)' = Reads(t)
    BY <1>0, <1>2, StepOwn DEF Holding, Reads
  <2>2. Others(t)
    BY <1>2, <1>a DEF Step
  <2>3. CASE Reads(t)
    <3>1. /\ m_mSharedMutex.writer = {}
          /\ m_mSharedMutex' = LockShared(m_mSharedMutex, t)
      BY <1>2, <2>3 DEF LockMap, CanLockShared
    <3>2. /\ m_mSharedMutex'.writer = m_mSharedMutex.writer
          /\ m_mSharedMutex'.readers = [m_mSharedMutex.readers EXCEPT ![t] = @ + 1]
      BY <1>0, <3>1, MutexFields
    <3>3. m_mSharedMutex.readers[t] = 0
      BY <1>0, <2>1 DEF LockInv, Shares
    <3>4. m_mSharedMutex'.readers = [m_mSharedMutex.readers EXCEPT ![t] = 1]
      BY <3>2, <3>3
    <3>5. Shares(t)' = 1
      BY <2>1, <2>3 DEF Shares
    <3> QED
      BY <1>0, <2>1, <2>2, <2>3, <3>1, <3>2, <3>4, <3>5, SharesChanged
  <2>4. CASE ~Reads(t)
    <3>1. /\ CanLock(m_mSharedMutex)
          /\ m_mSharedMutex' = Lock(m_mSharedMutex, t)
      BY <1>2, <2>4 DEF LockMap
    <3>2. /\ m_mSharedMutex.writer = {}
          /\ \A u \in Threads : m_mSharedMutex.readers[u] = 0
      BY <1>0, <3>1 DEF CanLock, Mutexes
    <3>3. /\ m_mSharedMutex'.writer = {t}
          /\ m_mSharedMutex'.readers = m_mSharedMutex.readers
      <4>1. /\ Lock(m_mSharedMutex, t).writer = m_mSharedMutex.writer \cup {t}
            /\ Lock(m_mSharedMutex, t).readers = m_mSharedMutex.readers
        BY <1>0, MutexFields
      <4> QED
        BY <3>1, <3>2, <4>1
    <3>4. ASSUME NEW u \in Threads
          PROVE  /\ u \in m_mSharedMutex'.writer <=> Holding(u)' /\ ~Reads(u)'
                 /\ m_mSharedMutex'.readers[u] = Shares(u)'
      <4>1. CASE u = t
        BY <2>1, <2>4, <3>2, <3>3, <4>1 DEF Shares
      <4>2. CASE u # t
        BY <1>0, <2>2, <3>2, <3>3, <4>2 DEF Others, Holding, Shares, Reads, LockInv
      <4> QED
        BY <4>1, <4>2
    <3> QED
      BY <3>2, <3>3, <3>4 DEF LockInv
  <2> QED
    BY <2>3, <2>4
<1>3. ASSUME NEW t \in Threads, StampLock(t)
      PROVE  LockInv'
  <2>1. UNCHANGED m_mSharedMutex /\ pc[t] = "stamp" /\ call'[t] = call[t]
    BY <1>0, <1>3, StepOwn DEF StampLock
  <2>2. pc'[t] = IF call[t].op = "find" THEN "relock" ELSE "body"
    BY <1>0, <1>3, StepOwn
  <2>3. Holding(t)' = Holding(t) /\ Shares(t)' = Shares(t)
    BY <2>1, <2>2 DEF Holding, Shares, Reads
  <2> QED
    BY <1>0, <1>3, <1>a, <2>1, <2>3, LockInvKept DEF Step
<1>4. ASSUME NEW t \in Threads, LockMapAgain(t)
      PROVE  LockInv'
  <2>1. /\ pc[t] = "relock" /\ pc'[t] = "body" /\ call'[t] = call[t]
        /\ call[t].op = "find"
    BY <1>0, <1>4, StepOwn DEF PCInv
  <2>2. Holding(t) /\ Holding(t)' /\ Reads(t) /\ Reads(t)'
    BY <2>1 DEF Holding, Reads, ReadOps
  <2>3. /\ m_mSharedMutex.writer = {}
        /\ m_mSharedMutex' = LockShared(m_mSharedMutex, t)
    BY <1>4 DEF LockMapAgain, CanLockShared
  <2>4. /\ m_mSharedMutex'.writer = m_mSharedMutex.writer
        /\ m_mSharedMutex'.readers = [m_mSharedMutex.readers EXCEPT ![t] = @ + 1]
    BY <1>0, <2>3, MutexFields
  <2>5. m_mSharedMutex.readers[t] = 1
    BY <1>0, <2>1, <2>2 DEF LockInv, Shares
  <2>6. m_mSharedMutex'.readers = [m_mSharedMutex.readers EXCEPT ![t] = 2]
    BY <2>4, <2>5
  <2>7. Shares(t)' = 2
    BY <2>1, <2>2 DEF Shares
  <2> QED
    BY <1>0, <1>4, <1>a, <2>2, <2>3, <2>4, <2>6, <2>7, SharesChanged DEF Step
<1>5. ASSUME NEW t \in Threads, Body(t)
      PROVE  LockInv'
  <2>1. /\ pc[t] = "body" /\ pc'[t] \in {"body", "log"} /\ call'[t] = call[t]
        /\ Holding(t) /\ Holding(t)' /\ Reads(t)' = Reads(t)
    BY <1>0, <1>5, StepOwn DEF Holding, Reads
  <2>2. Others(t)
    BY <1>5, <1>a DEF Step
  <2>3. CASE Base!Grow(t) /\ UNCHANGED <<pc, m_mSharedMutex>>
    <3>1. Shares(t)' = Shares(t)
      BY <2>1, <2>3 DEF Shares, Reads
    <3> QED
      BY <1>0, <2>1, <2>2, <2>3, <3>1, LockInvKept
  <2>4. CASE /\ Base!Effect(t) /\ Goto(t, "log") /\ call[t].op # "find"
             /\ UNCHANGED m_mSharedMutex
    <3>1. pc'[t] = "log"
      BY <1>0, <2>4 DEF Goto, TypeOK
    <3>2. Shares(t)' = Shares(t)
      BY <2>1, <2>4, <3>1 DEF Shares, Reads
    <3> QED
      BY <1>0, <2>1, <2>2, <2>4, <3>2, LockInvKept
  <2>5. CASE /\ Base!Effect(t) /\ Goto(t, "log") /\ call[t].op = "find"
             /\ m_mSharedMutex' = UnlockShared(m_mSharedMutex, t)
    <3>1. pc'[t] = "log" /\ Reads(t)
      BY <1>0, <2>5 DEF Goto, TypeOK, Reads, ReadOps
    <3>2. /\ m_mSharedMutex'.writer = m_mSharedMutex.writer
          /\ m_mSharedMutex'.readers = [m_mSharedMutex.readers EXCEPT ![t] = @ - 1]
      BY <1>0, <2>5, MutexFields
    <3>3. m_mSharedMutex.readers[t] = 2
      BY <1>0, <2>1, <2>5, <3>1 DEF LockInv, Shares
    <3>4. m_mSharedMutex.writer = {}
      BY <1>0, <3>3 DEF LockInv, Mutexes
    <3>5. m_mSharedMutex'.readers = [m_mSharedMutex.readers EXCEPT ![t] = 1]
      BY <3>2, <3>3
    <3>6. Shares(t)' = 1
      BY <2>1, <3>1 DEF Shares
    <3> QED
      BY <1>0, <2>1, <2>2, <3>1, <3>2, <3>4, <3>5, <3>6, SharesChanged
  <2> QED
    BY <1>5, <2>3, <2>4, <2>5 DEF Body
<1>6. ASSUME NEW t \in Threads, LockLog(t)
      PROVE  LockInv'
  <2>1. /\ UNCHANGED m_mSharedMutex
        /\ pc[t] = "log" /\ pc'[t] = "end" /\ call'[t] = call[t]
    BY <1>0, <1>6, StepOwn DEF LockLog
  <2>2. Holding(t)' = Holding(t) /\ Shares(t)' = Shares(t)
    BY <2>1 DEF Holding, Shares, Reads
  <2> QED
    BY <1>0, <1>6, <1>a, <2>1, <2>2, LockInvKept DEF Step
<1>7. ASSUME NEW t \in Threads, StampEnd(t)
      PROVE  LockInv'
  <2>1. /\ UNCHANGED m_mSharedMutex
        /\ pc[t] = "end" /\ pc'[t] = "push" /\ call'[t] = call[t]
    BY <1>0, <1>7, StepOwn DEF StampEnd
  <2>2. Holding(t)' = Holding(t) /\ Shares(t)' = Shares(t)
    BY <2>1 DEF Holding, Shares, Reads
  <2> QED
    BY <1>0, <1>7, <1>a, <2>1, <2>2, LockInvKept DEF Step
<1>8. ASSUME NEW t \in Threads, Push(t)
      PROVE  LockInv'
  <2>1. /\ UNCHANGED m_mSharedMutex
        /\ pc[t] = "push" /\ pc'[t] = "unlock" /\ call'[t] = call[t]
    BY <1>0, <1>8, StepOwn DEF Push
  <2>2. Holding(t)' = Holding(t) /\ Shares(t)' = Shares(t)
    BY <2>1 DEF Holding, Shares, Reads
  <2> QED
    BY <1>0, <1>8, <1>a, <2>1, <2>2, LockInvKept DEF Step
<1>9. ASSUME NEW t \in Threads, Return(t)
      PROVE  LockInv'
  <2>1. pc[t] = "unlock" /\ pc'[t] = "idle" /\ Holding(t) /\ ~Holding(t)'
    BY <1>0, <1>9, StepOwn DEF Holding
  <2>2. Others(t)
    BY <1>9, <1>a DEF Step
  <2>3. CASE Reads(t)
    <3>1. m_mSharedMutex' = UnlockShared(m_mSharedMutex, t)
      BY <1>9, <2>3 DEF Return
    <3>2. /\ m_mSharedMutex'.writer = m_mSharedMutex.writer
          /\ m_mSharedMutex'.readers = [m_mSharedMutex.readers EXCEPT ![t] = @ - 1]
      BY <1>0, <3>1, MutexFields
    <3>3. m_mSharedMutex.readers[t] = 1
      BY <1>0, <2>1, <2>3 DEF LockInv, Shares
    <3>4. m_mSharedMutex'.readers = [m_mSharedMutex.readers EXCEPT ![t] = 0]
      BY <3>2, <3>3
    <3>5. Shares(t)' = 0
      BY <2>1 DEF Shares
    <3> QED
      BY <1>0, <2>1, <2>2, <2>3, <3>2, <3>4, <3>5, SharesChanged
  <2>4. CASE ~Reads(t)
    <3>1. m_mSharedMutex' = Unlock(m_mSharedMutex, t)
      BY <1>9, <2>4 DEF Return
    <3>2. /\ m_mSharedMutex'.writer = m_mSharedMutex.writer \ {t}
          /\ m_mSharedMutex'.readers = m_mSharedMutex.readers
      BY <1>0, <3>1, MutexFields
    <3>3. m_mSharedMutex.readers[t] = 0
      BY <1>0, <2>4 DEF LockInv, Shares
    <3>4. ASSUME NEW u \in Threads
          PROVE  /\ u \in m_mSharedMutex'.writer <=> Holding(u)' /\ ~Reads(u)'
                 /\ m_mSharedMutex'.readers[u] = Shares(u)'
      <4>1. CASE u = t
        BY <2>1, <3>2, <3>3, <4>1 DEF Shares
      <4>2. CASE u # t
        BY <1>0, <2>2, <3>2, <4>2 DEF Others, Holding, Shares, Reads, LockInv
      <4> QED
        BY <4>1, <4>2
    <3> QED
      BY <1>0, <3>2, <3>4 DEF LockInv
  <2> QED
    BY <2>3, <2>4
<1>10. CASE AllJoined
  BY <1>0, <1>10 DEF AllJoined, vars, baseVars, LockInv, Holding, Shares, Reads
<1> QED
  BY <1>1, <1>2, <1>3, <1>4, <1>5, <1>6, <1>7, <1>8, <1>9, <1>10 DEF Next, Step
-----------------------------------------------------------------------------
\* A step of t that does not log leaves the times of the others in order.
LEMMA TimesKept ==
    ASSUME TypeOK, TimesInv, NEW t \in Threads, Others(t), UNCHANGED m_vOperationTimings,
           m_mMutex = {} \/ UNCHANGED m_mMutex,
           TimesOf(t)'
    PROVE  TimesInv'
<1> SUFFICES ASSUME NEW u \in Threads, u # t
             PROVE  TimesOf(u)'
  BY DEF TimesInv
<1>1. TimesOf(u)
  BY DEF TimesInv
<1>2. Reads(u)' = Reads(u)
  BY DEF Others, Reads
<1>3. /\ ConflictsEnded(u)' = ConflictsEnded(u)
      /\ LastToEnd(u)' = LastToEnd(u)
  BY <1>2 DEF Others, ConflictsEnded, LastToEnd, IsWrite
<1> QED
  BY <1>1, <1>3 DEF Others, TimesOf, Stamped

\* What a step of t does to its own times and to the log and its lock.
LEMMA StepTimes ==
    ASSUME TypeOK, NEW t \in Threads
    PROVE  /\ (Step(t) /\ ~Push(t)) \/ (\E c \in Calls : Start(t, c)) =>
                 UNCHANGED m_vOperationTimings
           /\ (Step(t) /\ ~Push(t) /\ ~LockLog(t)) \/ (\E c \in Calls : Start(t, c)) =>
                 UNCHANGED m_mMutex
           /\ LockMapAgain(t) \/ Body(t) \/ LockLog(t) \/ StampEnd(t) =>
                 UNCHANGED <<m_tStartTime, m_tLockTime>>
           /\ LockLog(t) => m_mMutex = {} /\ m_mMutex' = {t}
           /\ StampLock(t) => m_tLockTime'[t] = now + 1 /\ m_tStartTime' = m_tStartTime
           /\ StampEnd(t) => m_tEndTime'[t] = now + 1
<1> USE DEF timeVars, logVars
<1>1. ASSUME NEW c \in Calls, Start(t, c)
      PROVE  UNCHANGED <<m_vOperationTimings, m_mMutex>>
  BY <1>1 DEF Start
<1>2. LockMap(t) => UNCHANGED <<m_vOperationTimings, m_mMutex>>
  BY DEF LockMap
<1>3. StampLock(t) =>
         /\ UNCHANGED <<m_vOperationTimings, m_mMutex, m_tStartTime>>
         /\ m_tLockTime'[t] = now + 1
  BY DEF StampLock, TypeOK, Now
<1>4. LockMapAgain(t) =>
         UNCHANGED <<m_vOperationTimings, m_mMutex, m_tStartTime, m_tLockTime>>
  BY DEF LockMapAgain
<1>5. Body(t) => UNCHANGED <<m_vOperationTimings, m_mMutex, m_tStartTime, m_tLockTime>>
  BY DEF Body
<1>6. LockLog(t) =>
         /\ UNCHANGED <<m_vOperationTimings, m_tStartTime, m_tLockTime>>
         /\ m_mMutex = {} /\ m_mMutex' = {t}
  BY DEF LockLog
<1>7. StampEnd(t) =>
         /\ UNCHANGED <<m_vOperationTimings, m_mMutex, m_tStartTime, m_tLockTime>>
         /\ m_tEndTime'[t] = now + 1
  BY DEF StampEnd, TypeOK, Now
<1>8. Return(t) => UNCHANGED <<m_vOperationTimings, m_mMutex>>
  BY DEF Return
<1> QED
  BY <1>1, <1>2, <1>3, <1>4, <1>5, <1>6, <1>7, <1>8 DEF Step

\* A time read now is later than every end in the log.
LEMMA EndsBeforeNow ==
    ASSUME TypeOK, NEW i \in DOMAIN m_vOperationTimings
    PROVE  m_vOperationTimings[i].m_tEndTime < now + 1
  BY DEF TypeOK

LEMMA StepTimesInv == IInv /\ Next => TimesInv'
<1> SUFFICES ASSUME IInv, Next PROVE TimesInv'
  OBVIOUS
<1>0. TypeOK /\ PCInv /\ LockInv /\ TimesInv
  BY DEF IInv
<1>1. ASSUME NEW t \in Threads, (Step(t) /\ ~Push(t)) \/ \E c \in Calls : Start(t, c)
      PROVE  TimesInv'
  <2>1. Others(t)
    BY <1>0, <1>1, StepOthers
  <2>2. UNCHANGED m_vOperationTimings /\ (m_mMutex = {} \/ UNCHANGED m_mMutex)
    BY <1>0, <1>1, StepTimes
  <2>3. TimesOf(t)
    BY <1>0 DEF TimesInv
  <2>4. TimesOf(t)'
    <3>1. CASE (\E c \in Calls : Start(t, c)) \/ LockMap(t) \/ Return(t)
      <4>1. pc'[t] \in {"lock", "stamp", "idle"}
        BY <1>0, <3>1, StepOwn
      <4> QED
        BY <4>1 DEF TimesOf, Stamped
    <3>2. CASE StampLock(t)
      <4>1. pc'[t] \in {"relock", "body"}
        BY <1>0, <3>2, StepOwn
      <4>2. m_tLockTime'[t] = now + 1 /\ m_tStartTime'[t] \in 0 .. now
        BY <1>0, <3>2, StepTimes DEF TypeOK
      <4>3. m_tStartTime'[t] < m_tLockTime'[t]
        BY <1>0, <4>2 DEF TypeOK
      <4>4. ConflictsEnded(t)'
        BY <1>0, <2>2, <4>2, EndsBeforeNow DEF ConflictsEnded
      <4> QED
        BY <4>1, <4>3, <4>4 DEF TimesOf
    <3>3. CASE LockMapAgain(t) \/ Body(t) \/ LockLog(t) \/ StampEnd(t)
      <4>1. /\ Stamped(t) /\ call'[t] = call[t]
            /\ UNCHANGED <<m_tStartTime, m_tLockTime>>
        BY <1>0, <3>3, StepOwn, StepTimes DEF Stamped
      <4>2. m_tStartTime'[t] < m_tLockTime'[t] /\ ConflictsEnded(t)'
        BY <2>2, <2>3, <4>1 DEF TimesOf, ConflictsEnded, IsWrite, Reads
      <4>3. CASE LockMapAgain(t) \/ Body(t)
        <5>1. pc'[t] \in {"body", "log"}
          BY <1>0, <4>3, StepOwn
        <5> QED
          BY <4>2, <5>1 DEF TimesOf
      <4>4. CASE LockLog(t)
        <5>1. pc'[t] = "end" /\ m_mMutex' = {t}
          BY <1>0, <4>4, StepOwn, StepTimes
        <5> QED
          BY <4>2, <5>1 DEF TimesOf
      <4>5. CASE StampEnd(t)
        <5>1. pc[t] = "end" /\ pc'[t] = "push" /\ m_tEndTime'[t] = now + 1
          BY <1>0, <4>5, StepOwn, StepTimes
        <5>2. m_mMutex' = m_mMutex
          <6>1. ~LockLog(t) /\ ~Push(t)
            BY <5>1 DEF LockLog, Push
          <6> QED
            BY <1>0, <4>5, <6>1, StepTimes DEF Step
        <5>3. m_mMutex' = {t}
          BY <2>3, <5>1, <5>2 DEF TimesOf
        <5>4. m_tLockTime'[t] < m_tEndTime'[t]
          BY <1>0, <4>1, <5>1 DEF TypeOK
        <5>5. LastToEnd(t)'
          BY <1>0, <2>2, <5>1, EndsBeforeNow DEF LastToEnd
        <5> QED
          BY <4>2, <5>1, <5>3, <5>4, <5>5 DEF TimesOf
      <4> QED
        BY <3>3, <4>3, <4>4, <4>5
    <3> QED
      BY <1>1, <3>1, <3>2, <3>3 DEF Step
  <2> QED
    BY <1>0, <2>1, <2>2, <2>4, TimesKept
<1>2. ASSUME NEW t \in Threads, Push(t)
      PROVE  TimesInv'
  <2>1. /\ pc[t] = "push" /\ pc'[t] = "unlock"
        /\ m_vOperationTimings' = Append(m_vOperationTimings, Timing(t))
    BY <1>0, <1>2, StepOwn DEF Push
  <2>2. Others(t)
    BY <1>0, <1>2, StepOthers DEF Step
  <2>3. m_mMutex = {t}
    BY <1>0, <2>1 DEF TimesInv, TimesOf
  <2>4. TimesOf(t)'
    BY <2>1 DEF TimesOf, Stamped
  <2>5. ASSUME NEW u \in Threads, u # t
        PROVE  TimesOf(u)'
    <3>1. TimesOf(u)
      BY <1>0 DEF TimesInv
    <3>2. pc[u] \notin {"end", "push"} /\ pc'[u] = pc[u]
      BY <2>2, <2>3, <2>5, <3>1 DEF TimesOf, Others
    <3>3. ASSUME Stamped(u)
          PROVE  ConflictsEnded(u)'
      <4>1. Reads(t) /\ Reads(u)
        BY <1>0, <2>1, <2>5, <3>3, ReadersOnly DEF Stamped, Holding
      <4>2. ConflictsEnded(u)
        BY <3>1, <3>3 DEF TimesOf
      <4>3. Reads(u)' /\ m_tLockTime'[u] = m_tLockTime[u]
        BY <2>2, <2>5, <4>1 DEF Others, Reads
      <4>4. ~IsWrite(Timing(t))
        BY <2>1, <4>1, TimingTypes, WritesDoNotRead DEF IsWrite
      <4>5. ASSUME NEW i \in DOMAIN m_vOperationTimings', IsWrite(m_vOperationTimings'[i])
            PROVE  m_vOperationTimings'[i].m_tEndTime < m_tLockTime'[u]
        <5>1. m_vOperationTimings \in Seq(ToSet(m_vOperationTimings))
          BY <1>0 DEF TypeOK, Logged
        <5>2. CASE i \in DOMAIN m_vOperationTimings
          <6>1. m_vOperationTimings'[i] = m_vOperationTimings[i]
            BY <2>1, <5>1, <5>2, OneMore
          <6> QED
            BY <4>2, <4>3, <4>5, <5>2, <6>1 DEF ConflictsEnded
        <5>3. CASE i \notin DOMAIN m_vOperationTimings
          <6>1. m_vOperationTimings'[i] = Timing(t)
            BY <2>1, <5>1, <5>3, OneMore
          <6> QED
            BY <4>4, <4>5, <6>1
        <5> QED
          BY <5>2, <5>3
      <4> QED
        BY <4>3, <4>5 DEF ConflictsEnded, IsWrite
    <3> QED
      BY <2>2, <2>5, <3>1, <3>2, <3>3 DEF TimesOf, Stamped, Others
  <2> QED
    BY <2>4, <2>5 DEF TimesInv
<1>3. CASE AllJoined
  BY <1>0, <1>3 DEF AllJoined, vars, baseVars, timeVars, logVars,
     TimesInv, TimesOf, Stamped, ConflictsEnded, LastToEnd, Reads
<1> QED
  BY <1>1, <1>2, <1>3 DEF Next
-----------------------------------------------------------------------------
\* The entry Push appends ends last, and got its lock after every operation
\* it conflicts with had ended.
LEMMA StepOrder == IInv /\ Next => LogInEndOrder' /\ ConflictsDoNotOverlap'
<1> SUFFICES ASSUME IInv, Next
             PROVE  LogInEndOrder' /\ ConflictsDoNotOverlap'
  OBVIOUS
<1>0. TypeOK /\ TimesInv /\ LogInEndOrder /\ ConflictsDoNotOverlap
  BY DEF IInv
<1>1. CASE UNCHANGED m_vOperationTimings
  BY <1>0, <1>1 DEF LogInEndOrder, ConflictsDoNotOverlap, IsWrite
<1>2. ASSUME NEW t \in Threads, Push(t)
      PROVE  LogInEndOrder' /\ ConflictsDoNotOverlap'
  <2> DEFINE log == m_vOperationTimings
             e   == Timing(t)
             n   == Len(log)
  <2>1. pc[t] = "push" /\ log' = Append(log, e)
    BY <1>2 DEF Push
  <2>2. /\ n \in Nat /\ DOMAIN log = 1 .. n /\ DOMAIN log' = 1 .. n + 1
        /\ \A i \in 1 .. n : log'[i] = log[i]
        /\ log'[n + 1] = e
    <3>1. log \in Seq(ToSet(log))
      BY <1>0 DEF TypeOK, Logged
    <3> QED
      BY <2>1, <3>1, OneMore
  <2>3. ASSUME NEW i \in 1 .. n
        PROVE  /\ log[i].m_tEndTime < e.m_tEndTime
               /\ IsWrite(log[i]) \/ IsWrite(e) => log[i].m_tEndTime < e.m_tLockTime
    <3>1. ConflictsEnded(t) /\ LastToEnd(t)
      BY <1>0, <2>1 DEF TimesInv, TimesOf, Stamped
    <3>2. e.call = call[t] /\ e.m_tLockTime = m_tLockTime[t] /\ e.m_tEndTime = m_tEndTime[t]
      BY DEF Timing
    <3>3. IsWrite(e) => ~Reads(t)
      BY <3>2, WritesDoNotRead DEF IsWrite
    <3> QED
      BY <2>2, <3>1, <3>2, <3>3 DEF ConflictsEnded, LastToEnd
  <2> HIDE DEF log, e, n
  <2>4. ASSUME NEW i \in 1 .. n + 1, NEW j \in 1 .. n + 1, i < j
        PROVE  /\ log'[i].m_tEndTime < log'[j].m_tEndTime
               /\ IsWrite(log'[i]) \/ IsWrite(log'[j])
                    => log'[i].m_tEndTime < log'[j].m_tLockTime
    <3>1. i \in 1 .. n
      BY <2>2, <2>4
    <3>2. CASE j \in 1 .. n
      BY <1>0, <2>2, <2>4, <3>1, <3>2 DEF LogInEndOrder, ConflictsDoNotOverlap, log
    <3>3. CASE j = n + 1
      BY <2>2, <2>3, <3>1, <3>3
    <3> QED
      BY <2>2, <3>2, <3>3
  <2> QED
    BY <2>2, <2>4 DEF LogInEndOrder, ConflictsDoNotOverlap, IsWrite, log
<1>3. ASSUME NEW t \in Threads, (Step(t) /\ ~Push(t)) \/ \E c \in Calls : Start(t, c)
      PROVE  UNCHANGED m_vOperationTimings
  BY <1>0, <1>3, StepTimes
<1>4. AllJoined => UNCHANGED m_vOperationTimings
  BY DEF AllJoined, vars, logVars
<1> QED
  BY <1>1, <1>2, <1>3, <1>4 DEF Next

LEMMA StutterIInv == IInv /\ UNCHANGED vars => IInv'
<1> SUFFICES ASSUME IInv, UNCHANGED vars PROVE IInv'
  OBVIOUS
<1> USE DEF vars, baseVars, timeVars, logVars
<1>1. TypeOK'
  BY DEF IInv, TypeOK, Logged
<1>2. PCInv' /\ LockInv'
  BY DEF IInv, PCInv, LockInv, Holding, Shares, Reads
<1>3. TimesInv'
  BY DEF IInv, TimesInv, TimesOf, Stamped, ConflictsEnded, LastToEnd, Reads
<1>4. LogInEndOrder' /\ ConflictsDoNotOverlap'
  BY DEF IInv, LogInEndOrder, ConflictsDoNotOverlap
<1> QED
  BY <1>1, <1>2, <1>3, <1>4 DEF IInv

\* The inductive invariant: who owns the map's lock and the log's, and what the
\* log holds already when an operation has its lock time or its end time.
THEOREM TimingsInvariant == Spec => []IInv
<1>1. IInv /\ Next => IInv'
  BY StepTypeOK, StepPCInv, StepLockInv, StepTimesInv, StepOrder DEF IInv
<1> QED
  BY <1>1, InitIInv, StutterIInv, PTL DEF Spec

\* The clock, the two locks, the threads' times and the log keep their types;
\* every logged operation got its lock after it was called and ended after that.
THEOREM TimingsTyped == Spec => []TypeOK
<1>1. IInv => TypeOK
  BY DEF IInv
<1> QED
  BY <1>1, TimingsInvariant, PTL

\* However many threads log however many operations, the log is in the order of
\* their end times: the end time is read under the log's mutex, which is what
\* sortByEndTimeAsc and the checks of filtered vectors rely on.
THEOREM LogIsInEndOrder == Spec => []LogInEndOrder
<1>1. IInv => LogInEndOrder
  BY DEF IInv
<1> QED
  BY <1>1, TimingsInvariant, PTL

\* An operation that excludes another got the map's lock after the other had
\* ended: the lock is held from before the lock time to after the end time, so
\* no writer's interval in the log meets any other's.
THEOREM LoggedConflictsDoNotOverlap == Spec => []ConflictsDoNotOverlap
<1>1. IInv => ConflictsDoNotOverlap
  BY DEF IInv
<1> QED
  BY <1>1, TimingsInvariant, PTL
-----------------------------------------------------------------------------
\* The greatest of some positions is one of them.
LEMMA LastOfSome ==
    ASSUME NEW n \in Nat, NEW W \in SUBSET (1 .. n), W # {}
    PROVE  Max(W) \in W
<1> DEFINE T == {n - x : x \in W}
<1>1. T \in SUBSET Nat /\ T # {}
  <2>1. \A x \in W : x \in Int /\ n - x \in Nat
    OBVIOUS
  <2>. QED
    BY <2>1
<1> HIDE DEF T
<1>2. PICK m \in T : \A k \in T : <<k, m>> \notin OpToRel(<, Nat)
  BY <1>1, NatLessThanWellFounded, WFMin
<1>3. ASSUME NEW k \in T PROVE m <= k
  <2>1. k \in Nat /\ m \in Nat
    BY <1>1
  <2>2. k < m => <<k, m>> \in OpToRel(<, Nat)
    BY <2>1 DEF OpToRel
  <2>3. ~(k < m)
    BY <1>2, <2>2
  <2>. QED
    BY <2>1, <2>3
<1> USE DEF T
<1>4. PICK x \in W : m = n - x
  OBVIOUS
<1>5. ASSUME NEW y \in W PROVE x >= y
  <2>1. m <= n - y
    BY <1>3
  <2>. QED
    BY <1>4, <2>1
<1>. QED
  BY <1>5 DEF Max

\* What sortByEndTimeAsc makes of a log that is in the order of the end times.
LEMMA SortedLog ==
    ASSUME TypeOK, LogInEndOrder, NEW b \in BOOLEAN
    PROVE  LET log == m_vOperationTimings
               s   == SortByEndTimeAsc(log, b)
           IN  /\ DOMAIN s = DOMAIN log
               /\ \A i \in DOMAIN s : \E k \in DOMAIN log : s[i] = log[k]
               /\ \A i, j \in DOMAIN s : i < j => s[i].m_tEndTime <= s[j].m_tEndTime
<1> DEFINE log == m_vOperationTimings
           places == DOMAIN log
           Sorts(p) == \A i, j \in places :
                          i < j => log[p[i]].m_tEndTime <= log[p[j]].m_tEndTime
           order == CHOOSE p \in Bijection(places, places) : Sorts(p)
<1>1. places \subseteq Int
  BY LenProperties DEF TypeOK
<1>2. \A i \in places : log[i].m_tEndTime \in Nat
  BY DEF TypeOK
<1>3. \A i, j \in places : i < j => log[i].m_tEndTime <= log[j].m_tEndTime
  BY <1>1, <1>2 DEF LogInEndOrder
<1>4. SortByEndTimeAsc(log, b) = IF b THEN log ELSE [i \in places |-> log[order[i]]]
  BY DEF SortByEndTimeAsc
<1>5. CASE b
  BY <1>3, <1>4, <1>5
<1>6. CASE ~b
  <2> DEFINE id == [i \in places |-> i]
  <2>1. id \in Bijection(places, places)
    BY DEF Bijection, Injection, Surjection, IsInjective
  <2>2. Sorts(id)
    BY <1>3
  <2>3. order \in Bijection(places, places) /\ Sorts(order)
    BY <2>1, <2>2
  <2> HIDE DEF order
  <2>4. \A i \in places : order[i] \in places
    BY <2>3 DEF Bijection, Injection
  <2>. QED
    BY <1>4, <1>6, <2>3, <2>4
<1>. QED
  BY <1>5, <1>6

\* A correct map's log passes checkLockTimes, whether it is sorted again or not.
LEMMA LogPasses ==
    ASSUME IInv, NEW b \in BOOLEAN
    PROVE  CheckLockTimes(m_vOperationTimings, b)
<1> DEFINE log == m_vOperationTimings
           s   == SortByEndTimeAsc(log, b)
           Parallel(i) == FilterParallelWorkers(s, s[i])
<1>0. TypeOK /\ LogInEndOrder /\ ConflictsDoNotOverlap
  BY DEF IInv
<1>1. /\ DOMAIN s = DOMAIN log
      /\ \A i \in DOMAIN s : \E k \in DOMAIN log : s[i] = log[k]
      /\ \A i, j \in DOMAIN s : i < j => s[i].m_tEndTime <= s[j].m_tEndTime
  BY <1>0, SortedLog
<1>2. DOMAIN log = 1 .. Len(log) /\ Len(log) \in Nat
  BY <1>0, LenProperties DEF TypeOK
<1> HIDE DEF s
<1>3. \A k \in DOMAIN log : /\ log[k].m_tStartTime \in Nat
                            /\ log[k].m_tLockTime \in Nat
                            /\ log[k].m_tEndTime \in Nat
                            /\ log[k].m_tLockTime < log[k].m_tEndTime
  BY <1>0 DEF TypeOK
<1>4. ASSUME NEW i \in DOMAIN s, NEW j \in DOMAIN s, s[i] # s[j],
             IsWrite(s[i]) \/ IsWrite(s[j])
      PROVE  \/ s[i].m_tEndTime < s[j].m_tLockTime
             \/ s[j].m_tEndTime < s[i].m_tLockTime
  <2>1. PICK k \in DOMAIN log, l \in DOMAIN log : s[i] = log[k] /\ s[j] = log[l]
    BY <1>1
  <2>2. k < l \/ l < k
    BY <1>2, <1>4, <2>1
  <2>. QED
    BY <1>0, <1>4, <2>1, <2>2 DEF ConflictsDoNotOverlap
<1>5. \A i \in DOMAIN s : /\ s[i].m_tStartTime \in Nat
                          /\ s[i].m_tLockTime \in Nat
                          /\ s[i].m_tEndTime \in Nat
                          /\ s[i].m_tLockTime < s[i].m_tEndTime
  BY <1>1, <1>3
<1>6. ASSUME NEW i \in DOMAIN s, NEW j \in Parallel(i)
      PROVE  IF IsWrite(s[i]) \/ IsWrite(s[j])
             THEN EndsInOrder(s[i], s[j]) ELSE ReadersApart(s, s[i], Parallel(i), j)
  <2>1. j \in DOMAIN s /\ s[j] # s[i]
    BY <1>6 DEF FilterParallelWorkers
  <2>2. CASE IsWrite(s[i]) \/ IsWrite(s[j])
    <3>1. EndsInOrder(s[i], s[j])
      BY <1>4, <1>5, <2>1, <2>2 DEF EndsInOrder
    <3>. QED
      BY <2>2, <3>1
  <2>3. CASE ~IsWrite(s[i]) /\ ~IsWrite(s[j])
    <3> DEFINE writers == {n \in Parallel(i) : n < j /\ IsWrite(s[n])}
               w == Max(writers)
    <3>1. writers \in SUBSET (1 .. Len(log))
      BY <1>1, <1>2 DEF FilterParallelWorkers
    <3>2. ASSUME writers # {}
          PROVE  s[w].m_tEndTime <= s[j].m_tLockTime
      <4>1. w \in writers
        BY <1>2, <3>1, <3>2, LastOfSome
      <4>2. w \in DOMAIN s /\ w < j /\ IsWrite(s[w])
        BY <4>1 DEF FilterParallelWorkers
      <4> HIDE DEF w
      <4>3. s[w] # s[j] /\ s[w].m_tEndTime <= s[j].m_tEndTime
        BY <1>1, <2>1, <2>3, <4>2
      <4>4. \/ s[w].m_tEndTime < s[j].m_tLockTime
            \/ s[j].m_tEndTime < s[w].m_tLockTime
        BY <1>4, <2>1, <4>2, <4>3
      <4>. QED
        BY <1>5, <2>1, <4>2, <4>3, <4>4
    <3>. QED
      BY <2>3, <3>2 DEF ReadersApart
  <2>. QED
    BY <2>2, <2>3
<1>. QED
  BY <1>6 DEF CheckLockTimes, s

\* checkLockTimes gives no false alarm, however many threads made
\* however many calls: of two operations one of which writes, the earlier has
\* ended before the later gets the lock, so the order of the lock times and of
\* the end times is the same, and no writer that ended before a reader did
\* ended after the reader got its lock.
THEOREM CorrectLogPasses == Spec => []CorrectMapPasses
<1>1. IInv => CorrectMapPasses
  <2>1. IInv => m_bIsSorted \in BOOLEAN
    BY DEF IInv, TypeOK
  <2>. QED
    BY <2>1, LogPasses DEF CorrectMapPasses
<1>. QED
  BY <1>1, TimingsInvariant, PTL
-----------------------------------------------------------------------------
(***************************************************************************)
(* What the log says of the map as it is now.  An operation that has taken *)
(* effect and is not logged yet stands between the two.                    *)
(***************************************************************************)
InMap == UNION {ToSet(items[k]) : k \in Keys}

LoggedCalls(op) == {y \in Logged : y.call.op = op}

PresentNow ==
    {p \in UNION {PairsOf(y) : y \in LoggedCalls("insert")} :
        /\ \A y \in LoggedCalls("remove") : p \notin PairsOf(y)
        /\ \A y \in LoggedCalls("clear") :
              \A z \in LoggedCalls("insert") :
                  p \in PairsOf(z) => y.m_tLockTime < z.m_tLockTime}

Done(t) == pc[t] \in {"log", "end", "push"}

TableInv ==
    /\ nPairs \in Nat /\ capacity \in Nat \ {0}
    /\ items \in [Keys -> Seq(Pairs)]
    /\ \A k \in Keys : /\ IsInjective(items[k])
                       /\ \A p \in ToSet(items[k]) : p.key = k /\ p.val <= nPairs
    /\ ret = [t \in Threads |-> ret[t]]

\* A pair in the log was made before the one an insertion is about to log.
NumbersInv ==
    /\ \A y \in Logged : y.call.op \in {"insert", "remove"} =>
          \A p \in PairsOf(y) : p \in Pairs /\ p.val <= nPairs
    /\ \A t \in Threads : Done(t) /\ call[t].op = "insert" =>
          \A y \in Logged : y.call.op \in {"insert", "remove"} =>
              \A p \in PairsOf(y) : p.val # nPairs

\* A reader's answer is still what the map holds.
Answered(t) ==
    LET c == call[t]
        r == ret[t]
    IN /\ c.op \in {"find", "equalRange"} => ToSet(r.pairs) \subseteq ToSet(items[c.tKey])
       /\ c.op = "find" => (ToSet(r.pairs) # {}) = (Len(items[c.tKey]) > c.iPos)
       /\ c.op = "operator[]" => ToSet(r.pairs) = ToSet(items[c.tKey])
       /\ c.op = "size" => r.n = Cardinality(InMap)
       /\ c.op = "empty" => r.b = (InMap = {})

\* A writer has made its change to what the log says.
Changed(t) ==
    LET c == call[t]
    IN /\ c.op = "insert" => InMap = PresentNow \cup {[key |-> c.tKey, val |-> nPairs]}
       /\ c.op = "remove" =>
             /\ ToSet(ret[t].pairs) \subseteq {p \in PresentNow : p.key = c.tKey}
             /\ InMap = PresentNow \ ToSet(ret[t].pairs)
       /\ c.op = "extend" => InMap = PresentNow
       /\ c.op = "clear" => InMap = {}

ContentInv ==
    /\ (\A t \in Threads : Done(t) => Reads(t)) => InMap = PresentNow
    /\ \A t \in Threads : Done(t) => IF Reads(t) THEN Answered(t) ELSE Changed(t)

RInv == IInv /\ TableInv /\ NumbersInv /\ ContentInv /\ ResultsFollowLockTimes
-----------------------------------------------------------------------------
\* A part of a sequence, place by place.
LEMMA PartOf ==
    ASSUME NEW S, NEW s \in Seq(S), NEW a \in Nat, NEW b \in Nat, 1 <= a, a <= b + 1, b <= Len(s)
    PROVE  /\ SubSeq(s, a, b) \in Seq(S)
           /\ Len(SubSeq(s, a, b)) = b - a + 1
           /\ \A i \in 1 .. b - a + 1 : SubSeq(s, a, b)[i] = s[a + i - 1]
<1> DEFINE n == Len(s)
<1>1. n \in Nat /\ DOMAIN s = 1 .. n /\ \A i \in 1 .. n : s[i] \in S
  BY LenProperties, ElementOfSeq
<1>2. \A i \in a .. b : s[i] \in S
  BY <1>1
<1>3. /\ SubSeq(s, a, b) \in Seq(S)
      /\ Len(SubSeq(s, a, b)) = IF a <= b THEN b - a + 1 ELSE 0
  BY <1>2, SubSeqProperties
<1>5. \A i \in 1 .. b - a + 1 : SubSeq(s, a, b)[i] = s[a + i - 1]
  BY <1>2, SubSeqProperties
<1>4. b - a + 1 = IF a <= b THEN b - a + 1 ELSE 0
  OBVIOUS
<1>. QED
  BY <1>3, <1>4, <1>5, Zenon

\* What a removal takes out, and what it leaves.
LEMMA CutOut ==
    ASSUME NEW S, NEW s \in Seq(S), IsInjective(s), NEW i \in Nat, NEW n \in Nat \ {0},
           i + n <= Len(s)
    PROVE  /\ Base!Slice(s, i, n) \in Seq(S)
           /\ ToSet(Base!Slice(s, i, n)) \subseteq ToSet(s)
           /\ ToSet(Base!Slice(s, i, n)) # {}
           /\ Base!Without(s, i, n) \in Seq(S)
           /\ IsInjective(Base!Without(s, i, n))
           /\ ToSet(Base!Without(s, i, n)) = ToSet(s) \ ToSet(Base!Slice(s, i, n))
<1> DEFINE l == Len(s)
           a == SubSeq(s, i + 1, i + n)
           b == SubSeq(s, 1, i)
           c == SubSeq(s, i + n + 1, l)
           r == b \o c
<1>1. l \in Nat /\ DOMAIN s = 1 .. l /\ i + n <= l
  BY LenProperties
<1>2. Base!Slice(s, i, n) = a /\ Base!Without(s, i, n) = r
  BY DEF Base!Slice, Base!Without
<1>3. a \in Seq(S) /\ Len(a) = n /\ \A j \in 1 .. n : a[j] = s[i + j]
  <2> DEFINE from == i + 1
             to == i + n
  <2>0. a = SubSeq(s, from, to)
    OBVIOUS
  <2> HIDE DEF l, a
  <2>1. /\ from \in Nat /\ to \in Nat /\ 1 <= from /\ from <= to + 1 /\ to <= l
        /\ to - from + 1 = n
        /\ \A j \in 1 .. n : from + j - 1 = i + j
    BY <1>1
  <2> HIDE DEF from, to
  <2>2. /\ SubSeq(s, from, to) \in Seq(S)
        /\ Len(SubSeq(s, from, to)) = to - from + 1
        /\ \A j \in 1 .. to - from + 1 : SubSeq(s, from, to)[j] = s[from + j - 1]
    BY <2>1, PartOf DEF l
  <2>. QED
    BY <2>0, <2>1, <2>2
<1>4. b \in Seq(S) /\ Len(b) = i /\ \A j \in 1 .. i : b[j] = s[j]
  <2> HIDE DEF l
  <2>1. /\ 1 \in Nat /\ i \in Nat /\ 1 <= 1 /\ 1 <= i + 1 /\ i <= l
        /\ i - 1 + 1 = i /\ \A j \in 1 .. i : 1 + j - 1 = j
    BY <1>1
  <2>2. /\ b \in Seq(S)
        /\ Len(b) = i - 1 + 1
        /\ \A j \in 1 .. i - 1 + 1 : b[j] = s[1 + j - 1]
    BY <2>1, PartOf DEF l
  <2> HIDE DEF b
  <2>. QED
    BY <2>1, <2>2
<1>5. c \in Seq(S) /\ Len(c) = l - (i + n) /\ \A j \in 1 .. l - (i + n) : c[j] = s[i + n + j]
  <2> DEFINE m == i + n + 1
  <2>0. c = SubSeq(s, m, l)
    OBVIOUS
  <2> HIDE DEF l, c
  <2>1. /\ m \in Nat /\ l \in Nat /\ 1 <= m /\ m <= l + 1 /\ l <= l
        /\ l - m + 1 = l - (i + n)
        /\ \A j \in 1 .. l - (i + n) : m + j - 1 = i + n + j
    BY <1>1
  <2> HIDE DEF m
  <2>2. /\ SubSeq(s, m, l) \in Seq(S)
        /\ Len(SubSeq(s, m, l)) = l - m + 1
        /\ \A j \in 1 .. l - m + 1 : SubSeq(s, m, l)[j] = s[m + j - 1]
    BY <2>1, PartOf DEF l
  <2>. QED
    BY <2>0, <2>1, <2>2
<1> HIDE DEF a, b, c
<1>6. /\ r \in Seq(S) /\ Len(r) = l - n
      /\ \A j \in 1 .. l - n : r[j] = s[IF j <= i THEN j ELSE j + n]
  <2>1. /\ r \in Seq(S) /\ Len(r) = Len(b) + Len(c)
        /\ \A j \in 1 .. Len(b) + Len(c) : r[j] = IF j <= Len(b) THEN b[j] ELSE c[j - Len(b)]
    BY <1>4, <1>5, ConcatProperties, Zenon
  <2> HIDE DEF r, l
  <2>2. Len(r) = l - n
    BY <1>1, <1>4, <1>5, <2>1
  <2>3. ASSUME NEW j \in 1 .. l - n
        PROVE  r[j] = s[IF j <= i THEN j ELSE j + n]
    <3>1. r[j] = IF j <= i THEN b[j] ELSE c[j - i]
      BY <1>1, <1>4, <1>5, <2>1
    <3>2. CASE j <= i
      BY <1>4, <3>1, <3>2
    <3>3. CASE ~(j <= i)
      <4>1. j - i \in 1 .. l - (i + n) /\ i + n + (j - i) = j + n
        BY <1>1, <3>3
      <4>. QED
        BY <1>5, <3>1, <3>3, <4>1
    <3>. QED
      BY <3>2, <3>3
  <2>. QED
    BY <2>1, <2>2, <2>3
<1> HIDE DEF r
<1>7. DOMAIN a = 1 .. n /\ DOMAIN r = 1 .. l - n
  BY <1>3, <1>6, LenProperties
<1> HIDE DEF l
<1>8. ToSet(a) \subseteq ToSet(s) /\ ToSet(a) # {}
  <2>1. \A j \in 1 .. n : i + j \in 1 .. l
    BY <1>1
  <2>2. 1 \in 1 .. n
    OBVIOUS
  <2>. QED
    BY <1>1, <1>3, <1>7, <2>1, <2>2 DEF ToSet
<1>9. IsInjective(r)
  <2> SUFFICES ASSUME NEW j \in 1 .. l - n, NEW k \in 1 .. l - n, r[j] = r[k]
               PROVE  j = k
    BY <1>7 DEF IsInjective
  <2> DEFINE at(m) == IF m <= i THEN m ELSE m + n
  <2>1. at(j) \in 1 .. l /\ at(k) \in 1 .. l /\ (at(j) = at(k) => j = k)
    BY <1>1
  <2>2. s[at(j)] = s[at(k)]
    BY <1>6
  <2> HIDE DEF at
  <2>. QED
    BY <1>1, <2>1, <2>2 DEF IsInjective
<1>10. ToSet(r) = ToSet(s) \ ToSet(a)
  <2>1. ASSUME NEW j \in 1 .. l - n
        PROVE  r[j] \in ToSet(s) /\ r[j] \notin ToSet(a)
    <3> DEFINE m == IF j <= i THEN j ELSE j + n
    <3>1. m \in 1 .. l /\ \A k \in 1 .. n : i + k \in 1 .. l /\ i + k # m
      BY <1>1
    <3>2. r[j] = s[m]
      BY <1>6
    <3> HIDE DEF m
    <3>3. \A k \in 1 .. n : s[i + k] # s[m]
      BY <1>1, <3>1 DEF IsInjective
    <3>4. \A k \in 1 .. n : a[k] # r[j]
      BY <1>3, <3>2, <3>3
    <3>. QED
      BY <1>1, <1>7, <3>1, <3>2, <3>4 DEF ToSet
  <2>2. ASSUME NEW m \in 1 .. l, s[m] \notin ToSet(a)
        PROVE  s[m] \in ToSet(r)
    <3>1. ~(i < m /\ m <= i + n)
      <4> SUFFICES ASSUME i < m, m <= i + n PROVE FALSE
        OBVIOUS
      <4>1. m - i \in 1 .. n /\ i + (m - i) = m
        BY <1>1
      <4>2. a[m - i] = s[m]
        BY <1>3, <4>1
      <4>. QED
        BY <1>7, <2>2, <4>1, <4>2 DEF ToSet
    <3> DEFINE j == IF m <= i THEN m ELSE m - n
    <3>2. j \in 1 .. l - n /\ (IF j <= i THEN j ELSE j + n) = m
      BY <1>1, <3>1
    <3>3. r[j] = s[m]
      BY <1>6, <3>2
    <3>. QED
      BY <1>7, <3>2, <3>3 DEF ToSet
  <2>. QED
    BY <1>1, <1>7, <2>1, <2>2 DEF ToSet
<1>. QED
  BY <1>2, <1>3, <1>6, <1>8, <1>9, <1>10

\* What an insertion makes of the sequence of its key.
LEMMA PutIn ==
    ASSUME NEW S, NEW s \in Seq(S), IsInjective(s), NEW i \in 0 .. Len(s), NEW e \in S, e \notin ToSet(s)
    PROVE  /\ InsertAt(s, i + 1, e) \in Seq(S)
           /\ IsInjective(InsertAt(s, i + 1, e))
           /\ ToSet(InsertAt(s, i + 1, e)) = ToSet(s) \cup {e}
<1> DEFINE l == Len(s)
           b == SubSeq(s, 1, i)
           c == SubSeq(s, i + 1, l)
           m == <<e>>
           q == b \o m
           r == q \o c
<1>1. l \in Nat /\ DOMAIN s = 1 .. l /\ i \in Nat /\ i <= l
  BY LenProperties
<1>2. InsertAt(s, i + 1, e) = r
  <2>1. (i + 1) - 1 = i
    BY <1>1
  <2>2. InsertAt(s, i + 1, e) = SubSeq(s, 1, (i + 1) - 1) \o <<e>> \o SubSeq(s, i + 1, Len(s))
    BY DEF InsertAt
  <2>. QED
    BY <2>1, <2>2
<1>3. b \in Seq(S) /\ Len(b) = i /\ \A j \in 1 .. i : b[j] = s[j]
  <2> HIDE DEF l
  <2>1. /\ 1 \in Nat /\ i \in Nat /\ 1 <= 1 /\ 1 <= i + 1 /\ i <= l
        /\ i - 1 + 1 = i /\ \A j \in 1 .. i : 1 + j - 1 = j
    BY <1>1
  <2>2. /\ b \in Seq(S)
        /\ Len(b) = i - 1 + 1
        /\ \A j \in 1 .. i - 1 + 1 : b[j] = s[1 + j - 1]
    BY <2>1, PartOf DEF l
  <2> HIDE DEF b
  <2>. QED
    BY <2>1, <2>2
<1>4. c \in Seq(S) /\ Len(c) = l - i /\ \A j \in 1 .. l - i : c[j] = s[i + j]
  <2> DEFINE k == i + 1
  <2>0. c = SubSeq(s, k, l)
    OBVIOUS
  <2> HIDE DEF l, c
  <2>1. /\ k \in Nat /\ l \in Nat /\ 1 <= k /\ k <= l + 1 /\ l <= l
        /\ l - k + 1 = l - i
        /\ \A j \in 1 .. l - i : k + j - 1 = i + j
    BY <1>1
  <2> HIDE DEF k
  <2>2. /\ SubSeq(s, k, l) \in Seq(S)
        /\ Len(SubSeq(s, k, l)) = l - k + 1
        /\ \A j \in 1 .. l - k + 1 : SubSeq(s, k, l)[j] = s[k + j - 1]
    BY <2>1, PartOf DEF l
  <2>. QED
    BY <2>0, <2>1, <2>2
<1>5. m \in Seq(S) /\ Len(m) = 1 /\ m[1] = e
  OBVIOUS
<1> HIDE DEF b, c, m
<1>6. /\ q \in Seq(S) /\ Len(q) = i + 1
      /\ \A j \in 1 .. i : q[j] = s[j]
      /\ q[i + 1] = e
  <2>1. /\ q \in Seq(S) /\ Len(q) = Len(b) + Len(m)
        /\ \A j \in 1 .. Len(b) + Len(m) : q[j] = IF j <= Len(b) THEN b[j] ELSE m[j - Len(b)]
    BY <1>3, <1>5, ConcatProperties, Zenon
  <2> HIDE DEF q, l
  <2>. QED
    BY <1>1, <1>3, <1>5, <2>1
<1> HIDE DEF q
<1>7. /\ r \in Seq(S) /\ Len(r) = l + 1
      /\ \A j \in 1 .. l + 1 : r[j] = IF j <= i THEN s[j] ELSE IF j = i + 1 THEN e ELSE s[j - 1]
  <2>1. /\ r \in Seq(S) /\ Len(r) = Len(q) + Len(c)
        /\ \A j \in 1 .. Len(q) + Len(c) : r[j] = IF j <= Len(q) THEN q[j] ELSE c[j - Len(q)]
    BY <1>4, <1>6, ConcatProperties, Zenon
  <2> HIDE DEF r, l
  <2>2. Len(r) = l + 1
    BY <1>1, <1>4, <1>6, <2>1
  <2>3. ASSUME NEW j \in 1 .. l + 1
        PROVE  r[j] = IF j <= i THEN s[j] ELSE IF j = i + 1 THEN e ELSE s[j - 1]
    <3>1. r[j] = IF j <= i + 1 THEN q[j] ELSE c[j - (i + 1)]
      BY <1>1, <1>4, <1>6, <2>1
    <3>2. CASE j <= i + 1
      BY <1>1, <1>6, <3>1, <3>2
    <3>3. CASE ~(j <= i + 1)
      <4>1. /\ j - (i + 1) \in 1 .. l - i /\ i + (j - (i + 1)) = j - 1
            /\ ~(j <= i) /\ j # i + 1
        BY <1>1, <3>3
      <4>. QED
        BY <1>4, <3>1, <3>3, <4>1
    <3>. QED
      BY <3>2, <3>3
  <2>. QED
    BY <2>1, <2>2, <2>3
<1> HIDE DEF r
<1>8. DOMAIN r = 1 .. l + 1
  BY <1>7, LenProperties
<1> HIDE DEF l
<1>9. \A j \in 1 .. l : s[j] # e
  BY <1>1 DEF ToSet
<1>10. IsInjective(r)
  <2> SUFFICES ASSUME NEW j \in 1 .. l + 1, NEW k \in 1 .. l + 1, r[j] = r[k]
               PROVE  j = k
    BY <1>8 DEF IsInjective
  <2> DEFINE at(n) == IF n <= i THEN n ELSE n - 1
  <2>1. \A n \in 1 .. l + 1 : n # i + 1 => at(n) \in 1 .. l /\ r[n] = s[at(n)]
    BY <1>1, <1>7
  <2>2. \A n \in 1 .. l + 1 : n # i + 1 => r[n] # e
    BY <1>9, <2>1
  <2>3. r[i + 1] = e
    BY <1>1, <1>7
  <2>4. j = i + 1 <=> k = i + 1
    BY <2>2, <2>3
  <2>5. CASE j # i + 1 /\ k # i + 1
    <3>1. at(j) = at(k)
      BY <1>1, <2>1, <2>5 DEF IsInjective
    <3>. QED
      BY <1>1, <2>5, <3>1
  <2>. QED
    BY <2>4, <2>5
<1>11. ToSet(r) = ToSet(s) \cup {e}
  <2>1. ASSUME NEW j \in 1 .. l + 1
        PROVE  r[j] \in ToSet(s) \cup {e}
    <3>1. r[j] = e \/ \E n \in 1 .. l : r[j] = s[n]
      BY <1>1, <1>7
    <3>. QED
      BY <1>1, <3>1 DEF ToSet
  <2>2. e \in ToSet(r)
    <3>1. i + 1 \in 1 .. l + 1 /\ r[i + 1] = e
      BY <1>1, <1>7
    <3>. QED
      BY <1>8, <3>1 DEF ToSet
  <2>3. ASSUME NEW n \in 1 .. l
        PROVE  s[n] \in ToSet(r)
    <3>1. \E j \in 1 .. l + 1 : r[j] = s[n]
      <4>1. CASE n <= i
        BY <1>1, <1>7, <4>1
      <4>2. CASE ~(n <= i)
        <5>1. n + 1 \in 1 .. l + 1 /\ ~(n + 1 <= i) /\ n + 1 # i + 1 /\ (n + 1) - 1 = n
          BY <1>1, <4>2
        <5>. QED
          BY <1>7, <5>1
      <4>. QED
        BY <4>1, <4>2
    <3>. QED
      BY <1>8, <3>1 DEF ToSet
  <2>. QED
    BY <1>1, <1>8, <2>1, <2>2, <2>3 DEF ToSet
<1>. QED
  BY <1>2, <1>7, <1>10, <1>11

\* How many pairs a limit lets through.
LEMMA HowMany ==
    ASSUME NEW S, NEW s \in Seq(S), NEW i \in Nat, NEW limit \in Nat
    PROVE  /\ Base!Taken(s, i, limit) \in Nat
           /\ Base!Taken(s, i, limit) # 0 => i + Base!Taken(s, i, limit) <= Len(s)
           /\ limit = 1 => (Base!Taken(s, i, limit) # 0 <=> Len(s) > i)
  BY LenProperties DEF Base!Taken, Base!Upto

\* What a reader or a removal answers.
LEMMA Answers ==
    ASSUME NEW S, NEW s \in Seq(S), IsInjective(s), NEW i \in Nat, NEW limit \in Nat
    PROVE  LET n == Base!Taken(s, i, limit)
               a == Base!Slice(s, i, n)
               r == IF n = 0 THEN s ELSE Base!Without(s, i, n)
           IN  /\ ToSet(a) \subseteq ToSet(s)
               /\ limit = 1 => (ToSet(a) # {} <=> Len(s) > i)
               /\ r \in Seq(S) /\ IsInjective(r)
               /\ ToSet(r) = ToSet(s) \ ToSet(a)
<1> DEFINE n == Base!Taken(s, i, limit)
           a == Base!Slice(s, i, n)
<1>1. n \in Nat /\ (n # 0 => i + n <= Len(s)) /\ (limit = 1 => (n # 0 <=> Len(s) > i))
  BY HowMany
<1> HIDE DEF n
<1>2. CASE n = 0
  <2>1. a = <<>>
    <3>1. i + 1 \in Int /\ i + n \in Int /\ i + n < i + 1
      BY <1>2
    <3>. QED
      BY <3>1, SubSeqEmpty, Zenon DEF Base!Slice
  <2>2. ToSet(a) = {}
    <3>1. DOMAIN <<>> = {}
      OBVIOUS
    <3>2. DOMAIN a = {}
      BY <2>1, <3>1
    <3>. QED
      BY <3>2 DEF ToSet
  <2>. QED
    BY <1>1, <1>2, <2>2 DEF n
<1>3. CASE n # 0
  BY <1>1, <1>3, CutOut DEF n
<1>. QED
  BY <1>2, <1>3

\* The size of the map is the number of pairs in it.
LEMMA Counted ==
    ASSUME TableInv, IsFiniteSet(Keys)
    PROVE  /\ Base!Total = Cardinality(InMap)
           /\ Base!Total = 0 <=> InMap = {}
           /\ \A k \in Keys : /\ {p \in InMap : p.key = k} = ToSet(items[k])
                              /\ Cardinality(ToSet(items[k])) = Len(items[k])
<1>1. Base!Total = Cardinality(InMap)
  <2>1. Base!Present = InMap
    BY DEF Base!Present, InMap, ToSet, Base!ToSet
  <2>. QED
    BY <2>1 DEF Base!Total, Base!Cardinality, Cardinality
<1>2. ASSUME NEW k \in Keys
      PROVE  /\ {p \in InMap : p.key = k} = ToSet(items[k])
             /\ IsFiniteSet(ToSet(items[k]))
             /\ Cardinality(ToSet(items[k])) = Len(items[k])
  <2>1. \A j \in Keys : \A p \in ToSet(items[j]) : p.key = j
    BY DEF TableInv
  <2>2. {p \in InMap : p.key = k} = ToSet(items[k])
    BY <2>1 DEF InMap
  <2>3. items[k] \in Seq(Pairs) /\ IsInjective(items[k])
    BY DEF TableInv
  <2>4. DOMAIN items[k] = 1 .. Len(items[k]) /\ Len(items[k]) \in Nat /\ items[k] \in [1 .. Len(items[k]) -> Pairs]
    BY <2>3, LenProperties
  <2>5. items[k] \in Bijection(1 .. Len(items[k]), ToSet(items[k]))
    BY <2>3, <2>4 DEF Bijection, Injection, Surjection, IsInjective, ToSet
  <2>6. IsFiniteSet(1 .. Len(items[k])) /\ Cardinality(1 .. Len(items[k])) = Len(items[k])
    BY <2>4, FS_Interval
  <2>7. /\ IsFiniteSet(ToSet(items[k]))
        /\ Cardinality(ToSet(items[k])) = Cardinality(1 .. Len(items[k]))
    BY <2>5, <2>6, FS_Bijection DEF ExistsBijection
  <2>. QED
    BY <2>2, <2>6, <2>7
<1>3. IsFiniteSet(InMap)
  <2>1. IsFiniteSet({ToSet(items[k]) : k \in Keys})
    <3> DEFINE f == [k \in Keys |-> ToSet(items[k])]
    <3>1. f \in Surjection(Keys, {ToSet(items[k]) : k \in Keys})
      BY DEF Surjection
    <3>. QED
      BY <3>1, FS_Surjection
  <2>2. \A T \in {ToSet(items[k]) : k \in Keys} : IsFiniteSet(T)
    BY <1>2
  <2>. QED
    BY <2>1, <2>2, FS_UNION DEF InMap
<1>4. Base!Total = 0 <=> InMap = {}
  BY <1>1, <1>3, FS_EmptySet
<1>. QED
  BY <1>1, <1>2, <1>4
-----------------------------------------------------------------------------
\* The arguments of a call.
LEMMA Arguments ==
    ASSUME NEW c \in Calls
    PROVE  /\ c.op \in AllOps
           /\ c.op \in {"find", "equalRange", "operator[]", "insert", "remove"} => c.tKey \in Keys
           /\ c.op \in {"find", "equalRange", "remove"} => c.iPos \in Nat
           /\ c.op \in {"equalRange", "remove"} => c.nCount \in Nat
           /\ c.op = "extend" => c.nNewCapacity \in Nat
  BY InterfaceAssumption DEF Calls, FindCalls, RangeCalls, SubscriptCalls, InsertCalls,
     RemoveCalls, ExtendCalls, PlainCalls, AllOps, ReadOps, WriteOps

\* The pairs of one key change.
LEMMA KeyChanges ==
    ASSUME TableInv, NEW k \in Keys, NEW q \in Seq(Pairs), IsInjective(q), NEW m \in Nat, nPairs <= m,
           \A p \in ToSet(q) : p.key = k /\ p.val <= m,
           items' = [items EXCEPT ![k] = q], nPairs' = m
    PROVE  /\ items' \in [Keys -> Seq(Pairs)]
           /\ \A j \in Keys : /\ IsInjective(items'[j])
                              /\ \A p \in ToSet(items'[j]) : p.key = j /\ p.val <= nPairs'
           /\ InMap' = (InMap \ ToSet(items[k])) \cup ToSet(q)
<1>1. items \in [Keys -> Seq(Pairs)] /\ nPairs \in Nat
  BY DEF TableInv
<1>2. items' \in [Keys -> Seq(Pairs)]
  BY <1>1
<1>3. items'[k] = q /\ \A j \in Keys \ {k} : items'[j] = items[j]
  BY <1>1
<1>4. \A j \in Keys : IsInjective(items'[j])
  BY <1>3 DEF TableInv
<1>5. \A j \in Keys : \A p \in ToSet(items[j]) : p.key = j /\ p.val \in Nat /\ p.val <= nPairs
  <2> SUFFICES ASSUME NEW j \in Keys, NEW p \in ToSet(items[j]) PROVE p.val \in Nat
    BY DEF TableInv
  <2>1. items[j] \in Seq(Pairs)
    BY <1>1
  <2>2. p \in Pairs
    BY <2>1, LenProperties DEF ToSet
  <2>. QED
    BY <2>2 DEF Pairs
<1>6. \A j \in Keys : \A p \in ToSet(items'[j]) : p.key = j /\ p.val <= nPairs'
  <2> SUFFICES ASSUME NEW j \in Keys, NEW p \in ToSet(items'[j])
               PROVE  p.key = j /\ p.val <= m
    OBVIOUS
  <2>1. CASE j = k
    BY <1>3, <2>1
  <2>2. CASE j # k
    <3>1. p \in ToSet(items[j])
      BY <1>3, <2>2
    <3>. QED
      BY <1>1, <1>5, <3>1
  <2>. QED
    BY <2>1, <2>2
<1>7. InMap' = UNION {ToSet(items'[j]) : j \in Keys}
  BY DEF InMap
<1>8. \A p \in InMap : p \in ToSet(items[p.key]) /\ p.key \in Keys
  BY <1>5 DEF InMap
<1>9. InMap' = (InMap \ ToSet(items[k])) \cup ToSet(q)
  <2>1. ASSUME NEW p \in InMap', p \notin ToSet(q)
        PROVE  p \in InMap /\ p \notin ToSet(items[k])
    <3>1. PICK j \in Keys : p \in ToSet(items'[j])
      BY <1>7
    <3>2. j # k /\ p \in ToSet(items[j])
      BY <1>3, <2>1, <3>1
    <3>. QED
      BY <1>5, <3>2 DEF InMap
  <2>2. ASSUME NEW p \in InMap, p \notin ToSet(items[k])
        PROVE  p \in InMap'
    <3>1. p.key \in Keys /\ p.key # k /\ p \in ToSet(items[p.key])
      BY <1>8, <2>2
    <3>. QED
      BY <1>3, <1>7, <3>1
  <2>3. \A p \in ToSet(q) : p \in InMap'
    BY <1>3, <1>7
  <2>. QED
    BY <2>1, <2>2, <2>3
<1>. QED
  BY <1>2, <1>4, <1>6, <1>9

\* Calls that leave the pairs alone.
LEMMA TableKept ==
    ASSUME TableInv, UNCHANGED <<items, nPairs>>, capacity' \in Nat \ {0},
           ret' = [u \in Threads |-> ret'[u]]
    PROVE  TableInv' /\ InMap' = InMap
  BY DEF TableInv, InMap

LEMMA ReadsAnswer ==
    ASSUME TableInv, IsFiniteSet(Keys), NEW t \in Threads, call[t] \in Calls,
           Base!ReadEffect(t, call[t]), Reads(t), call' = call
    PROVE  TableInv' /\ UNCHANGED <<items, nPairs>> /\ Answered(t)'
           /\ \A u \in Threads \ {t} : ret'[u] = ret[u]
<1> DEFINE c == call[t]
           s == items[c.tKey]
<1>1. UNCHANGED <<items, capacity, nPairs>>
  BY DEF Base!ReadEffect
<1>2. ret = [u \in Threads |-> ret[u]]
  BY DEF TableInv
<1>3. c.op \in ReadOps /\ c \in Calls
  BY DEF Reads
<1>4. ASSUME NEW r, Base!Answer(t, r)
      PROVE  ret'[t] = r /\ ret' = [u \in Threads |-> ret'[u]] /\ \A u \in Threads \ {t} : ret'[u] = ret[u]
  BY <1>2, <1>4, Zenon DEF Base!Answer
<1>5. ASSUME c.op \in {"find", "equalRange", "operator[]"}
      PROVE  s \in Seq(Pairs) /\ IsInjective(s) /\ Len(s) \in Nat
  BY <1>5, Arguments, LenProperties DEF TableInv
<1> HIDE DEF s
<1>6. CASE c.op = "find"
  <2> DEFINE a == Base!Slice(s, c.iPos, Base!Taken(s, c.iPos, 1))
  <2>1. Base!Answer(t, Range_(a))
    BY <1>6 DEF Base!ReadEffect, Base!Range_, Range_, s
  <2>2. c.iPos \in Nat
    BY <1>3, <1>6, Arguments
  <2>3. ToSet(a) \subseteq ToSet(s) /\ (ToSet(a) # {} <=> Len(s) > c.iPos)
    BY <1>5, <1>6, <2>2, Answers
  <2>4. ret'[t].pairs = a
    BY <1>4, <2>1 DEF Range_
  <2>5. Answered(t)'
    BY <1>1, <1>6, <2>3, <2>4 DEF Answered, s
  <2>. QED
    BY <1>1, <1>4, <2>1, <2>5, TableKept DEF TableInv
<1>7. CASE c.op = "equalRange"
  <2> DEFINE a == Base!Slice(s, c.iPos, Base!Taken(s, c.iPos, Base!Limit(c)))
  <2>1. Base!Answer(t, Range_(a))
    BY <1>7 DEF Base!ReadEffect, Base!Range_, Range_, s
  <2>2. c.iPos \in Nat /\ Base!Limit(c) \in Nat
    BY <1>3, <1>5, <1>7, Arguments DEF Base!Limit, s
  <2>3. ToSet(a) \subseteq ToSet(s)
    BY <1>5, <1>7, <2>2, Answers
  <2>4. ret'[t].pairs = a
    BY <1>4, <2>1 DEF Range_
  <2>5. Answered(t)'
    BY <1>1, <1>7, <2>3, <2>4 DEF Answered, s
  <2>. QED
    BY <1>1, <1>4, <2>1, <2>5, TableKept DEF TableInv
<1>8. CASE c.op = "operator[]"
  <2>1. Base!Answer(t, Range_(s))
    BY <1>8 DEF Base!ReadEffect, Base!Range_, Range_, s
  <2>2. ret'[t].pairs = s
    BY <1>4, <2>1 DEF Range_
  <2>3. Answered(t)'
    BY <1>1, <1>8, <2>2 DEF Answered, s
  <2>. QED
    BY <1>1, <1>4, <2>1, <2>3, TableKept DEF TableInv
<1>9. CASE c.op \in {"size", "empty", "capacity"}
  <2>0. PICK r : /\ Base!Answer(t, r)
                 /\ c.op = "size" => r = Base!Number(Base!Total)
                 /\ c.op = "empty" => r = Base!Truth(Base!Total = 0)
    BY <1>9 DEF Base!ReadEffect
  <2>1. InMap' = InMap
    BY <1>1 DEF InMap
  <2>2. c.op = "size" => ret'[t].n = Cardinality(InMap)
    BY <1>4, <2>0, Counted DEF Base!Number
  <2>3. c.op = "empty" => ret'[t].b = (InMap = {})
    <3>1. \A b \in BOOLEAN : Base!Truth(b).b = b
      BY DEF Base!Truth
    <3>2. c.op = "empty" => ret'[t] = Base!Truth(Base!Total = 0)
      BY <1>4, <2>0, Zenon
    <3>3. (Base!Total = 0) \in BOOLEAN
      OBVIOUS
    <3>4. c.op = "empty" => ret'[t].b = (Base!Total = 0)
      BY <3>1, <3>2, <3>3, Zenon
    <3>. QED
      BY <3>4, Counted, Zenon
  <2>4. Answered(t)'
    BY <1>9, <2>1, <2>2, <2>3 DEF Answered
  <2>. QED
    BY <1>1, <1>4, <2>0, <2>4, TableKept DEF TableInv
<1>. QED
  BY <1>3, <1>6, <1>7, <1>8, <1>9 DEF ReadOps

LEMMA InsertChanges ==
    ASSUME TableInv, NEW t \in Threads, call[t] \in Calls, call[t].op = "insert",
           Base!InsertEffect(t, call[t])
    PROVE  /\ TableInv' /\ nPairs' = nPairs + 1
           /\ InMap' = InMap \cup {[key |-> call[t].tKey, val |-> nPairs']}
           /\ \A u \in Threads \ {t} : ret'[u] = ret[u]
<1> DEFINE k == call[t].tKey
           s == items[k]
           e == [key |-> k, val |-> nPairs + 1]
<1>1. /\ k \in Keys /\ s \in Seq(Pairs) /\ IsInjective(s) /\ nPairs \in Nat
      /\ \A p \in ToSet(s) : p.key = k /\ p.val <= nPairs
  BY Arguments DEF TableInv
<1>2. nPairs' = nPairs + 1 /\ UNCHANGED capacity
  BY DEF Base!InsertEffect
<1>3. PICK i \in 0 .. Len(s) : items' = [items EXCEPT ![k] = InsertAt(s, i + 1, e)]
  <2>1. PICK i \in 0 .. Len(s) : items' = [items EXCEPT ![k] = Base!InsertAt(@, i + 1, e)]
    BY <1>2 DEF Base!InsertEffect
  <2>2. Base!InsertAt(s, i + 1, e) = InsertAt(s, i + 1, e)
    BY DEF Base!InsertAt, InsertAt
  <2>3. items' = [items EXCEPT ![k] = InsertAt(s, i + 1, e)]
    BY <2>1, <2>2
  <2>. QED
    BY <2>3
<1>4. e \in Pairs /\ e \notin ToSet(s) /\ nPairs + 1 \in Nat /\ nPairs <= nPairs + 1
  BY <1>1 DEF Pairs
<1> DEFINE q == InsertAt(s, i + 1, e)
<1> HIDE DEF s, e
<1>5. q \in Seq(Pairs) /\ IsInjective(q) /\ ToSet(q) = ToSet(s) \cup {e}
  BY <1>1, <1>4, PutIn
<1> HIDE DEF q
<1>6. \A p \in ToSet(q) : p.key = k /\ p.val <= nPairs + 1
  <2> SUFFICES ASSUME NEW p \in ToSet(q) PROVE p.key = k /\ p.val <= nPairs + 1
    OBVIOUS
  <2>1. CASE p = e
    BY <1>1, <2>1 DEF e
  <2>2. CASE p \in ToSet(s)
    <3>1. p \in Pairs
      BY <1>1, <2>2, LenProperties DEF ToSet
    <3>. QED
      BY <1>1, <2>2, <3>1 DEF Pairs
  <2>. QED
    BY <1>5, <2>1, <2>2
<1>7. items' = [items EXCEPT ![k] = q]
  BY <1>3 DEF q
<1>8. /\ items' \in [Keys -> Seq(Pairs)]
      /\ \A j \in Keys : /\ IsInjective(items'[j])
                         /\ \A p \in ToSet(items'[j]) : p.key = j /\ p.val <= nPairs'
      /\ InMap' = (InMap \ ToSet(s)) \cup ToSet(q)
  BY <1>1, <1>2, <1>4, <1>5, <1>6, <1>7, KeyChanges DEF s
<1>9. ret' = [u \in Threads |-> ret'[u]] /\ \A u \in Threads \ {t} : ret'[u] = ret[u]
  <2>1. ret = [u \in Threads |-> ret[u]]
    BY DEF TableInv
  <2>2. ret' = [ret EXCEPT ![t] = Base!Void]
    BY DEF Base!InsertEffect, Base!Answer
  <2>. QED
    BY <2>1, <2>2
<1>10. TableInv'
  BY <1>1, <1>2, <1>8, <1>9 DEF TableInv
<1>11. ToSet(s) \subseteq InMap
  BY <1>1 DEF InMap, s
<1>12. InMap' = InMap \cup {e}
  BY <1>5, <1>8, <1>11
<1>. QED
  BY <1>2, <1>9, <1>10, <1>12 DEF e

LEMMA RemoveChanges ==
    ASSUME TableInv, NEW t \in Threads, call[t] \in Calls, call[t].op = "remove",
           Base!RemoveEffect(t, call[t])
    PROVE  /\ TableInv' /\ nPairs' = nPairs
           /\ ToSet(ret'[t].pairs) \subseteq {p \in InMap : p.key = call[t].tKey}
           /\ InMap' = InMap \ ToSet(ret'[t].pairs)
           /\ \A u \in Threads \ {t} : ret'[u] = ret[u]
<1> DEFINE c == call[t]
           k == c.tKey
           s == items[k]
           n == Base!Taken(s, c.iPos, Base!Limit(c))
           a == Base!Slice(s, c.iPos, n)
           q == IF n = 0 THEN s ELSE Base!Without(s, c.iPos, n)
<1>1. /\ k \in Keys /\ s \in Seq(Pairs) /\ IsInjective(s) /\ nPairs \in Nat
      /\ \A p \in ToSet(s) : p.key = k /\ p.val <= nPairs
  BY Arguments DEF TableInv
<1>2. /\ UNCHANGED <<capacity, nPairs>>
      /\ items' = [items EXCEPT ![k] = q]
      /\ ret' = [ret EXCEPT ![t] = Range_(a)]
  BY DEF Base!RemoveEffect, Base!Answer, Base!Range_, Range_
<1>3. c.iPos \in Nat /\ Base!Limit(c) \in Nat
  BY Arguments DEF Base!Limit, TableInv
<1> HIDE DEF s
<1>4. ToSet(a) \subseteq ToSet(s) /\ q \in Seq(Pairs) /\ IsInjective(q) /\ ToSet(q) = ToSet(s) \ ToSet(a)
  BY <1>1, <1>3, Answers
<1> HIDE DEF q, a
<1>5. /\ items' \in [Keys -> Seq(Pairs)]
      /\ \A j \in Keys : /\ IsInjective(items'[j])
                         /\ \A p \in ToSet(items'[j]) : p.key = j /\ p.val <= nPairs'
      /\ InMap' = (InMap \ ToSet(s)) \cup ToSet(q)
  <2>1. nPairs <= nPairs /\ nPairs' = nPairs
    BY <1>1, <1>2
  <2>2. \A p \in ToSet(q) : p.key = k /\ p.val <= nPairs
    BY <1>1, <1>4
  <2>. QED
    BY <1>1, <1>2, <1>4, <2>1, <2>2, KeyChanges DEF s
<1>6. /\ ret' = [u \in Threads |-> ret'[u]] /\ \A u \in Threads \ {t} : ret'[u] = ret[u]
      /\ ret'[t].pairs = a
  <2>1. ret = [u \in Threads |-> ret[u]]
    BY DEF TableInv
  <2>. QED
    BY <1>2, <2>1 DEF Range_
<1>7. TableInv'
  BY <1>1, <1>2, <1>5, <1>6 DEF TableInv
<1>8. ToSet(s) \subseteq {p \in InMap : p.key = k}
  BY <1>1 DEF InMap, s
<1>9. InMap' = InMap \ ToSet(a)
  BY <1>4, <1>5, <1>8
<1>. QED
  BY <1>2, <1>4, <1>6, <1>7, <1>8, <1>9

LEMMA ExtendChanges ==
    ASSUME TableInv, NEW t \in Threads, call[t] \in Calls, call[t].op = "extend",
           Base!ExtendEffect(t, call[t])
    PROVE  /\ TableInv' /\ nPairs' = nPairs /\ InMap' = InMap
           /\ \A u \in Threads \ {t} : ret'[u] = ret[u]
<1>1. call[t].nNewCapacity \in Nat /\ capacity \in Nat \ {0}
  BY Arguments DEF TableInv
<1>2. UNCHANGED <<items, nPairs>> /\ capacity' \in Nat \ {0}
  BY <1>1 DEF Base!ExtendEffect
<1>3. ret' = [ret EXCEPT ![t] = Base!Void]
  BY DEF Base!ExtendEffect, Base!Answer
<1>4. ret' = [u \in Threads |-> ret'[u]] /\ \A u \in Threads \ {t} : ret'[u] = ret[u]
  BY <1>3 DEF TableInv
<1>. QED
  BY <1>2, <1>4, TableKept

LEMMA ClearChanges ==
    ASSUME TableInv, NEW t \in Threads, Base!ClearEffect(t)
    PROVE  /\ TableInv' /\ nPairs' = nPairs /\ InMap' = {}
           /\ \A u \in Threads \ {t} : ret'[u] = ret[u]
<1>1. /\ items' = [k \in Keys |-> <<>>] /\ capacity' = DefaultCapacity /\ nPairs' = nPairs
      /\ ret' = [ret EXCEPT ![t] = Base!Void]
  BY DEF Base!ClearEffect, Base!Answer
<1>2. ret' = [u \in Threads |-> ret'[u]] /\ \A u \in Threads \ {t} : ret'[u] = ret[u]
  BY <1>1 DEF TableInv
<1>3. \A k \in Keys : items'[k] = <<>>
  BY <1>1
<1>4. DOMAIN <<>> = {} /\ <<>> \in Seq(Pairs)
  BY EmptySeq
<1>5. \A k \in Keys : DOMAIN items'[k] = {}
  BY <1>3, <1>4
<1>6. \A k \in Keys : ToSet(items'[k]) = {} /\ IsInjective(items'[k])
  BY <1>5 DEF ToSet, IsInjective
<1>7. items' \in [Keys -> Seq(Pairs)]
  BY <1>1, <1>4
<1>8. nPairs' \in Nat /\ capacity' \in Nat \ {0}
  BY <1>1, InterfaceAssumption DEF TableInv
<1>9. TableInv'
  BY <1>2, <1>6, <1>7, <1>8 DEF TableInv
<1>10. InMap' = {}
  BY <1>6 DEF InMap
<1>. QED
  BY <1>1, <1>2, <1>9, <1>10
-----------------------------------------------------------------------------
\* What the log says changes with the log only.
LEMMA LogSays ==
    ASSUME UNCHANGED m_vOperationTimings
    PROVE  /\ Logged' = Logged /\ PresentNow' = PresentNow
           /\ ResultsFollowLockTimes => ResultsFollowLockTimes'
<1>1. Logged' = Logged
  BY DEF Logged
<1>2. PresentNow' = PresentNow
  BY <1>1 DEF PresentNow, LoggedCalls
<1>3. \A x, op : Before(x, op)' = Before(x, op)
  BY <1>1 DEF Before
<1>4. \A x : Present(x)' = Present(x)
  BY <1>3 DEF Present
<1>5. \A x : PresentOf(x)' = PresentOf(x)
  BY <1>4 DEF PresentOf
<1>6. ResultsFollowLockTimes => ResultsFollowLockTimes'
  BY <1>1, <1>4, <1>5 DEF ResultsFollowLockTimes
<1>. QED
  BY <1>1, <1>2, <1>6

\* A step that neither changes the map nor logs anything.
LEMMA MapAndLogKept ==
    ASSUME TableInv, NumbersInv, ContentInv, ResultsFollowLockTimes,
           UNCHANGED <<items, nPairs, m_vOperationTimings>>, capacity' \in Nat \ {0},
           ret' = [u \in Threads |-> ret'[u]],
           \A u \in Threads : Done(u)' <=> Done(u),
           \A u \in Threads : Done(u) => call'[u] = call[u] /\ ret'[u] = ret[u]
    PROVE  TableInv' /\ NumbersInv' /\ ContentInv' /\ ResultsFollowLockTimes'
<1>1. TableInv' /\ InMap' = InMap
  BY TableKept
<1>2. Logged' = Logged /\ PresentNow' = PresentNow /\ ResultsFollowLockTimes'
  BY LogSays
<1>5. NumbersInv'
  BY <1>2 DEF NumbersInv
<1>6. ASSUME NEW u \in Threads, Done(u)
      PROVE  /\ Reads(u)' = Reads(u)
             /\ Answered(u)' = Answered(u)
             /\ Changed(u)' = Changed(u)
  <2>1. call'[u] = call[u] /\ ret'[u] = ret[u]
    BY <1>6
  <2>. QED
    BY <1>1, <1>2, <2>1 DEF Reads, Answered, Changed
<1>7. ContentInv'
  BY <1>1, <1>2, <1>6 DEF ContentInv
<1>. QED
  BY <1>1, <1>2, <1>5, <1>7

\* While a writer is in the map nobody else is.
LEMMA DoneReads ==
    ASSUME IInv, NEW t \in Threads, Holding(t), NEW u \in Threads, u # t, Done(u)
    PROVE  Reads(t) /\ Reads(u)
  BY ReadersOnly DEF IInv, Done, Holding

\* The body of the base class takes effect.
LEMMA BodyResults ==
    ASSUME RInv, IsFiniteSet(Keys), NEW t \in Threads, Body(t)
    PROVE  TableInv' /\ NumbersInv' /\ ContentInv' /\ ResultsFollowLockTimes'
<1>0. IInv /\ TypeOK /\ TableInv /\ NumbersInv /\ ContentInv /\ ResultsFollowLockTimes
  BY DEF RInv, IInv
<1>1. /\ pc[t] = "body" /\ call' = call /\ call[t] \in Calls
      /\ UNCHANGED m_vOperationTimings /\ Holding(t) /\ ~Done(t)
      /\ \A u \in Threads \ {t} : pc'[u] = pc[u]
  <2>1. pc[t] = "body" /\ call' = call /\ UNCHANGED m_vOperationTimings
    BY BaseSteps DEF Body, logVars
  <2>2. \A u \in Threads \ {t} : pc'[u] = pc[u]
    BY <1>0, StepOthers DEF Step, Others
  <2>3. call[t] \in Calls
    BY <1>0, <2>1 DEF IInv, PCInv
  <2>. QED
    BY <2>1, <2>2, <2>3 DEF Holding, Done
<1>2. Logged' = Logged /\ PresentNow' = PresentNow
  BY <1>1, LogSays
<1>3. ResultsFollowLockTimes'
  BY <1>0, <1>1, LogSays
<1>4. CASE Base!Grow(t) /\ UNCHANGED <<pc, m_mSharedMutex>>
  <2>1. UNCHANGED <<items, nPairs, ret>> /\ capacity' \in Nat \ {0}
    <3>1. capacity' = capacity + DefaultCapacity /\ UNCHANGED <<items, nPairs, ret>>
      BY <1>4 DEF Base!Grow
    <3>2. capacity \in Nat \ {0} /\ DefaultCapacity \in Nat
      BY <1>0, InterfaceAssumption DEF TableInv
    <3>. QED
      BY <3>1, <3>2
  <2>2. \A u \in Threads : Done(u)' <=> Done(u)
    BY <1>4 DEF Done
  <2>3. ret' = [u \in Threads |-> ret'[u]]
    BY <1>0, <2>1 DEF TableInv
  <2>. QED
    BY <1>0, <1>1, <2>1, <2>2, <2>3, MapAndLogKept
<1>5. CASE Base!Effect(t) /\ Goto(t, "log")
  <2>1. pc'[t] = "log" /\ Done(t)'
    BY <1>0, <1>5 DEF Goto, TypeOK, Done
  <2>2. \A u \in Threads \ {t} : (Done(u)' <=> Done(u)) /\ (Reads(u)' <=> Reads(u))
    BY <1>1 DEF Done, Reads
  <2>3. Reads(t)' <=> Reads(t)
    BY <1>1 DEF Reads
  <2>4. InMap = PresentNow
    <3>1. \A u \in Threads : Done(u) => Reads(u)
      BY <1>0, <1>1, DoneReads
    <3>. QED
      BY <1>0, <3>1 DEF ContentInv
  <2>5. CASE Reads(t)
    <3>1. Base!ReadEffect(t, call[t])
      BY <1>1, <1>5, <2>5 DEF Base!Effect, Reads, ReadOps
    <3>2. TableInv' /\ UNCHANGED <<items, nPairs>> /\ Answered(t)' /\ \A u \in Threads \ {t} : ret'[u] = ret[u]
      BY <1>0, <1>1, <2>5, <3>1, ReadsAnswer
    <3>3. InMap' = InMap
      BY <3>2 DEF InMap
    <3>4. ASSUME NEW u \in Threads \ {t}, Done(u)
          PROVE  Reads(u)' /\ Answered(u)'
      <4>1. Reads(u)
        BY <1>0, <1>1, <3>4, DoneReads
      <4>2. Answered(u)
        BY <1>0, <3>4, <4>1 DEF ContentInv
      <4>3. Answered(u)'
        BY <1>1, <3>2, <3>3, <3>4, <4>2 DEF Answered
      <4>. QED
        BY <2>2, <4>1, <4>3
    <3>5. ContentInv'
      BY <1>2, <2>1, <2>2, <2>3, <2>4, <2>5, <3>2, <3>3, <3>4 DEF ContentInv
    <3>6. NumbersInv'
      <4>1. call[t].op # "insert"
        BY <2>5 DEF Reads, ReadOps
      <4>. QED
        BY <1>0, <1>1, <1>2, <2>2, <3>2, <4>1 DEF NumbersInv
    <3>. QED
      BY <1>3, <3>2, <3>5, <3>6
  <2>6. CASE ~Reads(t)
    <3>1. \A u \in Threads \ {t} : ~Done(u)'
      BY <1>0, <1>1, <2>2, <2>6, DoneReads
    <3>2. call[t].op \in WriteOps
      BY <1>1, <2>6, Arguments DEF Reads, AllOps
    <3>3. ASSUME TableInv', Changed(t)', NumbersInv'
          PROVE  TableInv' /\ NumbersInv' /\ ContentInv' /\ ResultsFollowLockTimes'
      <4>1. ContentInv'
        BY <2>1, <2>3, <2>6, <3>1, <3>3 DEF ContentInv
      <4>. QED
        BY <1>3, <3>3, <4>1
    <3>4. ASSUME nPairs' = nPairs, call[t].op # "insert"
          PROVE  NumbersInv'
      BY <1>0, <1>1, <1>2, <3>1, <3>4 DEF NumbersInv
    <3>5. CASE call[t].op = "insert"
      <4>1. Base!InsertEffect(t, call[t])
        BY <1>5, <3>5 DEF Base!Effect, Base!ReadOps
      <4>2. /\ TableInv' /\ nPairs' = nPairs + 1
            /\ InMap' = InMap \cup {[key |-> call[t].tKey, val |-> nPairs']}
        BY <1>0, <1>1, <3>5, <4>1, InsertChanges
      <4>3. Changed(t)'
        BY <1>1, <1>2, <2>4, <3>5, <4>2 DEF Changed
      <4>4. NumbersInv'
        <5>1. ASSUME NEW y \in Logged, y.call.op \in {"insert", "remove"}, NEW p \in PairsOf(y)
              PROVE  p \in Pairs /\ p.val <= nPairs' /\ p.val # nPairs'
          <6>1. p \in Pairs /\ p.val <= nPairs
            BY <1>0, <5>1 DEF NumbersInv
          <6>2. p.val \in Nat /\ nPairs \in Nat
            BY <1>0, <6>1 DEF Pairs, TableInv
          <6>. QED
            BY <4>2, <6>1, <6>2
        <5>. QED
          BY <1>2, <5>1 DEF NumbersInv
      <4>. QED
        BY <3>3, <4>2, <4>3, <4>4
    <3>6. CASE call[t].op = "remove"
      <4>1. Base!RemoveEffect(t, call[t])
        BY <1>5, <3>6 DEF Base!Effect, Base!ReadOps
      <4>2. /\ TableInv' /\ nPairs' = nPairs
            /\ ToSet(ret'[t].pairs) \subseteq {p \in InMap : p.key = call[t].tKey}
            /\ InMap' = InMap \ ToSet(ret'[t].pairs)
        BY <1>0, <1>1, <3>6, <4>1, RemoveChanges
      <4>3. Changed(t)'
        BY <1>1, <1>2, <2>4, <3>6, <4>2 DEF Changed
      <4>. QED
        BY <3>3, <3>4, <3>6, <4>2, <4>3
    <3>7. CASE call[t].op = "extend"
      <4>1. Base!ExtendEffect(t, call[t])
        BY <1>5, <3>7 DEF Base!Effect, Base!ReadOps
      <4>2. TableInv' /\ nPairs' = nPairs /\ InMap' = InMap
        BY <1>0, <1>1, <3>7, <4>1, ExtendChanges
      <4>3. Changed(t)'
        BY <1>1, <1>2, <2>4, <3>7, <4>2 DEF Changed
      <4>. QED
        BY <3>3, <3>4, <3>7, <4>2, <4>3
    <3>8. CASE call[t].op = "clear"
      <4>1. Base!ClearEffect(t)
        BY <1>5, <3>8 DEF Base!Effect, Base!ReadOps
      <4>2. TableInv' /\ nPairs' = nPairs /\ InMap' = {}
        BY <1>0, <4>1, ClearChanges
      <4>3. Changed(t)'
        BY <1>1, <1>2, <2>4, <3>8, <4>2 DEF Changed
      <4>. QED
        BY <3>3, <3>4, <3>8, <4>2, <4>3
    <3>. QED
      BY <3>2, <3>5, <3>6, <3>7, <3>8 DEF WriteOps
  <2>. QED
    BY <2>5, <2>6
<1>. QED
  BY <1>4, <1>5 DEF Body

\* What the log says once the operation of t is in it.
LEMMA PushPresent ==
    ASSUME RInv, NEW t \in Threads, Push(t)
    PROVE  LET e == Timing(t)
           IN  /\ Logged' = Logged \cup {e}
               /\ \A x \in Logged : Present(x)' = Present(x)
               /\ \A x : x = e => Present(x)' = PresentNow
               /\ call[t].op \notin {"insert", "remove", "clear"} => PresentNow' = PresentNow
               /\ call[t].op = "insert" =>
                     PresentNow' = PresentNow \cup {[key |-> call[t].tKey, val |-> nPairs]}
               /\ call[t].op = "remove" => PresentNow' = PresentNow \ ToSet(ret[t].pairs)
               /\ call[t].op = "clear" => PresentNow' = {}
<1> DEFINE log == m_vOperationTimings
           e == Timing(t)
           Three == {"insert", "remove", "clear"}
<1>0. IInv /\ TypeOK /\ TableInv /\ NumbersInv
  BY DEF RInv, IInv
<1>1. pc[t] = "push" /\ log' = Append(log, e)
  BY DEF Push
<1>2. /\ e.call = call[t] /\ e.m_tLockTime = m_tLockTime[t] /\ e.m_tLockTime \in Nat
  BY <1>0, <1>1, TimingTypes
<1>3. /\ DOMAIN log = 1 .. Len(log) /\ Len(log) \in Nat /\ DOMAIN log' = 1 .. Len(log) + 1
      /\ \A i \in 1 .. Len(log) : log'[i] = log[i]
      /\ log'[Len(log) + 1] = e
  <2>1. log \in Seq(ToSet(log))
    BY <1>0 DEF TypeOK, Logged
  <2>. QED
    BY <1>1, <2>1, OneMore
<1>4. Logged' = Logged \cup {e}
  <2>1. Len(log) + 1 \in 1 .. Len(log) + 1 /\ \A i \in 1 .. Len(log) + 1 : i \in 1 .. Len(log) \/ i = Len(log) + 1
    BY <1>3
  <2>2. \A i \in 1 .. Len(log) : i \in 1 .. Len(log) + 1
    BY <1>3
  <2> DEFINE n == Len(log) + 1
  <2>. HIDE DEF n
  <2>3. \A i \in 1 .. Len(log) : i \in DOMAIN log' /\ log'[i] = log[i]
    BY <1>3, <2>2
  <2>4. \A x \in Logged : x \in Logged'
    BY <1>3, <2>3 DEF Logged, ToSet
  <2>5. e \in Logged'
    BY <1>3, <2>1 DEF Logged, ToSet
  <2>6. \A x \in Logged' : x \in Logged \/ x = e
    BY <1>3, <2>1 DEF Logged, ToSet
  <2>. QED
    BY <2>4, <2>5, <2>6
<1>5. \A x \in Logged : /\ x.m_tLockTime \in Nat /\ x.m_tEndTime \in Nat
                        /\ x.m_tLockTime < x.m_tEndTime
  BY <1>0 DEF TypeOK, Logged, ToSet
<1>6. \A x \in Logged : IsWrite(x) \/ ~Reads(t) => x.m_tEndTime < e.m_tLockTime
  BY <1>0, <1>1, <1>2 DEF IInv, TimesInv, TimesOf, Stamped, ConflictsEnded, Logged, ToSet
<1> HIDE DEF e
<1>7. ASSUME NEW x \in Logged, NEW op \in Three
      PROVE  Before(x, op)' = Before(x, op)
  <2>1. e.call.op = op => ~(e.m_tLockTime < x.m_tLockTime)
    <3>1. e.call.op = op => ~Reads(t)
      BY <1>2 DEF Reads, ReadOps
    <3>. QED
      BY <1>2, <1>5, <1>6, <3>1
  <2>. QED
    BY <1>4, <2>1 DEF Before
<1>8. \A x \in Logged : Present(x)' = Present(x)
  BY <1>7 DEF Present
<1>9. ASSUME NEW x, x = e, NEW op \in Three
      PROVE  Before(x, op)' = LoggedCalls(op)
  <2>1. ~(e.m_tLockTime < e.m_tLockTime)
    BY <1>2
  <2>2. \A y \in LoggedCalls(op) : y.m_tLockTime < e.m_tLockTime
    <3>1. \A y \in LoggedCalls(op) : IsWrite(y) /\ y \in Logged
      BY DEF LoggedCalls, IsWrite, WriteOps
    <3>. QED
      BY <1>2, <1>5, <1>6, <3>1
  <2>. QED
    BY <1>4, <1>9, <2>1, <2>2 DEF Before, LoggedCalls
<1>10. \A x : x = e => Present(x)' = PresentNow
  BY <1>9 DEF Present, PresentNow
<1>11. \A op : LoggedCalls(op)' = IF call[t].op = op THEN LoggedCalls(op) \cup {e} ELSE LoggedCalls(op)
  BY <1>2, <1>4 DEF LoggedCalls
<1>12. ASSUME call[t].op \notin Three
       PROVE  PresentNow' = PresentNow
  <2>1. \A op \in Three : LoggedCalls(op)' = LoggedCalls(op)
    BY <1>11, <1>12
  <2>. QED
    BY <2>1 DEF PresentNow
<1> DEFINE I == LoggedCalls("insert")
           R == LoggedCalls("remove")
           C == LoggedCalls("clear")
<1>13. \A y \in C : y.m_tLockTime < e.m_tLockTime
  <2>1. \A y \in C : IsWrite(y) /\ y \in Logged
    BY DEF LoggedCalls, IsWrite, WriteOps
  <2>. QED
    BY <1>2, <1>5, <1>6, <2>1
<1>14. ASSUME call[t].op = "insert"
       PROVE  PresentNow' = PresentNow \cup {[key |-> call[t].tKey, val |-> nPairs]}
  <2> DEFINE new == [key |-> call[t].tKey, val |-> nPairs]
  <2>1. PairsOf(e) = {new}
    <3>1. e.result.pairs = <<new>>
      BY <1>14 DEF e, Timing, Range_
    <3>2. DOMAIN <<new>> = {1} /\ <<new>>[1] = new
      OBVIOUS
    <3>. QED
      BY <3>1, <3>2 DEF PairsOf, ToSet
  <2>2. \A y \in I \cup R : new \notin PairsOf(y)
    <3>1. \A y \in I \cup R : y \in Logged /\ y.call.op \in {"insert", "remove"}
      BY DEF LoggedCalls
    <3>2. Done(t)
      BY <1>1 DEF Done
    <3>3. \A y \in I \cup R : \A p \in PairsOf(y) : p.val # nPairs
      BY <1>0, <1>14, <3>1, <3>2 DEF NumbersInv
    <3>4. new.val = nPairs
      OBVIOUS
    <3>. QED
      BY <3>3, <3>4
  <2> HIDE DEF new
  <2>3. LoggedCalls("insert")' = I \cup {e} /\ LoggedCalls("remove")' = R /\ LoggedCalls("clear")' = C
    BY <1>11, <1>14
  <2> HIDE DEF I, R, C
  <2>4. PresentNow = {p \in UNION {PairsOf(y) : y \in I} :
           /\ \A y \in R : p \notin PairsOf(y)
           /\ \A y \in C : \A z \in I : p \in PairsOf(z) => y.m_tLockTime < z.m_tLockTime}
    BY DEF PresentNow, I, R, C
  <2>5. PresentNow' = {p \in UNION {PairsOf(y) : y \in I \cup {e}} :
           /\ \A y \in R : p \notin PairsOf(y)
           /\ \A y \in C : \A z \in I \cup {e} : p \in PairsOf(z) => y.m_tLockTime < z.m_tLockTime}
    BY <2>3 DEF PresentNow
  <2>6. \A p : (p \in UNION {PairsOf(y) : y \in I \cup {e}}) <=> (p \in UNION {PairsOf(y) : y \in I} \/ p = new)
    BY <2>1
  <2>7. \A p : p \in PresentNow <=>
           /\ p \in UNION {PairsOf(y) : y \in I}
           /\ \A y \in R : p \notin PairsOf(y)
           /\ \A y \in C : \A z \in I : p \in PairsOf(z) => y.m_tLockTime < z.m_tLockTime
    BY <2>4
  <2>8. \A p : p \in PresentNow' <=>
           /\ p \in UNION {PairsOf(y) : y \in I} \/ p = new
           /\ \A y \in R : p \notin PairsOf(y)
           /\ \A y \in C : \A z \in I \cup {e} : p \in PairsOf(z) => y.m_tLockTime < z.m_tLockTime
    BY <2>5, <2>6
  <2>9. ASSUME NEW p
        PROVE  p \in PresentNow' <=> p \in PresentNow \/ p = new
    <3>1. CASE p = new
      BY <1>13, <2>2, <2>8, <3>1 DEF C
    <3>2. CASE p # new
      BY <1>13, <2>7, <2>8, <3>2 DEF C
    <3>. QED
      BY <3>1, <3>2
  <2>10. PresentNow' = PresentNow \cup {new}
    BY <2>9
  <2>. QED
    BY <2>10 DEF new
<1>15. ASSUME call[t].op = "remove"
       PROVE  PresentNow' = PresentNow \ ToSet(ret[t].pairs)
  <2>1. PairsOf(e) = ToSet(ret[t].pairs)
    BY <1>15 DEF e, Timing, PairsOf
  <2>2. LoggedCalls("insert")' = I /\ LoggedCalls("remove")' = R \cup {e} /\ LoggedCalls("clear")' = C
    BY <1>11, <1>15
  <2>. QED
    BY <2>1, <2>2 DEF PresentNow
<1>16. ASSUME call[t].op = "clear"
       PROVE  PresentNow' = {}
  <2>1. LoggedCalls("insert")' = I /\ LoggedCalls("remove")' = R /\ LoggedCalls("clear")' = C \cup {e}
    BY <1>11, <1>16
  <2>2. \A z \in I : ~(e.m_tLockTime < z.m_tLockTime)
    <3>1. \A z \in I : IsWrite(z) /\ z \in Logged
      BY DEF LoggedCalls, IsWrite, WriteOps
    <3>. QED
      BY <1>2, <1>5, <1>6, <3>1
  <2>3. \A p \in PresentNow' : \E z \in I : p \in PairsOf(z) /\ e.m_tLockTime < z.m_tLockTime
    BY <2>1 DEF PresentNow
  <2>. QED
    BY <2>2, <2>3
<1>. QED
  BY <1>4, <1>8, <1>10, <1>12, <1>14, <1>15, <1>16 DEF e

\* An operation is logged.
LEMMA PushResults ==
    ASSUME RInv, IsFiniteSet(Keys), NEW t \in Threads, Push(t)
    PROVE  TableInv' /\ NumbersInv' /\ ContentInv' /\ ResultsFollowLockTimes'
<1> DEFINE e == Timing(t)
           c == call[t]
<1>0. IInv /\ TypeOK /\ TableInv /\ NumbersInv /\ ContentInv /\ ResultsFollowLockTimes
  BY DEF RInv, IInv
<1>1. /\ pc[t] = "push" /\ pc' = [pc EXCEPT ![t] = "unlock"]
      /\ UNCHANGED <<items, capacity, nPairs, call, ret>>
  BY DEF Push, Goto, baseVars
<1>2. Done(t) /\ Holding(t) /\ ~Done(t)' /\ \A u \in Threads \ {t} : Done(u)' <=> Done(u)
  BY <1>0, <1>1 DEF Done, Holding, TypeOK
<1>3. TableInv' /\ InMap' = InMap
  BY <1>0, <1>1, TableKept DEF TableInv
<1>4. e.call = c /\ c \in Calls
  BY <1>0, <1>1, TimingTypes
<1>5. e.result = IF c.op = "insert" THEN Range_(<<[key |-> c.tKey, val |-> nPairs]>>) ELSE ret[t]
  BY DEF Timing
<1>6. /\ Logged' = Logged \cup {e}
      /\ \A x \in Logged : Present(x)' = Present(x)
      /\ \A x : x = e => Present(x)' = PresentNow
      /\ c.op \notin {"insert", "remove", "clear"} => PresentNow' = PresentNow
      /\ c.op = "insert" => PresentNow' = PresentNow \cup {[key |-> c.tKey, val |-> nPairs]}
      /\ c.op = "remove" => PresentNow' = PresentNow \ ToSet(ret[t].pairs)
      /\ c.op = "clear" => PresentNow' = {}
  BY PushPresent
<1> HIDE DEF e
<1>7. IF Reads(t) THEN Answered(t) ELSE Changed(t)
  BY <1>0, <1>2 DEF ContentInv
<1>8. Reads(t) => InMap = PresentNow
  <2>1. Reads(t) => \A u \in Threads : Done(u) => Reads(u)
    BY <1>0, <1>2, DoneReads
  <2>. QED
    BY <1>0, <2>1 DEF ContentInv
<1>9. Reads(t) \/ c.op \in WriteOps
  BY <1>4, Arguments DEF Reads, AllOps
<1>10. InMap = PresentNow'
  <2>1. CASE Reads(t)
    BY <1>6, <1>8, <2>1 DEF Reads, ReadOps
  <2>2. CASE ~Reads(t)
    <3>1. Changed(t) /\ c.op \in {"insert", "remove", "extend", "clear"}
      BY <1>7, <1>9, <2>2 DEF WriteOps
    <3>. QED
      BY <1>6, <3>1 DEF Changed
  <2>. QED
    BY <2>1, <2>2
<1>11. ContentInv'
  <2>1. ASSUME NEW u \in Threads, Done(u)'
        PROVE  Reads(u)' /\ Answered(u)'
    <3>1. u # t /\ Done(u)
      BY <1>2, <2>1
    <3>2. Reads(u) /\ Answered(u)
      <4>1. Reads(u)
        BY <1>0, <1>2, <3>1, DoneReads
      <4>. QED
        BY <1>0, <3>1, <4>1 DEF ContentInv
    <3>. QED
      BY <1>1, <1>3, <3>2 DEF Reads, Answered
  <2>2. InMap' = PresentNow'
    BY <1>3, <1>10
  <2>. QED
    BY <2>1, <2>2 DEF ContentInv
<1>12. NumbersInv'
  <2>1. ASSUME NEW y \in Logged', y.call.op \in {"insert", "remove"}, NEW p \in PairsOf(y)
        PROVE  p \in Pairs /\ p.val <= nPairs
    <3>1. CASE y \in Logged
      BY <1>0, <2>1, <3>1 DEF NumbersInv
    <3>2. CASE y = e /\ c.op = "insert"
      <4> DEFINE new == [key |-> c.tKey, val |-> nPairs]
      <4>1. y.result.pairs = <<new>>
        BY <1>5, <3>2 DEF Range_
      <4>2. DOMAIN <<new>> = {1} /\ <<new>>[1] = new
        OBVIOUS
      <4>3. p = new
        BY <2>1, <4>1, <4>2 DEF PairsOf, ToSet
      <4>4. new \in Pairs /\ new.val = nPairs /\ nPairs \in Nat
        BY <1>0, <1>4, <3>2, Arguments DEF Pairs, TableInv
      <4>. QED
        BY <4>3, <4>4
    <3>3. CASE y = e /\ c.op = "remove"
      <4>1. p \in ToSet(ret[t].pairs)
        BY <1>5, <2>1, <3>3 DEF PairsOf
      <4>2. ToSet(ret[t].pairs) \subseteq PresentNow
        <5>1. Changed(t)
          BY <1>7, <3>3 DEF Reads, ReadOps
        <5>. QED
          BY <3>3, <5>1 DEF Changed
      <4>3. PICK z \in Logged : z.call.op = "insert" /\ p \in PairsOf(z)
        BY <4>1, <4>2 DEF PresentNow, LoggedCalls
      <4>. QED
        BY <1>0, <4>3 DEF NumbersInv
    <3>4. y = e => c.op \in {"insert", "remove"}
      BY <1>4, <2>1
    <3>. QED
      BY <1>6, <3>1, <3>2, <3>3, <3>4
  <2>2. ASSUME NEW u \in Threads, Done(u)'
        PROVE  call'[u].op # "insert"
    <3>1. u # t /\ Done(u)
      BY <1>2, <2>2
    <3>2. Reads(u)
      BY <1>0, <1>2, <3>1, DoneReads
    <3>. QED
      BY <1>1, <3>2 DEF Reads, ReadOps
  <2>. QED
    BY <1>1, <2>1, <2>2 DEF NumbersInv
<1>13. ASSUME NEW x \in Logged'
       PROVE  LET op == x.call.op
              IN /\ op = "operator[]" => PairsOf(x) = PresentOf(x)'
                 /\ op = "find" => /\ PairsOf(x) \subseteq PresentOf(x)'
                                   /\ (PairsOf(x) # {}) = (Cardinality(PresentOf(x)') > x.call.iPos)
                 /\ op \in {"equalRange", "remove"} => PairsOf(x) \subseteq PresentOf(x)'
                 /\ op = "size" => x.result.n = Cardinality(Present(x)')
                 /\ op = "empty" => x.result.b = (Present(x)' = {})
  <2>1. CASE x \in Logged
    <3>1. Present(x)' = Present(x)
      BY <1>6, <2>1
    <3>2. PresentOf(x)' = PresentOf(x)
      BY <3>1 DEF PresentOf
    <3>. QED
      BY <1>0, <2>1, <3>1, <3>2 DEF ResultsFollowLockTimes
  <2>2. CASE x = e
    <3>1. /\ Present(x)' = PresentNow /\ x.call = c
          /\ c.op # "insert" => x.result = ret[t] /\ PairsOf(x) = ToSet(ret[t].pairs)
      BY <1>4, <1>5, <1>6, <2>2 DEF PairsOf
    <3>2. PresentOf(x)' = {p \in PresentNow : p.key = c.tKey}
      BY <3>1 DEF PresentOf
    <3>3. CASE Reads(t)
      <4>1. Answered(t) /\ InMap = PresentNow /\ c.op # "insert" /\ c.op # "remove"
        BY <1>7, <1>8, <3>3 DEF Reads, ReadOps
      <4>2. c.op \in {"find", "equalRange", "operator[]"} =>
               /\ PresentOf(x)' = ToSet(items[c.tKey])
               /\ Cardinality(PresentOf(x)') = Len(items[c.tKey])
        BY <1>0, <1>4, <3>2, <4>1, Arguments, Counted
      <4>3. c.op = "operator[]" => PairsOf(x) = PresentOf(x)'
        BY <3>1, <4>1, <4>2 DEF Answered
      <4>4. c.op \in {"find", "equalRange"} => PairsOf(x) \subseteq PresentOf(x)'
        BY <3>1, <4>1, <4>2 DEF Answered
      <4>5. c.op = "find" => (PairsOf(x) # {}) = (Cardinality(PresentOf(x)') > c.iPos)
        BY <3>1, <4>1, <4>2 DEF Answered
      <4>6. c.op = "size" => x.result.n = Cardinality(Present(x)')
        BY <3>1, <4>1 DEF Answered
      <4>7. c.op = "empty" => x.result.b = (Present(x)' = {})
        BY <3>1, <4>1 DEF Answered
      <4>. QED
        BY <3>1, <4>1, <4>3, <4>4, <4>5, <4>6, <4>7
    <3>4. CASE ~Reads(t)
      <4>1. c.op = "remove" => PairsOf(x) \subseteq PresentOf(x)'
        BY <1>7, <3>1, <3>2, <3>4 DEF Changed
      <4>2. c.op \notin ReadOps
        BY <3>4 DEF Reads
      <4>. QED
        BY <3>1, <4>1, <4>2 DEF ReadOps
    <3>. QED
      BY <3>3, <3>4
  <2>. QED
    BY <1>6, <2>1, <2>2
<1>14. ResultsFollowLockTimes'
  BY <1>13 DEF ResultsFollowLockTimes
<1>. QED
  BY <1>3, <1>11, <1>12, <1>14

LEMMA InitResults == Init => TableInv /\ NumbersInv /\ ContentInv /\ ResultsFollowLockTimes
<1> SUFFICES ASSUME Init
             PROVE  TableInv /\ NumbersInv /\ ContentInv /\ ResultsFollowLockTimes
  OBVIOUS
<1>1. /\ items = [k \in Keys |-> <<>>] /\ capacity = DefaultCapacity /\ nPairs = 0
      /\ ret = [t \in Threads |-> NoRet]
      /\ m_vOperationTimings = <<>> /\ pc = [t \in Threads |-> "idle"]
  BY DEF Init, Base!Init, Base!NoRet, NoRet
<1>2. DOMAIN <<>> = {} /\ <<>> \in Seq(Pairs)
  BY EmptySeq
<1>3. \A k \in Keys : DOMAIN items[k] = {}
  BY <1>1, <1>2
<1>4. \A k \in Keys : ToSet(items[k]) = {} /\ IsInjective(items[k])
  BY <1>3 DEF ToSet, IsInjective
<1>5. Logged = {}
  BY <1>1, <1>2 DEF Logged, ToSet
<1>6. TableInv
  BY <1>1, <1>2, <1>4, InterfaceAssumption DEF TableInv
<1>7. \A t \in Threads : ~Done(t)
  BY <1>1 DEF Done
<1>8. InMap = {} /\ PresentNow = {}
  BY <1>4, <1>5 DEF InMap, PresentNow, LoggedCalls
<1>. QED
  BY <1>5, <1>6, <1>7, <1>8 DEF NumbersInv, ContentInv, ResultsFollowLockTimes

LEMMA NextResults == RInv /\ [Next]_vars /\ IsFiniteSet(Keys) => RInv'
<1> SUFFICES ASSUME RInv, [Next]_vars, IsFiniteSet(Keys)
             PROVE  RInv'
  OBVIOUS
<1>0. IInv /\ TypeOK /\ TableInv /\ NumbersInv /\ ContentInv /\ ResultsFollowLockTimes
  BY DEF RInv, IInv
<1>1. IInv'
  <2>1. CASE Next
    BY <1>0, <2>1, StepTypeOK, StepPCInv, StepLockInv, StepTimesInv, StepOrder DEF IInv
  <2>2. CASE UNCHANGED vars
    BY <1>0, <2>2, StutterIInv
  <2>. QED
    BY <2>1, <2>2
<1>2. TableInv' /\ NumbersInv' /\ ContentInv' /\ ResultsFollowLockTimes'
  <2>1. ASSUME NEW t \in Threads, (Step(t) /\ ~Body(t) /\ ~Push(t)) \/ \E c \in Calls : Start(t, c)
        PROVE  TableInv' /\ NumbersInv' /\ ContentInv' /\ ResultsFollowLockTimes'
    <3>1. UNCHANGED m_vOperationTimings
      BY <1>0, <2>1, StepTimes
    <3>2. UNCHANGED <<items, capacity, nPairs>> /\ (UNCHANGED ret \/ Return(t))
      BY <2>1 DEF Step, Start, LockMap, StampLock, LockMapAgain, LockLog, StampEnd, Return,
                  Base!Call, Base!Return, baseVars
    <3>3. \A u \in Threads \ {t} : /\ pc'[u] = pc[u] /\ call'[u] = call[u] /\ ret'[u] = ret[u]
      <4>1. \A u \in Threads \ {t} : pc'[u] = pc[u] /\ call'[u] = call[u]
        BY <1>0, <2>1, StepOthers DEF Others
      <4>2. Return(t) => \A u \in Threads \ {t} : ret'[u] = ret[u]
        BY <1>0 DEF Return, Base!Return, TableInv
      <4>. QED
        BY <3>2, <4>1, <4>2
    <3>4. ret' = [u \in Threads |-> ret'[u]]
      <4>1. ret = [u \in Threads |-> ret[u]]
        BY <1>0 DEF TableInv
      <4>2. Return(t) => ret' = [ret EXCEPT ![t] = Base!NoRet]
        BY DEF Return, Base!Return
      <4>. QED
        BY <3>2, <4>1, <4>2
    <3>5. /\ Done(t)' <=> Done(t)
          /\ Done(t) => call'[t] = call[t] /\ ret'[t] = ret[t]
      <4>1. CASE \E c \in Calls : Start(t, c)
        <5>1. pc[t] = "idle" /\ pc'[t] = "lock"
          BY <1>0, <4>1, StepOwn
        <5>. QED
          BY <5>1 DEF Done
      <4>2. CASE Return(t)
        <5>1. pc[t] = "unlock" /\ pc'[t] = "idle"
          BY <1>0, <4>2, StepOwn
        <5>. QED
          BY <5>1 DEF Done
      <4>3. CASE LockMap(t) \/ StampLock(t) \/ LockMapAgain(t)
        <5>1. ~Done(t) /\ ~Done(t)'
          BY <1>0, <4>3, StepOwn DEF Done
        <5>. QED
          BY <5>1
      <4>4. CASE LockLog(t) \/ StampEnd(t)
        <5>1. Done(t) /\ Done(t)' /\ call'[t] = call[t]
          BY <1>0, <4>4, StepOwn DEF Done
        <5>2. ret' = ret
          BY <4>4 DEF LockLog, StampEnd, baseVars
        <5>. QED
          BY <5>1, <5>2
      <4>. QED
        BY <2>1, <4>1, <4>2, <4>3, <4>4 DEF Step
    <3>6. \A u \in Threads : /\ Done(u)' <=> Done(u)
                             /\ Done(u) => call'[u] = call[u] /\ ret'[u] = ret[u]
      BY <3>3, <3>5 DEF Done
    <3>7. capacity' \in Nat \ {0}
      BY <1>0, <3>2 DEF TableInv
    <3>. QED
      BY <1>0, <3>1, <3>2, <3>4, <3>6, <3>7, MapAndLogKept
  <2>2. CASE AllJoined \/ UNCHANGED vars
    <3>1. UNCHANGED <<items, capacity, nPairs, call, ret, pc, m_vOperationTimings>>
      BY <2>2 DEF AllJoined, vars, baseVars, logVars
    <3>2. capacity' \in Nat \ {0} /\ ret' = [u \in Threads |-> ret'[u]]
      BY <1>0, <3>1 DEF TableInv
    <3>3. \A u \in Threads : Done(u)' <=> Done(u)
      BY <3>1 DEF Done
    <3>. QED
      BY <1>0, <3>1, <3>2, <3>3, MapAndLogKept
  <2>. QED
    BY <2>1, <2>2, BodyResults, PushResults DEF Next
<1>. QED
  BY <1>1, <1>2 DEF RInv

\* The log explains every result in it, however many threads make however
\* many calls on however many keys: what an operation got is what the
\* operations that got the lock before it, in the order of their lock times,
\* leave in the map.  The sizes are sums over the keys, which must be finitely
\* many.
THEOREM LogExplainsResults ==
    ASSUME IsFiniteSet(Keys)
    PROVE  Spec => []ResultsFollowLockTimes
<1>1. Init => RInv
  BY InitIInv, InitResults DEF RInv
<1>2. RInv /\ [Next]_vars => RInv'
  BY NextResults
<1>3. RInv => ResultsFollowLockTimes
  BY DEF RInv
<1>. QED
  BY <1>1, <1>2, <1>3, PTL DEF Spec
=============================================================================
