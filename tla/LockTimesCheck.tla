---------------------------- MODULE LockTimesCheck ----------------------------
(***************************************************************************)
(* What the concurrency test makes of the log of TestableHashMap: the      *)
(* filters of TSOperationTimingVector and checkLockTimes, with what must   *)
(* hold of the log for their verdict to mean something.                    *)
(***************************************************************************)
EXTENDS TestableHashMap, SequencesExt

IsWrite(x) == x.call.op \in WriteOps
IsRead(x)  == x.call.op \in ReadOps

\* sortByEndTimeAsc: a vector that says it is sorted is left alone.
SortByEndTimeAsc(s, isSorted) ==
    LET places == DOMAIN s
        order == CHOOSE p \in Bijection(places, places) :
                    \A i, j \in places :
                       i < j => s[p[i]].m_tEndTime <= s[p[j]].m_tEndTime
    IN IF isSorted THEN s ELSE [i \in places |-> s[order[i]]]

\* filterParallelWorkers: which elements of s are in the vector it returns, in
\* the order they have in s.  The "or" lets every operation but x itself pass:
\* one that started later than x ended has also ended later than x started.
FilterParallelWorkers(s, x) ==
    {j \in DOMAIN s : /\ s[j] # x
                      /\ \/ s[j].m_tStartTime < x.m_tEndTime
                         \/ s[j].m_tEndTime > x.m_tStartTime}

\* Of two operations that may not overlap, the one that got the lock earlier
\* must not end later.
EndsInOrder(x, y) ==
    IF y.m_tLockTime < x.m_tLockTime THEN y.m_tEndTime <= x.m_tEndTime
                                     ELSE y.m_tEndTime >= x.m_tEndTime

\* Two readers: y, at j of the vector ps is filtered from, got its lock while x
\* ran, or no writer that ended before y did ended after y got its lock (only
\* the last writer is asked).
ReadersApart(s, x, ps, j) ==
    LET y == s[j]
        writers == {n \in ps : n < j /\ IsWrite(s[n])}
    IN \/ x.m_tStartTime < y.m_tLockTime /\ y.m_tLockTime < x.m_tEndTime
       \/ writers = {}
       \/ y.m_tLockTime \in {x.m_tStartTime, x.m_tEndTime}
       \/ s[Max(writers)].m_tEndTime <= y.m_tLockTime

CheckLockTimes(log, isSorted) ==
    LET s == SortByEndTimeAsc(log, isSorted)
    IN  \A i \in DOMAIN s :
          LET ps == FilterParallelWorkers(s, s[i])
          IN  \A j \in ps :
                IF IsWrite(s[i]) \/ IsWrite(s[j])
                THEN EndsInOrder(s[i], s[j]) ELSE ReadersApart(s, s[i], ps, j)
-----------------------------------------------------------------------------
Logged == ToSet(m_vOperationTimings)

TypeOK ==
    /\ now \in Nat
    /\ pc \in [Threads -> PCs]
    /\ call \in [Threads -> Calls \cup {NoCall}]
    /\ m_mSharedMutex \in [writer : SUBSET Threads, readers : [Threads -> Nat]]
    /\ m_tStartTime \in [Threads -> 0 .. now]
    /\ m_tLockTime \in [Threads -> 0 .. now]
    /\ m_tEndTime \in [Threads -> 0 .. now]
    /\ m_mMutex \subseteq Threads
    /\ m_bIsSorted \in BOOLEAN
    /\ m_vOperationTimings \in Seq(Logged)
    /\ \A i \in DOMAIN m_vOperationTimings :
          LET x == m_vOperationTimings[i]
          IN  /\ x.call \in Calls
              /\ x.m_tStartTime \in Nat /\ x.m_tLockTime \in Nat /\ x.m_tEndTime \in 0 .. now
              /\ x.m_tStartTime < x.m_tLockTime /\ x.m_tLockTime < x.m_tEndTime

\* The log is in the order of the end times, however the threads interleave:
\* every vector filtered from it is sorted, as its readers take for granted,
\* also when the uninitialized m_bIsSorted keeps sortByEndTimeAsc from sorting.
LogInEndOrder ==
    \A i, j \in DOMAIN m_vOperationTimings :
        i < j => m_vOperationTimings[i].m_tEndTime < m_vOperationTimings[j].m_tEndTime

\* Of two operations that may not overlap, the one that is later in the log got
\* its lock after the other had ended.  checkLockTimes would find one inside
\* the other only; the locks of the map exclude any overlap.
ConflictsDoNotOverlap ==
    \A i, j \in DOMAIN m_vOperationTimings :
        /\ i < j
        /\ IsWrite(m_vOperationTimings[i]) \/ IsWrite(m_vOperationTimings[j])
        => m_vOperationTimings[i].m_tEndTime < m_vOperationTimings[j].m_tLockTime

\* The pairs that went in or came out in an operation.
PairsOf(x) == ToSet(x.result.pairs)

Before(x, op) == {y \in Logged : y.call.op = op /\ y.m_tLockTime < x.m_tLockTime}

\* The pairs in the map when x got its lock, by the lock times of the log.
Present(x) ==
    {p \in UNION {PairsOf(y) : y \in Before(x, "insert")} :
        /\ \A y \in Before(x, "remove") : p \notin PairsOf(y)
        /\ \A y \in Before(x, "clear") :
              \A z \in Before(x, "insert") :
                  p \in PairsOf(z) => y.m_tLockTime < z.m_tLockTime}

PresentOf(x) == {p \in Present(x) : p.key = x.call.tKey}

\* The log explains every result in it: if each operation took effect at its
\* lock time, it would have got what it did get.  This is what lets
\* checkFindOpTimingForPair and checkErOpTimingForPair conclude from "the
\* finder's lock time is later than the inserter's" that it must see the pair.
ResultsFollowLockTimes ==
    \A x \in Logged :
       LET op == x.call.op
       IN /\ op = "operator[]" => PairsOf(x) = PresentOf(x)
          /\ op = "find" => /\ PairsOf(x) \subseteq PresentOf(x)
                            /\ (PairsOf(x) # {}) = (Cardinality(PresentOf(x)) > x.call.iPos)
          /\ op \in {"equalRange", "remove"} => PairsOf(x) \subseteq PresentOf(x)
          /\ op = "size" => x.result.n = Cardinality(Present(x))
          /\ op = "empty" => x.result.b = (Present(x) = {})

\* A map that locks as this one does passes checkLockTimes, whenever the
\* threads are joined and whatever m_bIsSorted was: the check gives no false
\* alarm.
CorrectMapPasses ==
    Joined => CheckLockTimes(m_vOperationTimings, m_bIsSorted)
=============================================================================
