----------------------- MODULE ThreadSafetyTestProofs -----------------------
(***************************************************************************)
(* Who owns the timings of the test program, what its rounds do to the map *)
(* and when its checks complain, for any number of keys, pairs and finding *)
(* workers.                                                                *)
(***************************************************************************)
EXTENDS ThreadSafetyTest, FiniteSetTheorems, SequenceTheorems, TLAPS

\* The log alone owns timings; the vectors of a check point into it while the
\* check runs, and to nothing afterwards.
OwnerInv ==
    /\ heap = log
    /\ vParallels = {}
    /\ vWriters \subseteq log
    /\ pc # "check" => vWriters = {}

LEMMA OwnerInit == Init => OwnerInv
  BY DEF Init, OwnerInv

\* A thread only pushes a timing: to the log, and so to what it owns.
LEMMA OwnerRun ==
    ASSUME OwnerInv, NEW t \in waiting,
           \/ ReadWorker(t) \/ InsertWorker(t) \/ RemoveWorker(t)
           \/ CapacityWorker(t) \/ ExtendWorker(t) \/ ClearWorker(t)
    PROVE  OwnerInv'
<1>1. PICK T : log' = log \cup T /\ heap' = heap \cup T
  <2>1. CASE ReadWorker(t)
    BY <2>1 DEF ReadWorker, HasRead, Push
  <2>2. CASE InsertWorker(t)
    BY <2>2 DEF InsertWorker, Wrote, Push
  <2>3. CASE RemoveWorker(t)
    BY <2>3 DEF RemoveWorker, Wrote, Push
  <2>4. CASE CapacityWorker(t)
    BY <2>4 DEF CapacityWorker, Push
  <2>5. CASE ExtendWorker(t)
    BY <2>5 DEF ExtendWorker, Wrote, Push
  <2>6. CASE ClearWorker(t)
    BY <2>6 DEF ClearWorker, Wrote, Push
  <2>. QED BY <2>1, <2>2, <2>3, <2>4, <2>5, <2>6
<1>2. UNCHANGED <<pc, vWriters, vParallels>>
  BY DEF ReadWorker, InsertWorker, RemoveWorker, CapacityWorker, ExtendWorker,
         ClearWorker, CheckState
<1>. QED BY <1>1, <1>2 DEF OwnerInv

LEMMA OwnerNext == OwnerInv /\ [Next]_vars => OwnerInv'
<1> SUFFICES ASSUME OwnerInv, [Next]_vars PROVE OwnerInv'
  OBVIOUS
<1>1. CASE StartRound
  <2>1. PICK T : log' = log \cup T /\ heap' = heap \cup T
    <3>1. CASE Round.before
      BY <1>1, <3>1 DEF StartRound, InsertsBefore, Push
    <3>2. CASE ~ Round.before
      <4>1. log' = log \cup {} /\ heap' = heap \cup {}
        BY <1>1, <3>2 DEF StartRound
      <4>. QED BY <4>1
    <3>. QED BY <3>1, <3>2
  <2>2. vWriters' = {} /\ vParallels' = {}
    BY <1>1 DEF StartRound, OwnerInv
  <2>. QED BY <2>1, <2>2 DEF OwnerInv
<1>2. CASE JoinThreads
  <2>0. FreedByLockTimes = {}
    BY DEF FreedByLockTimes, Unlinked
  <2>1. heap' = log' /\ vParallels' = {} /\ log' = log
    BY <1>2, <2>0 DEF JoinThreads, OwnerInv
  <2>2. CASE Round.check = "none"
    <3>1. vWriters' = {}
      BY <1>2, <2>2 DEF JoinThreads, OwnerInv
    <3>. QED BY <2>1, <3>1 DEF OwnerInv
  <2>3. CASE Round.check # "none"
    <3>1. pc' = "check" /\ vWriters' \subseteq log
      BY <1>2, <2>3 DEF JoinThreads, FilterByType
    <3>. QED BY <2>1, <3>1 DEF OwnerInv
  <2>. QED BY <2>2, <2>3
<1>3. CASE CheckWriter
  BY <1>3 DEF CheckWriter, OwnerInv, Unlinked
<1>4. CASE CheckEnd
  BY <1>4 DEF CheckEnd, OwnerInv, Unlinked
<1>5. CASE Return
  BY <1>5 DEF Return, OwnerInv
<1>6. CASE Main
  <2>1. PICK T : log' = log \cup T /\ heap' = heap \cup T
    BY <1>6 DEF Main, Push
  <2>2. vWriters' = {} /\ vParallels' = {}
    BY <1>6 DEF Main, OwnerInv
  <2>. QED BY <2>1, <2>2 DEF OwnerInv
<1>7. CASE End
  BY <1>7 DEF End, OwnerInv
<1>8. CASE \E t \in waiting :
             \/ ReadWorker(t) \/ InsertWorker(t) \/ RemoveWorker(t)
             \/ CapacityWorker(t) \/ ExtendWorker(t) \/ ClearWorker(t)
  BY <1>8, OwnerRun
<1>9. CASE UNCHANGED vars
  BY <1>9 DEF vars, OwnerInv
<1>. QED BY <1>1, <1>2, <1>3, <1>4, <1>5, <1>6, <1>7, <1>8, <1>9 DEF Next

\* No timing is used or deleted after it was deleted (T:187, T:256), and none is
\* lost, however many threads and pairs the test uses.
THEOREM TimingsOwned == Spec => []TimingsHaveOneOwner
<1>1. OwnerInv => TimingsHaveOneOwner
  BY DEF OwnerInv, TimingsHaveOneOwner
<1>. QED BY <1>1, OwnerInit, OwnerNext, PTL DEF Spec
-----------------------------------------------------------------------------
(***************************************************************************)
(* What a round makes of the map.  The operations of a thread happen one   *)
(* at a time, so what is true of the pairs in the middle of a round        *)
(* depends only on the threads that have yet to run: the two invariants    *)
(* below count them.                                                       *)
(***************************************************************************)
WaitingFor(op, k) == {t \in waiting : t.op = op /\ t.key = k}

ThreadsInv ==
    /\ waiting \subseteq [op : Finders \cup {Round.worker, "capacityToExtend"},
                          key : Keys, pos : WorkerPositions, n : Nat]
    /\ pc # "run" => waiting = {}
    /\ \A t \in waiting :
          /\ t.op = "capacityToExtend" => Round.worker = "extend"
          /\ t.op = "extend" => t.n >= 2 * DefaultCapacity
          /\ t.op # "extend" => t.n = 0

TypeInv ==
    /\ pc \in {"start", "run", "check", "return", "main", "end", "ended"}
    /\ round \in 1 .. Len(Rounds)
    /\ pairs \in [Keys -> Seq([value : Int, round : 1 .. Len(Rounds)])]
    /\ nCapacity \in Nat /\ nCapacity >= DefaultCapacity
    /\ nWrites \in Nat

Empty == \A k \in Keys : pairs[k] = <<>>

\* While the inserting workers run, a position is in the map or its worker waits.
Inserting ==
    \A k \in Keys :
        /\ IsFiniteSet(WaitingFor("insert", k))
        /\ Len(pairs[k]) + Cardinality(WaitingFor("insert", k)) = nCount - 1
        /\ {p.value : p \in Range(pairs[k])}
             = {v \in WorkerPositions : \A t \in WaitingFor("insert", k) : t.pos # v}

\* Each removing worker that waits has a pair left to remove.
Removing ==
    \A k \in Keys :
        /\ IsFiniteSet(WaitingFor("remove", k))
        /\ Len(pairs[k]) = Cardinality(WaitingFor("remove", k))

Extending ==
    /\ \A k \in Keys : pairs[k] = [v \in 1 .. nCount |-> NewPair(v - 1)]
    /\ \/ nCapacity >= 2 * DefaultCapacity
       \/ \E t \in waiting : t.op \in {"capacityToExtend", "extend"}

Clearing == Empty \/ \E t \in waiting : t.op = "clear"

Started == pc \in {"run", "check", "return", "main"}

MapInv ==
    /\ pc = "start" /\ round = 2 => \A k \in Keys : Len(pairs[k]) = nCount - 1
    /\ pc = "start" /\ round # 2 => Empty
    /\ Started /\ round = 1 => Inserting
    /\ Started /\ round = 2 => Removing
    /\ Started /\ round = 3 => Extending
    /\ Started /\ round = 4 => Clearing
    /\ round \in 5 .. 7 => Empty

\* What the log holds, round by round.  A finder never got a pair that is
\* inserted at or after its own lock time; and from the removing round on,
\* only finders of that round may have missed.
InsertedLater(f, w) ==
    /\ f.op \in FindOps /\ w.op = "insert" /\ f.key = w.key /\ f.before <= w.before

LogInv ==
    /\ \A x \in log : /\ x.before \in Int /\ x.before <= nWrites
                      /\ x.op = "insert" => x.before < nWrites
    /\ pc = "start" /\ round = 1 => log = {}
    /\ pc \in {"return", "main"} /\ Round.check # "none" => log = {}
    /\ round = 2 => \A f \in log : f.op = "find" => f.round = 2
    /\ pc = "start" /\ round = 3 => \A f \in log : f.op = "find" => f.round = 2
    /\ pc \in {"run", "check"} /\ round = 3 =>
          \A f \in log : f.op = "find" /\ f.result = {} => f.round = 2
    /\ pc = "start" /\ round = 4 => \A f \in log : f.op \notin FindOps
    /\ pc \in {"run", "check"} /\ round \in {1, 4} =>
          \A f, w \in log : InsertedLater(f, w) => \A p \in f.result : p.value # w.pos
    /\ pc = "run" /\ round = 1 =>
          \A f \in log : \A t \in WaitingFor("insert", f.key) :
              f.op \in FindOps => \A p \in f.result : p.value # t.pos

CheckInv ==
    /\ pc = "check" => Round.check # "none" /\ vWriters \subseteq FilterByType(Round.check)
    /\ \A f \in blamed : round = 3 /\ f.op = "find" /\ f.round = 2

TestInv == TypeInv /\ ThreadsInv /\ MapInv /\ LogInv /\ CheckInv
-----------------------------------------------------------------------------
LEMMA RoundTable ==
    /\ Len(Rounds) = 7
    /\ Rounds[1] = [worker |-> "insert",   before |-> FALSE, check |-> "insert", size |-> "all",  clears |-> FALSE]
    /\ Rounds[2] = [worker |-> "remove",   before |-> FALSE, check |-> "none",   size |-> "none", clears |-> TRUE]
    /\ Rounds[3] = [worker |-> "extend",   before |-> TRUE,  check |-> "extend", size |-> "printed", clears |-> TRUE]
    /\ Rounds[4] = [worker |-> "clear",    before |-> TRUE,  check |-> "insert", size |-> "none", clears |-> FALSE]
    /\ Rounds[5] = [worker |-> "empty",    before |-> FALSE, check |-> "none",   size |-> "any",  clears |-> FALSE]
    /\ Rounds[6] = [worker |-> "size",     before |-> FALSE, check |-> "none",   size |-> "any",  clears |-> FALSE]
    /\ Rounds[7] = [worker |-> "capacity", before |-> FALSE, check |-> "none",   size |-> "any",  clears |-> FALSE]
<1>0. Len(Rounds) = 7
  BY DEF Rounds
<1>1. Rounds[1] = [worker |-> "insert",   before |-> FALSE, check |-> "insert", size |-> "all",  clears |-> FALSE]
  BY DEF Rounds
<1>2. Rounds[2] = [worker |-> "remove",   before |-> FALSE, check |-> "none",   size |-> "none", clears |-> TRUE]
  BY DEF Rounds
<1>3. Rounds[3] = [worker |-> "extend",   before |-> TRUE,  check |-> "extend", size |-> "printed", clears |-> TRUE]
  BY DEF Rounds
<1>4. Rounds[4] = [worker |-> "clear",    before |-> TRUE,  check |-> "insert", size |-> "none", clears |-> FALSE]
  BY DEF Rounds
<1>5. Rounds[5] = [worker |-> "empty",    before |-> FALSE, check |-> "none",   size |-> "any",  clears |-> FALSE]
  BY DEF Rounds
<1>6. Rounds[6] = [worker |-> "size",     before |-> FALSE, check |-> "none",   size |-> "any",  clears |-> FALSE]
  BY DEF Rounds
<1>7. Rounds[7] = [worker |-> "capacity", before |-> FALSE, check |-> "none",   size |-> "any",  clears |-> FALSE]
  BY DEF Rounds
<1>. QED
  BY <1>0, <1>1, <1>2, <1>3, <1>4, <1>5, <1>6, <1>7

\* All that the proofs need of the table.
LEMMA RoundFacts ==
    ASSUME round \in 1 .. Len(Rounds)
    PROVE  /\ Round.worker = "insert" <=> round = 1
           /\ Round.worker = "remove" <=> round = 2
           /\ Round.worker = "extend" <=> round = 3
           /\ Round.worker = "clear" <=> round = 4
           /\ Round.worker \in {"insert", "remove", "extend", "clear", "empty", "size", "capacity"}
           /\ Round.before <=> round \in {3, 4}
           /\ Round.check \in {"insert", "extend", "none"}
           /\ Round.check = "insert" <=> round \in {1, 4}
           /\ Round.check = "extend" <=> round = 3
           /\ Round.clears <=> round \in {2, 3}
           /\ round \in 1 .. 7
<1>1. round \in 1 .. 7
  BY RoundTable
<1>2. round = 1 \/ round = 2 \/ round = 3 \/ round = 4 \/ round = 5 \/ round = 6 \/ round = 7
  BY <1>1
<1>. QED
  BY <1>1, <1>2, RoundTable DEF Round

LEMMA Positions == IsFiniteSet(WorkerPositions) /\ Cardinality(WorkerPositions) = nCount - 1
<1>1. nCount - 2 \in Int /\ ~ (0 > nCount - 2) /\ (nCount - 2) - 0 + 1 = nCount - 1
  BY TestAssumption
<1>2. IsFiniteSet(0 .. nCount - 2) /\ Cardinality(0 .. nCount - 2) = (nCount - 2) - 0 + 1
  BY <1>1, FS_Interval
<1>. QED
  BY <1>1, <1>2 DEF WorkerPositions

\* There is a worker for each position of a key, and at least one of each kind.
LEMMA WorkersOfKey ==
    ASSUME round \in 1 .. Len(Rounds), NEW k \in Keys, Round.worker # "extend",
           Round.worker \notin Finders,
           NEW W, W = {t \in ThreadsOf(Round) : t.op = Round.worker /\ t.key = k}
    PROVE  /\ IsFiniteSet(W) /\ Cardinality(W) = nCount - 1
           /\ \A v \in WorkerPositions : \E t \in W : t.pos = v
<1> DEFINE thread(v) == [op |-> Round.worker, key |-> k, pos |-> v, n |-> 0]
           f == [v \in WorkerPositions |-> thread(v)]
<1>1. \A v \in WorkerPositions : thread(v) \in W /\ thread(v).pos = v
  BY DEF ThreadsOf
<1>2. \A t \in W : t.pos \in WorkerPositions /\ t = thread(t.pos)
  BY DEF ThreadsOf
<1>3. f \in Bijection(WorkerPositions, W)
  <2>1. f \in [WorkerPositions -> W]
    BY <1>1
  <2>2. \A v, u \in WorkerPositions : f[v] = f[u] => v = u
    BY <1>1
  <2>3. \A t \in W : \E v \in WorkerPositions : f[v] = t
    BY <1>2
  <2>. QED
    BY <2>1, <2>2, <2>3 DEF Bijection, Injection, Surjection, IsInjective
<1>4. ExistsBijection(WorkerPositions, W)
  BY <1>3 DEF ExistsBijection
<1>. QED
  BY <1>1, <1>4, Positions, FS_Bijection

LEMMA SomeWorker ==
    ASSUME round \in 1 .. Len(Rounds)
    PROVE  \E t \in ThreadsOf(Round) :
              t.op = IF Round.worker = "extend" THEN "capacityToExtend" ELSE Round.worker
<1>1. PICK k \in Keys : TRUE
  BY TestAssumption
<1>2. 0 \in WorkerPositions
  BY TestAssumption DEF WorkerPositions
<1> DEFINE o == IF Round.worker = "extend" THEN "capacityToExtend" ELSE Round.worker
<1>3. [op |-> o, key |-> k, pos |-> 0, n |-> 0] \in ThreadsOf(Round)
  BY <1>1, <1>2 DEF ThreadsOf
<1>. QED
  BY <1>3
-----------------------------------------------------------------------------
(***************************************************************************)
(* The threads of a round.                                                 *)
(***************************************************************************)
RunStep(t) ==
    \/ ReadWorker(t) \/ InsertWorker(t) \/ RemoveWorker(t)
    \/ CapacityWorker(t) \/ ExtendWorker(t) \/ ClearWorker(t)

LEMMA RunFrame ==
    ASSUME TestInv, NEW t \in waiting, RunStep(t)
    PROVE  /\ pc = "run" /\ UNCHANGED CheckState /\ UNCHANGED <<pc, round, vWriters, blamed>>
           /\ Round' = Round
           /\ round \in 1 .. 7 /\ round \in 1 .. Len(Rounds)
           /\ t.op \in Finders \cup {Round.worker, "capacityToExtend"}
           /\ t.op \in {"find", "equalRange", "operator[]"} \cup {Round.worker, "capacityToExtend"}
           /\ t.key \in Keys /\ t.pos \in WorkerPositions /\ t.n \in Nat
           /\ t.op = "capacityToExtend" => Round.worker = "extend"
           /\ t.op = "extend" => t.n >= 2 * DefaultCapacity
<1>1. pc = "run" /\ UNCHANGED CheckState
  BY DEF RunStep, ReadWorker, InsertWorker, RemoveWorker, CapacityWorker, ExtendWorker,
         ClearWorker, Runs
<1>2. UNCHANGED <<pc, round, vWriters, blamed>>
  BY <1>1 DEF CheckState
<1>3. Round' = Round
  BY <1>2 DEF Round
<1>4. round \in 1 .. 7 /\ round \in 1 .. Len(Rounds)
  BY RoundTable DEF TestInv, TypeInv
<1>5. t \in [op : Finders \cup {Round.worker, "capacityToExtend"},
             key : Keys, pos : WorkerPositions, n : Nat]
  BY DEF TestInv, ThreadsInv
<1>6. t.op = "capacityToExtend" => Round.worker = "extend"
  BY DEF TestInv, ThreadsInv
<1>7. t.op = "extend" => t.n >= 2 * DefaultCapacity
  BY DEF TestInv, ThreadsInv
<1>. QED
  BY <1>1, <1>2, <1>3, <1>4, <1>5, <1>6, <1>7, TestAssumption

\* Which of the workers run in a round.
LEMMA RunOps ==
    ASSUME TestInv, NEW t \in waiting, RunStep(t)
    PROVE  /\ InsertWorker(t) => round = 1
           /\ RemoveWorker(t) => round = 2
           /\ CapacityWorker(t) \/ ExtendWorker(t) => round = 3
           /\ ClearWorker(t) => round = 4
<1>1. RunStep(t) => TRUE
  OBVIOUS
<1>2. /\ t.op = "insert" => Round.worker = "insert"
      /\ t.op = "remove" => Round.worker = "remove"
      /\ t.op \in {"extend", "capacityToExtend"} => Round.worker = "extend"
      /\ t.op = "clear" => Round.worker = "clear"
  BY RunFrame
<1>. QED
  BY <1>2, RunFrame, RoundFacts
     DEF InsertWorker, RemoveWorker, CapacityWorker, ExtendWorker, ClearWorker, Runs

\* The thread that ran waits no more; one that asked for the capacity waits to
\* extend the map.
LEMMA RunWaiting ==
    ASSUME TestInv, NEW t \in waiting, RunStep(t)
    PROVE  /\ ~ CapacityWorker(t) => waiting' = waiting \ {t}
           /\ CapacityWorker(t) =>
                 waiting' = (waiting \ {t})
                    \cup {[t EXCEPT !.op = "extend", !.n = DefaultCapacity + nCapacity]}
           /\ \A k : \A o \in {"insert", "remove"} :
                 /\ WaitingFor(o, k)' = WaitingFor(o, k) \ {t}
                 /\ t \in WaitingFor(o, k) <=> t.op = o /\ t.key = k
<1>1. ~ CapacityWorker(t) => waiting' = waiting \ {t}
  BY DEF RunStep, ReadWorker, InsertWorker, RemoveWorker, ExtendWorker, ClearWorker,
         Wrote, HasRead
<1>2. CapacityWorker(t) =>
          waiting' = (waiting \ {t})
                 \cup {[t EXCEPT !.op = "extend", !.n = DefaultCapacity + nCapacity]}
  BY DEF CapacityWorker
<1>3. ASSUME NEW k, NEW o \in {"insert", "remove"}
      PROVE  WaitingFor(o, k)' = WaitingFor(o, k) \ {t}
  <2>1. CASE ~ CapacityWorker(t)
    BY <1>1, <2>1 DEF WaitingFor
  <2>2. CASE CapacityWorker(t)
    <3> DEFINE u == [t EXCEPT !.op = "extend", !.n = DefaultCapacity + nCapacity]
    <3>1. u.op = "extend"
      BY DEF TestInv, ThreadsInv
    <3>2. waiting' = (waiting \ {t}) \cup {u}
      BY <1>2, <2>2
    <3> HIDE DEF u
    <3>. QED
      BY <3>1, <3>2 DEF WaitingFor
  <2>. QED
    BY <2>1, <2>2
<1>. QED
  BY <1>1, <1>2, <1>3 DEF WaitingFor

LEMMA FirstRemoved ==
    ASSUME NEW S, NEW s \in Seq(S), 1 \in DOMAIN s
    PROVE  RemoveAt(s, 1) \in Seq(S) /\ Len(RemoveAt(s, 1)) = Len(s) - 1
<1>1. Len(s) \in Nat /\ Len(s) >= 1
  OBVIOUS
<1>2. SubSeq(s, 1, 0) \in Seq(S) /\ Len(SubSeq(s, 1, 0)) = 0
  OBVIOUS
<1> DEFINE n == Len(s)
<1>3. SubSeq(s, 2, n) \in Seq(S) /\ Len(SubSeq(s, 2, n)) = n - 1
  <2>1. n \in Nat /\ n >= 1 /\ \A j \in 2 .. n : s[j] \in S
    BY <1>1
  <2> HIDE DEF n
  <2>2. /\ SubSeq(s, 2, n) \in Seq(S)
        /\ Len(SubSeq(s, 2, n)) = IF 2 <= n THEN n - 2 + 1 ELSE 0
    BY <2>1, SubSeqProperties
  <2>3. \A l : l = (IF 2 <= n THEN n - 2 + 1 ELSE 0) => l = n - 1
    BY <2>1
  <2>. QED
    BY <2>2, <2>3, Zenon
<1>4. RemoveAt(s, 1) = SubSeq(s, 1, 0) \o SubSeq(s, 2, Len(s))
  BY DEF RemoveAt
<1> DEFINE a == SubSeq(s, 1, 0)
           b == SubSeq(s, 2, Len(s))
<1>5. a \in Seq(S) /\ b \in Seq(S) /\ Len(a) = 0 /\ Len(b) = Len(s) - 1
  BY <1>2, <1>3
<1> HIDE DEF a, b
<1>6. a \o b \in Seq(S) /\ Len(a \o b) = Len(a) + Len(b)
  BY <1>5, ConcatProperties
<1>7. RemoveAt(s, 1) = a \o b
  BY <1>4 DEF a, b
<1>8. Len(a) + Len(b) = Len(s) - 1
  BY <1>1, <1>5
<1>. QED
  BY <1>6, <1>7, <1>8

LEMMA RunTypes ==
    ASSUME TestInv, NEW t \in waiting, RunStep(t)
    PROVE  TypeInv'
<1> DEFINE P == [value : Int, round : 1 .. Len(Rounds)]
<1>1. /\ pc' = pc /\ round' = round /\ TypeInv /\ t.key \in Keys /\ t.pos \in Int /\ t.n \in Nat
      /\ round \in 1 .. Len(Rounds)
  BY RunFrame DEF TestInv, WorkerPositions
<1>2. nWrites' \in Nat
  BY DEF RunStep, ReadWorker, InsertWorker, RemoveWorker, CapacityWorker, ExtendWorker,
         ClearWorker, Wrote, HasRead, TestInv, TypeInv
<1>3. pairs' \in [Keys -> Seq(P)]
  <2>0. pairs \in [Keys -> Seq(P)]
    BY <1>1 DEF TypeInv
  <2>1. CASE InsertWorker(t)
    <3>1. NewPair(t.pos) \in P
      BY <1>1 DEF NewPair
    <3> HIDE DEF P
    <3>2. Append(pairs[t.key], NewPair(t.pos)) \in Seq(P)
      BY <2>0, <3>1, <1>1
    <3>. QED
      BY <2>0, <2>1, <3>2 DEF InsertWorker
  <2>2. CASE RemoveWorker(t)
    <3> HIDE DEF P
    <3>1. CASE 1 \in DOMAIN pairs[t.key]
      <4>0. pairs[t.key] \in Seq(P)
        BY <2>0, <1>1
      <4>1. RemoveAt(pairs[t.key], 1) \in Seq(P)
        BY <4>0, <3>1, FirstRemoved
      <4>. QED
        BY <2>0, <2>2, <3>1, <4>1 DEF RemoveWorker, RemovedPosition
    <3>2. CASE 1 \notin DOMAIN pairs[t.key]
      BY <2>0, <2>2, <3>2 DEF RemoveWorker, RemovedPosition
    <3>. QED
      BY <3>1, <3>2
  <2>3. CASE ClearWorker(t)
    <3>1. <<>> \in Seq(P)
      OBVIOUS
    <3>. QED
      BY <2>3, <3>1 DEF ClearWorker
  <2>4. CASE ReadWorker(t) \/ CapacityWorker(t) \/ ExtendWorker(t)
    BY <2>0, <2>4 DEF ReadWorker, CapacityWorker, ExtendWorker
  <2>. QED
    BY <2>1, <2>2, <2>3, <2>4 DEF RunStep
<1>4. nCapacity' \in Nat /\ nCapacity' >= DefaultCapacity
  <2>0. nCapacity \in Nat /\ nCapacity >= DefaultCapacity /\ DefaultCapacity \in Nat
    BY <1>1, TestAssumption DEF TypeInv
  <2>1. CASE ExtendWorker(t)
    <3>1. nCapacity' = Max({nCapacity, t.n})
      BY <2>1 DEF ExtendWorker
    <3>2. \E m \in {nCapacity, t.n} : \A y \in {nCapacity, t.n} : m >= y
      BY <2>0, <1>1
    <3>3. nCapacity' \in {nCapacity, t.n} /\ nCapacity' >= nCapacity
      BY <3>1, <3>2 DEF Max
    <3>. QED
      BY <2>0, <3>3, <1>1
  <2>2. CASE ~ ExtendWorker(t)
    <3>1. nCapacity' \in {nCapacity, DefaultCapacity}
      BY <2>2 DEF RunStep, ReadWorker, InsertWorker, RemoveWorker, CapacityWorker, ClearWorker
    <3>. QED
      BY <2>0, <3>1
  <2>. QED
    BY <2>1, <2>2
<1>. QED
  BY <1>1, <1>2, <1>3, <1>4 DEF TypeInv

LEMMA RunThreads ==
    ASSUME TestInv, NEW t \in waiting, RunStep(t)
    PROVE  ThreadsInv'
<1> DEFINE T == [op : Finders \cup {Round.worker, "capacityToExtend"},
                 key : Keys, pos : WorkerPositions, n : Nat]
<1>1. waiting \subseteq T /\ T' = T /\ pc' = "run" /\ Round' = Round
  BY RunFrame DEF TestInv, ThreadsInv, WorkerPositions
<1>2. CASE ~ CapacityWorker(t)
  <2>1. waiting' = waiting \ {t}
    BY <1>2, RunWaiting
  <2>. QED
    BY <1>1, <2>1 DEF TestInv, ThreadsInv
<1>3. CASE CapacityWorker(t)
  <2> DEFINE u == [t EXCEPT !.op = "extend", !.n = DefaultCapacity + nCapacity]
  <2>1. waiting' = (waiting \ {t}) \cup {u}
    BY <1>3, RunWaiting
  <2>2. Round.worker = "extend"
    BY <1>3, RunOps, RunFrame, RoundFacts
  <2>3. u \in T /\ u.op = "extend" /\ u.n >= 2 * DefaultCapacity
    <3>1. DefaultCapacity + nCapacity \in Nat /\ DefaultCapacity + nCapacity >= 2 * DefaultCapacity
      BY TestAssumption DEF TestInv, TypeInv
    <3>. QED
      BY <1>1, <2>2, <3>1
  <2> HIDE DEF u
  <2>. QED
    BY <1>1, <2>1, <2>2, <2>3 DEF TestInv, ThreadsInv
<1>. QED
  BY <1>2, <1>3
-----------------------------------------------------------------------------
\* An inserting worker that has run is exchanged for a pair of its key.
LEMMA RunInserting ==
    ASSUME TestInv, NEW t \in waiting, InsertWorker(t), Inserting
    PROVE  Inserting'
<1>0. RunStep(t)
  BY DEF RunStep
<1>1. t.op = "insert" /\ t.key \in Keys /\ t.pos \in WorkerPositions
  BY <1>0, RunFrame DEF InsertWorker, Runs
<1>2. pairs \in [Keys -> Seq([value : Int, round : 1 .. Len(Rounds)])]
  BY DEF TestInv, TypeInv
<1>3. pairs' = [pairs EXCEPT ![t.key] = Append(@, NewPair(t.pos))]
  BY DEF InsertWorker
<1> SUFFICES ASSUME NEW k \in Keys
             PROVE  /\ IsFiniteSet(WaitingFor("insert", k)')
                    /\ Len(pairs'[k]) + Cardinality(WaitingFor("insert", k)') = nCount - 1
                    /\ {p.value : p \in Range(pairs'[k])}
                         = {v \in WorkerPositions : \A u \in WaitingFor("insert", k)' : u.pos # v}
  BY DEF Inserting, WorkerPositions
<1>4. /\ IsFiniteSet(WaitingFor("insert", k))
      /\ Len(pairs[k]) + Cardinality(WaitingFor("insert", k)) = nCount - 1
      /\ {p.value : p \in Range(pairs[k])}
           = {v \in WorkerPositions : \A u \in WaitingFor("insert", k) : u.pos # v}
  BY DEF Inserting
<1>5. WaitingFor("insert", k)' = WaitingFor("insert", k) \ {t}
  BY <1>0, RunWaiting
<1>6. CASE k # t.key
  <2>1. pairs'[k] = pairs[k]
    BY <1>2, <1>3, <1>6
  <2>2. t \notin WaitingFor("insert", k)
    BY <1>6 DEF WaitingFor
  <2>3. WaitingFor("insert", k)' = WaitingFor("insert", k)
    BY <1>5, <2>2
  <2>4. {p.value : p \in Range(pairs'[k])} = {p.value : p \in Range(pairs[k])}
    BY <2>1, Zenon
  <2>5. {v \in WorkerPositions : \A u \in WaitingFor("insert", k)' : u.pos # v}
          = {v \in WorkerPositions : \A u \in WaitingFor("insert", k) : u.pos # v}
    BY <2>3
  <2>. QED
    BY <1>4, <2>1, <2>3, <2>4, <2>5, Zenon
<1>7. CASE k = t.key
  <2>1. pairs'[k] = Append(pairs[k], NewPair(t.pos))
    BY <1>2, <1>3, <1>7
  <2>2. pairs[k] \in Seq([value : Int, round : 1 .. Len(Rounds)])
    BY <1>2
  <2>3. NewPair(t.pos) \in [value : Int, round : 1 .. Len(Rounds)] /\ NewPair(t.pos).value = t.pos
    BY <1>1 DEF NewPair, WorkerPositions, TestInv, TypeInv
  <2>4. Len(pairs'[k]) = Len(pairs[k]) + 1
    BY <2>1, <2>2
  <2>5. t \in WaitingFor("insert", k)
    BY <1>0, <1>1, <1>7, RunWaiting
  <2>6. /\ IsFiniteSet(WaitingFor("insert", k)')
        /\ Cardinality(WaitingFor("insert", k)') = Cardinality(WaitingFor("insert", k)) - 1
    BY <1>4, <1>5, <2>5, FS_RemoveElement
  <2>7. {p.value : p \in Range(pairs'[k])} = {p.value : p \in Range(pairs[k])} \cup {t.pos}
    <3> DEFINE s == pairs[k]
               P == [value : Int, round : 1 .. Len(Rounds)]
               e == NewPair(t.pos)
    <3>0. s \in Seq(P) /\ e \in P
      BY <2>2, <2>3
    <3> HIDE DEF s, P, e
    <3>1. Range(Append(s, e)) = Range(s) \cup {e}
      <4>1. /\ Len(Append(s, e)) = Len(s) + 1 /\ Len(s) \in Nat
            /\ DOMAIN Append(s, e) = 1 .. Len(s) + 1 /\ DOMAIN s = 1 .. Len(s)
            /\ \A j \in 1 .. Len(s) : Append(s, e)[j] = s[j]
            /\ Append(s, e)[Len(s) + 1] = e
        BY <3>0, AppendProperties
      <4>. QED
        BY <4>1 DEF Range
    <3>2. Range(pairs'[k]) = Range(pairs[k]) \cup {NewPair(t.pos)}
      BY <2>1, <3>1 DEF s, e
    <3>. QED
      BY <3>2, <2>3
  <2>8. \A u \in WaitingFor("insert", k) : u.pos = t.pos => u = t
    <3>1. \A u \in WaitingFor("insert", k) :
             /\ u \in [op : Finders \cup {Round.worker, "capacityToExtend"},
                       key : Keys, pos : WorkerPositions, n : Nat]
             /\ u.op = "insert" /\ u.key = k /\ u.n = 0
      BY DEF WaitingFor, TestInv, ThreadsInv
    <3>. QED
      BY <3>1, <2>5
  <2>9. {v \in WorkerPositions : \A u \in WaitingFor("insert", k)' : u.pos # v}
          = {v \in WorkerPositions : \A u \in WaitingFor("insert", k) : u.pos # v} \cup {t.pos}
    BY <1>1, <1>5, <2>5, <2>8
  <2>10. Len(pairs'[k]) + Cardinality(WaitingFor("insert", k)') = nCount - 1
    <3>1. Len(pairs[k]) \in Nat /\ Cardinality(WaitingFor("insert", k)) \in Nat
      BY <1>4, <2>2, FS_CardinalityType
    <3>. QED
      BY <1>4, <2>4, <2>6, <3>1
  <2>. QED
    BY <1>4, <2>6, <2>7, <2>9, <2>10
<1>. QED
  BY <1>6, <1>7

\* A removing worker that has run takes a pair of its key with it.
LEMMA RunRemoving ==
    ASSUME TestInv, NEW t \in waiting, RemoveWorker(t), Removing
    PROVE  Removing'
<1>0. RunStep(t)
  BY DEF RunStep
<1>1. t.op = "remove" /\ t.key \in Keys
  BY <1>0, RunFrame DEF RemoveWorker, Runs
<1>2. pairs \in [Keys -> Seq([value : Int, round : 1 .. Len(Rounds)])]
  BY DEF TestInv, TypeInv
<1> SUFFICES ASSUME NEW k \in Keys
             PROVE  /\ IsFiniteSet(WaitingFor("remove", k)')
                    /\ Len(pairs'[k]) = Cardinality(WaitingFor("remove", k)')
  BY DEF Removing
<1>4. /\ IsFiniteSet(WaitingFor("remove", k))
      /\ Len(pairs[k]) = Cardinality(WaitingFor("remove", k))
  BY DEF Removing
<1>5. WaitingFor("remove", k)' = WaitingFor("remove", k) \ {t}
  BY <1>0, RunWaiting
<1>6. CASE k # t.key
  <2>1. pairs'[k] = pairs[k]
    BY <1>2, <1>6 DEF RemoveWorker
  <2>2. t \notin WaitingFor("remove", k)
    BY <1>6 DEF WaitingFor
  <2>3. WaitingFor("remove", k)' = WaitingFor("remove", k)
    BY <1>5, <2>2
  <2>. QED
    BY <1>4, <2>1, <2>3
<1>7. CASE k = t.key
  <2>1. t \in WaitingFor("remove", k)
    BY <1>0, <1>1, <1>7, RunWaiting
  <2>2. /\ IsFiniteSet(WaitingFor("remove", k)')
        /\ Cardinality(WaitingFor("remove", k)') = Cardinality(WaitingFor("remove", k)) - 1
    BY <1>4, <1>5, <2>1, FS_RemoveElement
  <2>3. pairs[k] \in Seq([value : Int, round : 1 .. Len(Rounds)])
    BY <1>2
  <2>4. 1 \in DOMAIN pairs[k]
    <3>1. Cardinality(WaitingFor("remove", k)) # 0
      BY <1>4, <2>1, FS_EmptySet
    <3>. QED
      BY <1>4, <2>3, <3>1
  <2>5. pairs'[k] = RemoveAt(pairs[k], 1)
    BY <1>2, <1>7, <2>4 DEF RemoveWorker, RemovedPosition
  <2>6. Len(pairs'[k]) = Len(pairs[k]) - 1
    BY <2>3, <2>4, <2>5, FirstRemoved
  <2>. QED
    BY <1>4, <2>2, <2>6
<1>. QED
  BY <1>6, <1>7

\* The operations of the other threads leave both counts alone.
LEMMA RunCounts ==
    ASSUME TestInv, NEW t \in waiting, RunStep(t), t.op \notin {"insert", "remove"},
           pairs' = pairs
    PROVE  (Inserting => Inserting') /\ (Removing => Removing')
<1>1. \A k : \A o \in {"insert", "remove"} : WaitingFor(o, k)' = WaitingFor(o, k)
  <2>1. \A k : \A o \in {"insert", "remove"} : t \notin WaitingFor(o, k)
    BY DEF WaitingFor
  <2>2. \A k : \A o \in {"insert", "remove"} : WaitingFor(o, k)' = WaitingFor(o, k) \ {t}
    BY RunWaiting
  <2>. QED
    BY <2>1, <2>2
<1>. QED
  BY <1>1 DEF Inserting, Removing, WorkerPositions

LEMMA RunExtending ==
    ASSUME TestInv, NEW t \in waiting, RunStep(t), round = 3, Extending
    PROVE  Extending'
<1>1. ReadWorker(t) \/ CapacityWorker(t) \/ ExtendWorker(t)
  BY RunOps DEF RunStep
<1>2. pairs' = pairs /\ round' = round
  BY <1>1, RunFrame DEF ReadWorker, CapacityWorker, ExtendWorker
<1>3. \A k \in Keys : pairs'[k] = [v \in 1 .. nCount |-> NewPair(v - 1)']
  BY <1>2 DEF Extending, NewPair
<1>4. nCapacity \in Nat /\ DefaultCapacity \in Nat
  BY TestAssumption DEF TestInv, TypeInv
<1>5. \/ nCapacity' >= 2 * DefaultCapacity
      \/ \E u \in waiting' : u.op \in {"capacityToExtend", "extend"}
  <2>1. CASE ReadWorker(t)
    <3>1. t.op \notin {"capacityToExtend", "extend"} /\ nCapacity' = nCapacity
      BY <2>1, TestAssumption DEF ReadWorker, Runs
    <3>2. ~ CapacityWorker(t)
      BY <3>1 DEF CapacityWorker, Runs
    <3>3. waiting' = waiting \ {t}
      BY <3>2, RunWaiting
    <3>. QED
      BY <3>1, <3>3 DEF Extending
  <2>2. CASE CapacityWorker(t)
    <3> DEFINE u == [t EXCEPT !.op = "extend", !.n = DefaultCapacity + nCapacity]
    <3>1. u \in waiting'
      BY <2>2, RunWaiting
    <3>2. u.op = "extend"
      BY DEF TestInv, ThreadsInv
    <3>. QED
      BY <3>1, <3>2
  <2>3. CASE ExtendWorker(t)
    <3>1. nCapacity' = Max({nCapacity, t.n})
      BY <2>3 DEF ExtendWorker
    <3>2. t.n >= 2 * DefaultCapacity /\ t.n \in Nat
      BY <2>3, RunFrame DEF ExtendWorker, Runs
    <3>3. \E m \in {nCapacity, t.n} : \A y \in {nCapacity, t.n} : m >= y
      BY <1>4, <3>2
    <3>4. nCapacity' \in {nCapacity, t.n} /\ nCapacity' >= t.n
      BY <3>1, <3>3 DEF Max
    <3>. QED
      BY <1>4, <3>2, <3>4
  <2>. QED
    BY <1>1, <2>1, <2>2, <2>3
<1>. QED
  BY <1>3, <1>5 DEF Extending

LEMMA RunClearing ==
    ASSUME TestInv, NEW t \in waiting, RunStep(t), round = 4, Clearing
    PROVE  Clearing'
<1>1. CASE ClearWorker(t)
  BY <1>1 DEF ClearWorker, Clearing, Empty
<1>2. CASE ReadWorker(t)
  <2>1. t.op # "clear" /\ pairs' = pairs
    BY <1>2, TestAssumption DEF ReadWorker, Runs
  <2>2. ~ CapacityWorker(t)
    BY <1>2, RunOps
  <2>3. waiting' = waiting \ {t}
    BY <2>2, RunWaiting
  <2>. QED
    BY <2>1, <2>3 DEF Clearing, Empty
<1>. QED
  BY <1>1, <1>2, RunOps DEF RunStep

LEMMA RunMap ==
    ASSUME TestInv, NEW t \in waiting, RunStep(t)
    PROVE  MapInv'
<1>1. pc = "run" /\ pc' = "run" /\ round' = round /\ round \in 1 .. 7 /\ MapInv
  BY RunFrame DEF TestInv
<1>2. Started /\ Started'
  BY <1>1 DEF Started
<1>3. CASE round = 1
  <2>1. Inserting
    BY <1>1, <1>2, <1>3 DEF MapInv
  <2>2. Inserting'
    <3>1. CASE InsertWorker(t)
      BY <2>1, <3>1, RunInserting
    <3>2. CASE ReadWorker(t)
      <4>1. t.op \notin {"insert", "remove"} /\ pairs' = pairs
        BY <3>2, TestAssumption DEF ReadWorker, Runs
      <4>. QED
        BY <2>1, <4>1, RunCounts
    <3>. QED
      BY <1>3, <3>1, <3>2, RunOps DEF RunStep
  <2>. QED
    BY <1>1, <1>3, <2>2 DEF MapInv
<1>4. CASE round = 2
  <2>1. Removing
    BY <1>1, <1>2, <1>4 DEF MapInv
  <2>2. Removing'
    <3>1. CASE RemoveWorker(t)
      BY <2>1, <3>1, RunRemoving
    <3>2. CASE ReadWorker(t)
      <4>1. t.op \notin {"insert", "remove"} /\ pairs' = pairs
        BY <3>2, TestAssumption DEF ReadWorker, Runs
      <4>. QED
        BY <2>1, <4>1, RunCounts
    <3>. QED
      BY <1>4, <3>1, <3>2, RunOps DEF RunStep
  <2>. QED
    BY <1>1, <1>4, <2>2 DEF MapInv
<1>5. CASE round = 3
  BY <1>1, <1>2, <1>5, RunExtending DEF MapInv
<1>6. CASE round = 4
  BY <1>1, <1>2, <1>6, RunClearing DEF MapInv
<1>7. CASE round \in 5 .. 7
  <2>1. ReadWorker(t)
    BY <1>7, RunOps DEF RunStep
  <2>2. Empty'
    BY <1>1, <1>7, <2>1 DEF MapInv, ReadWorker, Empty
  <2>. QED
    BY <1>1, <1>7, <2>2 DEF MapInv
<1>. QED
  BY <1>1, <1>3, <1>4, <1>5, <1>6, <1>7
-----------------------------------------------------------------------------
\* A thread that runs logs one timing.
LEMMA RunTiming ==
    ASSUME TestInv, NEW t \in waiting, RunStep(t)
    PROVE  \E x : /\ log' = log \cup {x}
                  /\ x.before = nWrites /\ x.key = t.key /\ x.pos = t.pos /\ x.round = round
                  /\ nWrites' \in {nWrites, nWrites + 1}
                  /\ x.op = "insert" => InsertWorker(t) /\ nWrites' = nWrites + 1
                  /\ x.op \in FindOps => x.op = t.op /\ x.result = Found(t)
<1>1. CASE ReadWorker(t)
  <2> DEFINE x == Timing(t.op, t.key, t.pos, Found(t))
  <2>1. log' = log \cup {x} /\ nWrites' = nWrites
    BY <1>1 DEF ReadWorker, HasRead, Push
  <2>2. t.op # "insert"
    BY <1>1, TestAssumption DEF ReadWorker, Runs
  <2>3. /\ x.before = nWrites /\ x.key = t.key /\ x.pos = t.pos /\ x.round = round
        /\ x.op = t.op /\ x.result = Found(t)
    BY DEF Timing
  <2>. QED
    BY <2>1, <2>2, <2>3
<1>2. CASE InsertWorker(t)
  <2> DEFINE x == Timing("insert", t.key, t.pos, {})
  <2>1. log' = log \cup {x} /\ nWrites' = nWrites + 1
    BY <1>2 DEF InsertWorker, Wrote, Push, Runs
  <2>2. /\ x.before = nWrites /\ x.key = t.key /\ x.pos = t.pos /\ x.round = round
        /\ x.op = "insert"
    BY DEF Timing
  <2>. QED
    BY <1>2, <2>1, <2>2 DEF FindOps
<1>3. ASSUME RemoveWorker(t) \/ CapacityWorker(t) \/ ExtendWorker(t) \/ ClearWorker(t)
      PROVE  \E o \in {"remove", "capacity", "extend", "clear"} : \E res :
                log' = log \cup {Timing(o, t.key, t.pos, res)}
                /\ nWrites' \in {nWrites, nWrites + 1}
  <2>1. CASE RemoveWorker(t)
    BY <2>1 DEF RemoveWorker, Wrote, Push, Runs
  <2>2. CASE CapacityWorker(t)
    BY <2>2 DEF CapacityWorker, Push
  <2>3. CASE ExtendWorker(t)
    BY <2>3 DEF ExtendWorker, Wrote, Push, Runs
  <2>4. CASE ClearWorker(t)
    BY <2>4 DEF ClearWorker, Wrote, Push, Runs
  <2>. QED
    BY <1>3, <2>1, <2>2, <2>3, <2>4
<1>4. CASE RemoveWorker(t) \/ CapacityWorker(t) \/ ExtendWorker(t) \/ ClearWorker(t)
  <2>0. PICK o \in {"remove", "capacity", "extend", "clear"} :
           \E res : /\ log' = log \cup {Timing(o, t.key, t.pos, res)}
                   /\ nWrites' \in {nWrites, nWrites + 1}
    BY <1>3, <1>4
  <2>1. PICK res : /\ log' = log \cup {Timing(o, t.key, t.pos, res)}
                   /\ nWrites' \in {nWrites, nWrites + 1}
    BY <2>0
  <2> DEFINE x == Timing(o, t.key, t.pos, res)
  <2>2. /\ x.before = nWrites /\ x.key = t.key /\ x.pos = t.pos /\ x.round = round
        /\ x.op = o /\ o # "insert" /\ o \notin FindOps
    BY DEF Timing, FindOps
  <2> HIDE DEF x
  <2>3. log' = log \cup {x}
    BY <2>1 DEF x
  <2>. QED
    BY <2>1, <2>2, <2>3
<1>. QED
  BY <1>1, <1>2, <1>4 DEF RunStep

\* A finder gets pairs of its key that are in the map; find gets one if there
\* are enough of them.
LEMMA FoundIsPresent ==
    ASSUME NEW t
    PROVE  /\ Found(t) \subseteq Range(pairs[t.key])
           /\ t.op = "find" /\ t.pos + 1 \in DOMAIN pairs[t.key] => Found(t) # {}
<1>1. Found(t) \subseteq Range(pairs[t.key])
  <2>1. CASE t.op = "find"
    BY <2>1 DEF Found, Range
  <2>2. CASE t.op = "equalRange"
    BY <2>2 DEF Found, Range
  <2>3. CASE t.op = "operator[]"
    BY <2>3 DEF Found
  <2>4. CASE t.op \notin {"find", "equalRange", "operator[]"}
    <3>1. Found(t) = {}
      BY <2>4 DEF Found
    <3>. QED
      BY <3>1
  <2>. QED
    BY <2>1, <2>2, <2>3, <2>4
<1>2. t.op = "find" /\ t.pos + 1 \in DOMAIN pairs[t.key] => Found(t) # {}
  BY DEF Found
<1>. QED
  BY <1>1, <1>2

LEMMA RunLog ==
    ASSUME TestInv, NEW t \in waiting, RunStep(t)
    PROVE  LogInv'
<1>1. /\ pc = "run" /\ pc' = "run" /\ round' = round /\ round \in 1 .. 7
      /\ t.key \in Keys /\ t.pos \in WorkerPositions /\ LogInv /\ TypeInv /\ MapInv
  BY RunFrame DEF TestInv
<1>2. PICK x : /\ log' = log \cup {x}
               /\ x.before = nWrites /\ x.key = t.key /\ x.pos = t.pos /\ x.round = round
               /\ nWrites' \in {nWrites, nWrites + 1}
               /\ x.op = "insert" => InsertWorker(t) /\ nWrites' = nWrites + 1
               /\ x.op \in FindOps => x.op = t.op /\ x.result = Found(t)
  BY RunTiming
<1>3. \A y \in log' : /\ y.before \in Int /\ y.before <= nWrites'
                      /\ y.op = "insert" => y.before < nWrites'
  <2>1. nWrites \in Nat
    BY <1>1 DEF TypeInv
  <2>2. \A y \in log : /\ y.before \in Int /\ y.before <= nWrites
                       /\ y.op = "insert" => y.before < nWrites
    BY <1>1 DEF LogInv
  <2>. QED
    BY <1>2, <2>1, <2>2
<1>4. round = 2 => \A f \in log' : f.op = "find" => f.round = 2
  BY <1>1, <1>2 DEF LogInv
<1>5. round = 3 => \A f \in log' : f.op = "find" /\ f.result = {} => f.round = 2
  <2> SUFFICES ASSUME round = 3, x.op = "find", x.result = {} PROVE FALSE
    BY <1>1, <1>2 DEF LogInv
  <2>1. t.op = "find" /\ Found(t) = {}
    BY <1>2 DEF FindOps
  <2>2. Extending
    BY <1>1 DEF MapInv, Started
  <2>3. DOMAIN pairs[t.key] = 1 .. nCount
    BY <1>1, <2>2 DEF Extending
  <2>4. t.pos + 1 \in 1 .. nCount
    BY <1>1, TestAssumption DEF WorkerPositions
  <2>. QED
    BY <2>1, <2>3, <2>4, FoundIsPresent
<1>6. round \in {1, 4} =>
          \A f, w \in log' : InsertedLater(f, w) => \A p \in f.result : p.value # w.pos
  <2> SUFFICES ASSUME round \in {1, 4}, NEW f \in log', NEW w \in log', InsertedLater(f, w),
                      NEW p \in f.result
               PROVE  p.value # w.pos
    OBVIOUS
  <2>0. f.op \in FindOps /\ w.op = "insert" /\ f.key = w.key /\ f.before <= w.before
    BY DEF InsertedLater
  <2>1. CASE f \in log /\ w \in log
    BY <1>1, <2>1 DEF LogInv
  <2>2. CASE f = x /\ w \in log
    <3>1. w.before \in Int /\ w.before < nWrites
      BY <1>1, <2>0, <2>2 DEF LogInv
    <3>. QED
      BY <1>1, <1>2, <2>0, <2>2, <3>1 DEF TypeInv
  <2>3. CASE f \in log /\ w = x
    <3>1. InsertWorker(t) /\ w.pos = t.pos /\ t.key = f.key
      BY <1>2, <2>0, <2>3
    <3>2. t \in WaitingFor("insert", f.key)
      BY <3>1 DEF InsertWorker, Runs, WaitingFor
    <3>3. round = 1
      BY <3>1, RunOps
    <3>. QED
      BY <1>1, <2>0, <2>3, <3>1, <3>2, <3>3 DEF LogInv
  <2>4. CASE f = x /\ w = x
    BY <2>0, <2>4 DEF FindOps
  <2>. QED
    BY <1>2, <2>1, <2>2, <2>3, <2>4
<1>7. round = 1 =>
          \A f \in log' : \A u \in WaitingFor("insert", f.key)' :
              f.op \in FindOps => \A p \in f.result : p.value # u.pos
  <2> SUFFICES ASSUME round = 1, NEW f \in log', NEW u \in WaitingFor("insert", f.key)',
                      f.op \in FindOps, NEW p \in f.result
               PROVE  p.value # u.pos
    OBVIOUS
  <2>1. u \in WaitingFor("insert", f.key)
    <3>1. \A k : WaitingFor("insert", k)' = WaitingFor("insert", k) \ {t}
      BY RunWaiting
    <3>. QED
      BY <3>1
  <2>2. CASE f \in log
    BY <1>1, <2>1, <2>2 DEF LogInv
  <2>3. CASE f = x
    <3>1. p \in Range(pairs[t.key]) /\ f.key = t.key
      BY <1>2, <2>3, FoundIsPresent
    <3>2. Inserting
      BY <1>1 DEF MapInv, Started
    <3>3. p.value \in {v \in WorkerPositions : \A s \in WaitingFor("insert", t.key) : s.pos # v}
      <4>1. {q.value : q \in Range(pairs[t.key])}
              = {v \in WorkerPositions : \A s \in WaitingFor("insert", t.key) : s.pos # v}
        BY <1>1, <3>2 DEF Inserting
      <4>. QED
        BY <3>1, <4>1
    <3>. QED
      BY <2>1, <3>1, <3>3
  <2>. QED
    BY <1>2, <2>2, <2>3
<1>. QED
  BY <1>1, <1>3, <1>4, <1>5, <1>6, <1>7 DEF LogInv, InsertedLater

LEMMA RunCheck ==
    ASSUME TestInv, NEW t \in waiting, RunStep(t)
    PROVE  CheckInv'
  BY RunFrame DEF TestInv, CheckInv
-----------------------------------------------------------------------------
(***************************************************************************)
(* main.                                                                   *)
(***************************************************************************)
LEMMA InitTest == Init => TestInv
<1> SUFFICES ASSUME Init PROVE TestInv
  OBVIOUS
<1>1. Len(Rounds) = 7
  BY RoundTable
<1>2. TypeInv
  <2>1. <<>> \in Seq([value : Int, round : 1 .. Len(Rounds)])
    OBVIOUS
  <2>. QED
    BY <1>1, <2>1, TestAssumption DEF Init, TypeInv
<1>3. ThreadsInv
  BY DEF Init, ThreadsInv
<1>4. MapInv
  BY DEF Init, MapInv, Empty, Started
<1>5. LogInv
  BY DEF Init, LogInv
<1>6. CheckInv
  BY DEF Init, CheckInv
<1>. QED
  BY <1>2, <1>3, <1>4, <1>5, <1>6 DEF TestInv

\* The timings of the insertions before a round: numbered in the order of the
\* insertions, so that each comes before the thread that runs first.
LEMMA InsertTimingsFacts ==
    ASSUME TypeInv
    PROVE  /\ Cardinality(InsertTimings) \in Nat
           /\ \A x \in InsertTimings :
                 /\ x.op = "insert" /\ x.before \in Int
                 /\ x.before < nWrites + Cardinality(InsertTimings)
<1> DEFINE below(k) == {j \in Keys : j < k}
           number(k, v) == nCount * Cardinality(below(k)) + v
           timing(k, v) == [Timing("insert", k, v, {}) EXCEPT !.before = nWrites + number(k, v)]
           V == 0 .. nCount - 1
           K == Cardinality(Keys)
           f == [kv \in Keys \X V |-> timing(kv[1], kv[2])]
<1>1. nCount \in Nat /\ nCount > 1 /\ nWrites \in Nat /\ K \in Nat /\ IsFiniteSet(Keys)
  BY TestAssumption, FS_CardinalityType DEF TypeInv
<1>2. IsFiniteSet(V) /\ Cardinality(V) = nCount
  <2>1. nCount - 1 \in Int /\ ~ (0 > nCount - 1) /\ (nCount - 1) - 0 + 1 = nCount
    BY <1>1
  <2>. QED
    BY <2>1, FS_Interval
<1>3. InsertTimings = {timing(k, v) : k \in Keys, v \in V}
  BY DEF InsertTimings
<1>4. \A k \in Keys, v \in V :
         timing(k, v).op = "insert" /\ timing(k, v).before = nWrites + number(k, v)
  BY DEF Timing
<1>11. \A k \in Keys, v \in V : timing(k, v).key = k /\ timing(k, v).pos = v
  BY DEF Timing
<1> HIDE DEF timing, V
<1>5. f \in Bijection(Keys \X V, InsertTimings)
  <2>1. f \in [Keys \X V -> InsertTimings]
    BY <1>3
  <2>2. \A x, y \in Keys \X V : f[x] = f[y] => x = y
    <3> SUFFICES ASSUME NEW x \in Keys \X V, NEW y \in Keys \X V, f[x] = f[y] PROVE x = y
      OBVIOUS
    <3>1. PICK k \in Keys, v \in V : x = <<k, v>>
      OBVIOUS
    <3>2. PICK j \in Keys, u \in V : y = <<j, u>>
      OBVIOUS
    <3>3. f[x] = timing(k, v) /\ f[y] = timing(j, u)
      BY <3>1, <3>2
    <3> HIDE DEF f
    <3>4. timing(k, v) = timing(j, u)
      BY <3>3
    <3>5. timing(k, v).key = k /\ timing(k, v).pos = v
      BY <1>11
    <3>6. timing(j, u).key = j /\ timing(j, u).pos = u
      BY <1>11
    <3>7. k = j /\ v = u
      BY <3>4, <3>5, <3>6, Zenon
    <3>. QED
      BY <3>1, <3>2, <3>7
  <2>3. \A x \in InsertTimings : \E kv \in Keys \X V : f[kv] = x
    <3> SUFFICES ASSUME NEW k \in Keys, NEW v \in V
                 PROVE  \E kv \in Keys \X V : f[kv] = timing(k, v)
      BY <1>3
    <3>1. <<k, v>> \in Keys \X V /\ f[<<k, v>>] = timing(k, v)
      OBVIOUS
    <3>. QED
      BY <3>1
  <2> HIDE DEF f
  <2>. QED
    BY <2>1, <2>2, <2>3 DEF Bijection, Injection, Surjection, IsInjective
<1>6. IsFiniteSet(Keys \X V) /\ Cardinality(Keys \X V) = K * nCount
  BY <1>1, <1>2, FS_Product
<1>7. Cardinality(InsertTimings) = K * nCount
  <2>1. ExistsBijection(Keys \X V, InsertTimings)
    BY <1>5 DEF ExistsBijection
  <2>. QED
    BY <1>6, <2>1, FS_Bijection
<1>8. ASSUME NEW k \in Keys, NEW v \in V
      PROVE  number(k, v) \in Nat /\ number(k, v) < K * nCount
  <2>1. below(k) \in SUBSET Keys /\ below(k) # Keys
    BY TestAssumption
  <2>2. IsFiniteSet(below(k)) /\ Cardinality(below(k)) <= K /\ Cardinality(below(k)) # K
    BY <1>1, <2>1, FS_Subset
  <2>3. Cardinality(below(k)) \in Nat
    BY <2>2, FS_CardinalityType
  <2> DEFINE b == Cardinality(below(k))
  <2>4. b \in Nat /\ b + 1 <= K /\ v \in Nat /\ v < nCount
    BY <1>1, <2>2, <2>3 DEF V
  <2> HIDE DEF b, K
  <2>5. \A l, m, n \in Nat : l + 1 <= m => n * l + n <= m * n
    <3> SUFFICES ASSUME NEW l \in Nat, NEW m \in Nat, NEW n \in Nat, l + 1 <= m
                 PROVE  n * l + n <= m * n
      OBVIOUS
    <3>1. m - (l + 1) \in Nat
      OBVIOUS
    <3>2. n * (m - (l + 1)) >= 0
      BY <3>1
    <3>3. n * (m - (l + 1)) = m * n - (n * l + n)
      OBVIOUS
    <3>4. m * n \in Int /\ n * l + n \in Int
      OBVIOUS
    <3>. QED
      BY <3>2, <3>3, <3>4
  <2>6. nCount * b + nCount <= K * nCount
    BY <1>1, <2>4, <2>5
  <2>7. nCount * b \in Nat /\ K * nCount \in Nat
    BY <1>1, <2>4
  <2>8. nCount * b + v \in Nat /\ nCount * b + v < K * nCount
    BY <1>1, <2>4, <2>6, <2>7
  <2>. QED
    BY <2>8 DEF b
<1>9. K * nCount \in Nat
  BY <1>1
<1> HIDE DEF number, K
<1>10. ASSUME NEW x \in InsertTimings
       PROVE  /\ x.op = "insert" /\ x.before \in Int
              /\ x.before < nWrites + Cardinality(InsertTimings)
  <2>1. PICK k \in Keys, v \in V : x = timing(k, v)
    BY <1>3
  <2>2. x.op = "insert" /\ x.before = nWrites + number(k, v)
    BY <1>4, <2>1
  <2>. QED
    BY <1>1, <1>7, <1>8, <1>9, <2>2
<1>. QED
  BY <1>7, <1>9, <1>10

LEMMA StartMap ==
    ASSUME TestInv, StartRound
    PROVE  TypeInv' /\ MapInv'
<1> DEFINE P == [value : Int, round : 1 .. Len(Rounds)]
<1>0. /\ pc = "start" /\ pc' = "run" /\ round' = round /\ round \in 1 .. 7
      /\ round \in 1 .. Len(Rounds) /\ nCapacity' = nCapacity /\ waiting' = ThreadsOf(Round)
      /\ pairs \in [Keys -> Seq(P)]
  BY RoundTable DEF StartRound, TestInv, TypeInv
<1>1. nCount \in Nat /\ nCount > 1
  BY TestAssumption
<1>2. round \in {3, 4} => \A k \in Keys : pairs'[k] = [v \in 1 .. nCount |-> NewPair(v - 1)]
  <2> SUFFICES ASSUME round \in {3, 4}, NEW k \in Keys
               PROVE  pairs'[k] = [v \in 1 .. nCount |-> NewPair(v - 1)]
    OBVIOUS
  <2> DEFINE new == [v \in 1 .. nCount |-> NewPair(v - 1)]
  <2>1. pairs[k] = <<>>
    BY <1>0 DEF TestInv, MapInv, Empty
  <2>2. pairs'[k] = pairs[k] \o new
    BY <1>0, RoundFacts DEF StartRound, InsertsBefore
  <2>3. new \in Seq(P)
    <3>1. \A v \in 1 .. nCount : NewPair(v - 1) \in P
      BY <1>0, <1>1 DEF NewPair
    <3> HIDE DEF P
    <3>. QED
      BY <1>1, <3>1, IsASeq
  <2> HIDE DEF new, P
  <2>4. <<>> \o new = new
    BY <2>3, ConcatEmptySeq
  <2>5. pairs'[k] = new
    BY <2>1, <2>2, <2>4
  <2>. QED
    BY <2>5 DEF new
<1>3. round \notin {3, 4} => pairs' = pairs
  BY <1>0, RoundFacts DEF StartRound
<1>4. TypeInv'
  <2>1. pairs' \in [Keys -> Seq(P)]
    <3>1. CASE round \in {3, 4}
      <4>1. pairs' = [k \in Keys |-> pairs'[k]]
        BY <1>0, <3>1, RoundFacts DEF StartRound, InsertsBefore
      <4>2. \A v \in 1 .. nCount : NewPair(v - 1) \in P
        BY <1>0, <1>1 DEF NewPair
      <4>3. \A k \in Keys : pairs'[k] \in Seq(P)
        <5> HIDE DEF P
        <5>1. [v \in 1 .. nCount |-> NewPair(v - 1)] \in Seq(P)
          BY <1>1, <4>2, IsASeq
        <5>. QED
          BY <1>2, <3>1, <5>1
      <4> HIDE DEF P
      <4>. QED
        BY <4>1, <4>3
    <3>2. CASE round \notin {3, 4}
      BY <1>0, <1>3, <3>2
    <3>. QED
      BY <3>1, <3>2
  <2>2. nWrites' \in Nat
    <3>1. TypeInv /\ nWrites \in Nat
      BY DEF TestInv, TypeInv
    <3>2. nWrites' = nWrites \/ nWrites' = nWrites + Cardinality(InsertTimings)
      BY DEF StartRound, InsertsBefore
    <3>3. Cardinality(InsertTimings) \in Nat
      BY <3>1, InsertTimingsFacts
    <3>. QED
      BY <3>1, <3>2, <3>3
  <2>. QED
    BY <1>0, <2>1, <2>2 DEF TestInv, TypeInv
<1>5. Started' /\ Round' = Round
  BY <1>0 DEF Started, Round
<1>6. CASE round = 1
  <2>1. Round.worker = "insert" /\ Round.worker \notin Finders /\ pairs' = pairs
    BY <1>0, <1>3, <1>6, RoundFacts, TestAssumption
  <2>2. Inserting'
    <3> SUFFICES ASSUME NEW k \in Keys
                 PROVE  /\ IsFiniteSet(WaitingFor("insert", k)')
                        /\ Len(pairs'[k]) + Cardinality(WaitingFor("insert", k)') = nCount - 1
                        /\ {p.value : p \in Range(pairs'[k])}
                             = {v \in WorkerPositions :
                                   \A u \in WaitingFor("insert", k)' : u.pos # v}
      BY DEF Inserting, WorkerPositions
    <3>1. pairs'[k] = <<>>
      BY <1>0, <1>6, <2>1 DEF TestInv, MapInv, Empty
    <3>2. WaitingFor("insert", k)' = {t \in ThreadsOf(Round) : t.op = Round.worker /\ t.key = k}
      BY <1>0, <2>1 DEF WaitingFor
    <3>3. /\ IsFiniteSet(WaitingFor("insert", k)')
          /\ Cardinality(WaitingFor("insert", k)') = nCount - 1
          /\ \A v \in WorkerPositions : \E t \in WaitingFor("insert", k)' : t.pos = v
      BY <1>0, <2>1, <3>2, WorkersOfKey
    <3>4. Len(pairs'[k]) = 0 /\ {p.value : p \in Range(pairs'[k])} = {}
      BY <3>1 DEF Range
    <3>5. {v \in WorkerPositions : \A u \in WaitingFor("insert", k)' : u.pos # v} = {}
      BY <3>3
    <3>6. Len(pairs'[k]) + Cardinality(WaitingFor("insert", k)') = nCount - 1
      BY <1>1, <3>3, <3>4
    <3>. QED
      BY <3>3, <3>4, <3>5, <3>6, Zenon
  <2>. QED
    BY <1>0, <1>4, <1>6, <2>2 DEF MapInv
<1>7. CASE round = 2
  <2>1. Round.worker = "remove" /\ Round.worker \notin Finders /\ pairs' = pairs
    BY <1>0, <1>3, <1>7, RoundFacts, TestAssumption
  <2>2. Removing'
    <3> SUFFICES ASSUME NEW k \in Keys
                 PROVE  /\ IsFiniteSet(WaitingFor("remove", k)')
                        /\ Len(pairs'[k]) = Cardinality(WaitingFor("remove", k)')
      BY DEF Removing
    <3>1. Len(pairs'[k]) = nCount - 1
      BY <1>0, <1>7, <2>1 DEF TestInv, MapInv
    <3>2. WaitingFor("remove", k)' = {t \in ThreadsOf(Round) : t.op = Round.worker /\ t.key = k}
      BY <1>0, <2>1 DEF WaitingFor
    <3>. QED
      BY <1>0, <2>1, <3>1, <3>2, WorkersOfKey
  <2>. QED
    BY <1>0, <1>4, <1>7, <2>2 DEF MapInv
<1>8. CASE round = 3
  <2>1. \E t \in waiting' : t.op = "capacityToExtend"
    BY <1>0, <1>8, SomeWorker, RoundFacts
  <2>2. Extending'
    BY <1>0, <1>2, <1>8, <2>1 DEF Extending, NewPair
  <2>. QED
    BY <1>0, <1>4, <1>8, <2>2 DEF MapInv
<1>9. CASE round = 4
  <2>1. \E t \in waiting' : t.op = "clear"
    BY <1>0, <1>9, SomeWorker, RoundFacts
  <2>. QED
    BY <1>0, <1>4, <1>9, <2>1 DEF MapInv, Clearing
<1>10. CASE round \in 5 .. 7
  <2>1. Empty'
    BY <1>0, <1>3, <1>10 DEF TestInv, MapInv, Empty
  <2>. QED
    BY <1>0, <1>4, <1>10, <2>1 DEF MapInv
<1>. QED
  BY <1>0, <1>4, <1>6, <1>7, <1>8, <1>9, <1>10

LEMMA StartLog ==
    ASSUME TestInv, StartRound
    PROVE  ThreadsInv' /\ LogInv' /\ CheckInv'
<1>0. /\ pc = "start" /\ pc' = "run" /\ round' = round /\ round \in 1 .. 7 /\ Round' = Round
      /\ waiting' = ThreadsOf(Round) /\ blamed' = blamed /\ nWrites \in Nat
      /\ round \in 1 .. Len(Rounds)
  BY RoundTable DEF StartRound, TestInv, TypeInv, Round
<1>1. ThreadsInv'
  <2>1. \A t \in ThreadsOf(Round) :
           /\ t \in [op : Finders \cup {Round.worker, "capacityToExtend"},
                     key : Keys, pos : WorkerPositions, n : Nat]
           /\ t.op = "capacityToExtend" => Round.worker = "extend"
           /\ t.op # "extend" /\ t.n = 0
    <3>1. Finders \subseteq {"find", "equalRange", "operator[]"}
      BY TestAssumption
    <3>2. Round.worker # "capacityToExtend"
      BY <1>0, RoundFacts
    <3>. QED
      BY <3>1, <3>2 DEF ThreadsOf
  <2>. QED
    BY <1>0, <2>1 DEF ThreadsInv, WorkerPositions
<1>2. CheckInv'
  BY <1>0 DEF TestInv, CheckInv
<1>3. CASE round \in {3, 4}
  <2>1. log' = log \cup InsertTimings /\ nWrites' = nWrites + Cardinality(InsertTimings)
    BY <1>0, <1>3, RoundFacts DEF StartRound, InsertsBefore, Push
  <2>2. /\ Cardinality(InsertTimings) \in Nat
        /\ \A x \in InsertTimings : /\ x.op = "insert" /\ x.before \in Int
                                    /\ x.before < nWrites'
    BY <2>1, InsertTimingsFacts DEF TestInv
  <2>3. \A x \in log' : /\ x.before \in Int /\ x.before <= nWrites'
                        /\ x.op = "insert" => x.before < nWrites'
    <3>1. \A x \in log : /\ x.before \in Int /\ x.before <= nWrites
                         /\ x.op = "insert" => x.before < nWrites
      BY DEF TestInv, LogInv
    <3>2. nWrites' \in Nat /\ nWrites' >= nWrites
      BY <1>0, <2>1, <2>2
    <3>. QED
      BY <1>0, <2>1, <2>2, <3>1, <3>2
  <2>4. round = 3 => \A f \in log' : f.op = "find" => f.round = 2
    BY <1>0, <2>1, <2>2 DEF TestInv, LogInv
  <2>5. round = 4 => \A f \in log' : f.op \notin FindOps
    BY <1>0, <2>1, <2>2 DEF TestInv, LogInv, FindOps
  <2>. QED
    BY <1>0, <1>1, <1>2, <1>3, <2>3, <2>4, <2>5 DEF LogInv, InsertedLater
<1>4. CASE round \notin {3, 4}
  <2>1. log' = log /\ nWrites' = nWrites
    BY <1>0, <1>4, RoundFacts DEF StartRound
  <2>2. round = 1 => log = {}
    BY <1>0 DEF TestInv, LogInv
  <2>. QED
    BY <1>0, <1>1, <1>2, <1>4, <2>1, <2>2 DEF LogInv, TestInv
<1>. QED
  BY <1>3, <1>4
LEMMA CheckSteps ==
    ASSUME TestInv, CheckWriter \/ CheckEnd \/ Return
    PROVE  TypeInv' /\ ThreadsInv' /\ MapInv'
<1>0. /\ UNCHANGED <<round, pairs, nCapacity, nWrites, waiting>>
      /\ pc \in {"check", "return"} /\ pc' \in {"check", "return", "main"}
  BY DEF CheckWriter, CheckEnd, Return
<1>1. Started /\ Started' /\ Round' = Round /\ waiting = {}
  BY <1>0 DEF Started, Round, TestInv, ThreadsInv
<1>2. TypeInv'
  BY <1>0 DEF TestInv, TypeInv
<1>3. ThreadsInv'
  BY <1>0, <1>1 DEF ThreadsInv
<1>4. MapInv'
  <2>1. /\ Inserting <=> Inserting'
        /\ Removing <=> Removing'
        /\ Extending <=> Extending'
        /\ Clearing <=> Clearing'
        /\ Empty <=> Empty'
    BY <1>0 DEF Inserting, Removing, Extending, Clearing, Empty, WaitingFor, NewPair, WorkerPositions
  <2>. QED
    BY <1>0, <1>1, <2>1 DEF TestInv, MapInv
<1>. QED
  BY <1>2, <1>3, <1>4

\* The finders a turn of the check complains of.
Complaints(w, finders) ==
    IF Round.check = "insert" THEN InsertComplaints(w, finders) ELSE ExtendComplaints(finders)

\* They have missed a pair in the removing round.
LEMMA ComplaintsAreStale ==
    ASSUME TestInv, pc = "check", NEW w \in vWriters,
           NEW f \in Complaints(w, FilterParallelWorkersByType(w, FindOps))
    PROVE  round = 3 /\ f.op = "find" /\ f.round = 2
<1>1. /\ w \in log /\ w.op = Round.check /\ f \in log /\ f.op \in FindOps
      /\ round \in 1 .. 7 /\ round \in 1 .. Len(Rounds) /\ Round.check # "none" /\ LogInv
  BY RoundTable DEF TestInv, CheckInv, TypeInv, FilterByType, Complaints,
                    InsertComplaints, ExtendComplaints, FilterParallelWorkersByType
<1>2. CASE Round.check = "insert"
  <2>1. round \in {1, 4} /\ w.op = "insert"
    BY <1>1, <1>2, RoundFacts
  <2>2. FoundBefore(f, w)
    BY <1>2 DEF Complaints, InsertComplaints
  <2>3. PICK p \in f.result : p.value = w.pos
    BY <2>2 DEF FoundBefore
  <2>4. InsertedLater(f, w)
    BY <1>1, <2>1, <2>2 DEF FoundBefore, InsertedLater
  <2>. QED
    BY <1>1, <2>1, <2>3, <2>4 DEF LogInv
<1>3. CASE Round.check = "extend"
  <2>1. round = 3
    BY <1>1, <1>3, RoundFacts
  <2>2. f.op = "find" /\ f.result = {}
    BY <1>3 DEF Complaints, ExtendComplaints
  <2>. QED
    BY <1>1, <2>1, <2>2 DEF LogInv
<1>. QED
  BY <1>1, <1>2, <1>3, RoundFacts

LEMMA CheckLogs ==
    ASSUME TestInv, CheckWriter \/ CheckEnd \/ Return
    PROVE  LogInv' /\ CheckInv'
<1>0. /\ UNCHANGED <<round, nWrites>> /\ round \in 1 .. 7 /\ Round' = Round
  BY RoundTable DEF CheckWriter, CheckEnd, Return, TestInv, TypeInv, Round
<1>1. CASE CheckWriter
  <2>0. pc = "check" /\ pc' = "check" /\ log' = log /\ vWriters' = vWriters
    BY <1>1 DEF CheckWriter
  <2>1. LogInv'
    BY <1>0, <2>0 DEF TestInv, LogInv, InsertedLater
  <2>2. PICK w \in vWriters :
           blamed' = blamed \cup Complaints(w, FilterParallelWorkersByType(w, FindOps))
    BY <1>1 DEF CheckWriter, Complaints
  <2>3. \A f \in blamed' : round = 3 /\ f.op = "find" /\ f.round = 2
    BY <2>0, <2>2, ComplaintsAreStale DEF TestInv, CheckInv
  <2>. QED
    BY <1>0, <2>0, <2>1, <2>3 DEF TestInv, CheckInv, FilterByType
<1>2. CASE CheckEnd
  <2>0. pc' = "return" /\ log' = {} /\ blamed' = blamed
    BY <1>2 DEF CheckEnd
  <2>. QED
    BY <1>0, <2>0 DEF TestInv, LogInv, CheckInv
<1>3. CASE Return
  <2>0. pc = "return" /\ pc' = "main" /\ log' = log /\ blamed' = blamed
    BY <1>3 DEF Return
  <2>. QED
    BY <1>0, <2>0 DEF TestInv, LogInv, CheckInv
<1>. QED
  BY <1>1, <1>2, <1>3

LEMMA JoinTest ==
    ASSUME TestInv, JoinThreads
    PROVE  TestInv'
<1>0. /\ UNCHANGED <<round, pairs, nCapacity, nWrites, waiting, log, blamed>>
      /\ pc = "run" /\ pc' \in {"main", "check"} /\ waiting = {}
      /\ Round.check = "none" => pc' = "main"
      /\ pc' = "check" => Round.check # "none" /\ vWriters' = FilterByType(Round.check)
      /\ Round.check # "none" => pc' = "check"
  BY DEF JoinThreads
<1>1. Started /\ Started' /\ Round' = Round
  BY <1>0 DEF Started, Round
<1>2. TypeInv'
  BY <1>0 DEF TestInv, TypeInv
<1>3. ThreadsInv'
  BY <1>0, <1>1 DEF ThreadsInv
<1>4. MapInv'
  <2>1. /\ Inserting <=> Inserting'
        /\ Removing <=> Removing'
        /\ Extending <=> Extending'
        /\ Clearing <=> Clearing'
        /\ Empty <=> Empty'
    BY <1>0 DEF Inserting, Removing, Extending, Clearing, Empty, WaitingFor, NewPair, WorkerPositions
  <2>. QED
    BY <1>0, <1>1, <2>1 DEF TestInv, MapInv
<1>5. LogInv'
  BY <1>0, <1>1 DEF TestInv, LogInv, InsertedLater
<1>6. CheckInv'
  BY <1>0, <1>1 DEF TestInv, CheckInv, FilterByType
<1>. QED
  BY <1>2, <1>3, <1>4, <1>5, <1>6 DEF TestInv

\* After a round, the map is what the next one starts from.
LEMMA MainTest ==
    ASSUME TestInv, Main
    PROVE  TestInv'
<1> DEFINE P == [value : Int, round : 1 .. Len(Rounds)]
           sizes == {Timing("size", NoKey, c, {}) : c \in 1 .. SizeCalls}
           clears == IF Round.clears THEN {Timing("clear", NoKey, 0, {})} ELSE {}
<1>0. /\ pc = "main" /\ waiting = {} /\ waiting' = {} /\ blamed' = {}
      /\ round \in 1 .. 7 /\ round \in 1 .. Len(Rounds) /\ nWrites \in Nat
      /\ pairs \in [Keys -> Seq(P)] /\ MapInv /\ LogInv /\ Started
  BY RoundTable DEF Main, TestInv, ThreadsInv, TypeInv, Started
<1>1. \/ round < 7 /\ round' = round + 1 /\ pc' = "start"
      \/ round = 7 /\ round' = 7 /\ pc' = "end"
  BY <1>0, RoundTable DEF Main
<1>2. round' \in 1 .. 7
  BY <1>0, <1>1
<1>3. /\ round \in {2, 3} => /\ pairs' = [k \in Keys |-> <<>>]
                             /\ nCapacity' = DefaultCapacity /\ nWrites' = nWrites + 1
      /\ round \notin {2, 3} => UNCHANGED <<pairs, nCapacity, nWrites>>
  BY <1>0, RoundFacts DEF Main
<1>4. TypeInv'
  <2>1. pairs' \in [Keys -> Seq(P)]
    <3>1. <<>> \in Seq(P)
      OBVIOUS
    <3> HIDE DEF P
    <3>. QED
      BY <1>0, <1>3, <3>1
  <2>2. pc' \in {"start", "end"} /\ nWrites' \in Nat
    BY <1>0, <1>1, <1>3
  <2>3. nCapacity' \in Nat /\ nCapacity' >= DefaultCapacity
    BY <1>3, TestAssumption DEF TestInv, TypeInv
  <2>. QED
    BY <1>2, <2>1, <2>2, <2>3, RoundTable DEF TypeInv
<1>5. ThreadsInv'
  BY <1>0 DEF ThreadsInv
<1>6. MapInv'
  <2>1. ~ Started'
    BY <1>1 DEF Started
  <2>2. CASE round = 1
    <3>1. Inserting /\ pairs' = pairs
      BY <1>0, <1>3, <2>2 DEF MapInv
    <3>2. \A k \in Keys : Len(pairs'[k]) = nCount - 1
      <4> SUFFICES ASSUME NEW k \in Keys PROVE Len(pairs[k]) = nCount - 1
        BY <3>1
      <4>1. WaitingFor("insert", k) = {}
        BY <1>0 DEF WaitingFor
      <4>2. Cardinality(WaitingFor("insert", k)) = 0
        BY <4>1, FS_EmptySet
      <4>3. Len(pairs[k]) \in Nat
        BY <1>0
      <4>. QED
        BY <3>1, <4>2, <4>3 DEF Inserting
    <3>. QED
      BY <1>1, <2>1, <2>2, <3>2 DEF MapInv
  <2>3. CASE round \in {2, 3}
    <3>1. Empty'
      BY <1>3, <2>3 DEF Empty
    <3>. QED
      BY <1>1, <2>1, <2>3, <3>1 DEF MapInv
  <2>4. CASE round = 4
    <3>1. Empty'
      BY <1>0, <1>3, <2>4 DEF MapInv, Clearing, Empty
    <3>. QED
      BY <1>1, <2>1, <2>4, <3>1 DEF MapInv
  <2>5. CASE round \in 5 .. 7
    <3>1. Empty'
      BY <1>0, <1>3, <2>5 DEF MapInv, Empty
    <3>. QED
      BY <1>1, <2>1, <2>5, <3>1 DEF MapInv
  <2>. QED
    BY <1>0, <2>2, <2>3, <2>4, <2>5
<1>7. LogInv'
  <2>1. log' = log \cup sizes \cup clears
    BY DEF Main, Push
  <2>2. \A x \in sizes \cup clears :
           /\ x.op \in {"size", "clear"} /\ x.before = nWrites /\ x.round = round
    BY DEF Timing
  <2> HIDE DEF sizes, clears
  <2>3. \A x \in log' : /\ x.before \in Int /\ x.before <= nWrites'
                        /\ x.op = "insert" => x.before < nWrites'
    <3>1. nWrites' \in Nat /\ nWrites' >= nWrites
      BY <1>0, <1>3
    <3>2. \A x \in log : /\ x.before \in Int /\ x.before <= nWrites
                         /\ x.op = "insert" => x.before < nWrites
      BY <1>0 DEF LogInv
    <3>. QED
      BY <1>0, <2>1, <2>2, <3>1, <3>2
  <2>4. round \in {1, 3} => log = {}
    BY <1>0, RoundFacts DEF LogInv
  <2>5. round = 2 => \A f \in log : f.op = "find" => f.round = 2
    BY <1>0 DEF LogInv
  <2>. QED
    BY <1>0, <1>1, <2>1, <2>2, <2>3, <2>4, <2>5 DEF LogInv, FindOps
<1>8. CheckInv'
  BY <1>0, <1>1 DEF CheckInv
<1>. QED
  BY <1>4, <1>5, <1>6, <1>7, <1>8 DEF TestInv

LEMMA EndTest ==
    ASSUME TestInv, End
    PROVE  TestInv'
<1>0. /\ UNCHANGED <<round, pairs, nCapacity, nWrites, waiting, blamed>>
      /\ pc = "end" /\ pc' = "ended" /\ log' = {} /\ Round' = Round
  BY DEF End, Round
<1>1. ~ Started /\ ~ Started'
  BY <1>0 DEF Started
<1>2. TypeInv'
  BY <1>0 DEF TestInv, TypeInv
<1>3. ThreadsInv'
  BY <1>0 DEF TestInv, ThreadsInv
<1>4. MapInv'
  BY <1>0, <1>1 DEF TestInv, MapInv, Empty
<1>5. LogInv'
  BY <1>0 DEF LogInv
<1>6. CheckInv'
  BY <1>0 DEF TestInv, CheckInv
<1>. QED
  BY <1>2, <1>3, <1>4, <1>5, <1>6 DEF TestInv

LEMMA NextTest == TestInv /\ [Next]_vars => TestInv'
<1> SUFFICES ASSUME TestInv, [Next]_vars PROVE TestInv'
  OBVIOUS
<1>1. CASE StartRound
  BY <1>1, StartMap, StartLog DEF TestInv
<1>2. CASE JoinThreads
  BY <1>2, JoinTest
<1>3. CASE CheckWriter \/ CheckEnd \/ Return
  BY <1>3, CheckSteps, CheckLogs DEF TestInv
<1>4. CASE Main
  BY <1>4, MainTest
<1>5. CASE End
  BY <1>5, EndTest
<1>6. CASE \E t \in waiting : RunStep(t)
  BY <1>6, RunTypes, RunThreads, RunMap, RunLog, RunCheck DEF TestInv
<1>7. CASE UNCHANGED vars
  <2>1. /\ UNCHANGED <<pc, round, pairs, nCapacity, nWrites, waiting, log, vWriters, blamed>>
        /\ Round' = Round
    BY <1>7 DEF vars, Round
  <2>2. TypeInv' /\ ThreadsInv' /\ LogInv' /\ CheckInv'
    BY <2>1 DEF TestInv, TypeInv, ThreadsInv, WorkerPositions, LogInv, InsertedLater, WaitingFor, CheckInv,
                FilterByType
  <2>3. MapInv'
    BY <2>1 DEF TestInv, MapInv, Inserting, Removing, Extending, Clearing, Empty,
                WaitingFor, NewPair, WorkerPositions, Started
  <2>. QED
    BY <2>2, <2>3 DEF TestInv
<1>. QED
  BY <1>1, <1>2, <1>3, <1>4, <1>5, <1>6, <1>7 DEF Next, RunStep
-----------------------------------------------------------------------------
\* size() of a map without pairs is 0: the sum over the keys adds nothing but 0.
\* (A smallest set of keys with another sum would have a smaller one.)
LEMMA EmptyMap ==
    ASSUME \A k \in Keys : pairs[k] = <<>>
    PROVE  nSize = 0
<1> DEFINE chosen(s) == CHOOSE x \in s : TRUE
           Sums(g) == g = [s \in SUBSET Keys |-> IF s = {} THEN 0
                             ELSE Len(pairs[chosen(s)]) + g[s \ {chosen(s)}]]
           sum == CHOOSE g : Sums(g)
<1>1. nSize = sum[Keys]
  BY DEF nSize, MapThenSumSet, MapThenFoldSet
<1>2. Sums([s \in SUBSET Keys |-> 0])
  <2>1. \A s \in SUBSET Keys : s # {} => chosen(s) \in Keys /\ s \ {chosen(s)} \in SUBSET Keys
    OBVIOUS
  <2> QED BY <2>1
<1>3. Sums(sum)
  BY <1>2
<1> HIDE DEF sum
<1>4. \A s \in SUBSET Keys : sum[s] = IF s = {} THEN 0
                             ELSE Len(pairs[chosen(s)]) + sum[s \ {chosen(s)}]
  BY <1>3
<1> DEFINE Bad == {s \in SUBSET Keys : sum[s] # 0}
<1>5. Bad = {}
  <2> SUFFICES ASSUME Bad # {} PROVE FALSE
    OBVIOUS
  <2>1. PICK s \in Bad : \A u \in Bad : <<u, s>> \notin StrictSubsetOrdering(Keys)
    <3>1. FiniteSubsetsOf(Keys) = SUBSET Keys
      BY FS_FiniteSubsetsOfFinite, TestAssumption
    <3>2. IsWellFoundedOn(StrictSubsetOrdering(Keys), SUBSET Keys)
      BY <3>1, FS_StrictSubsetOrderingWellFounded
    <3>3. Bad \subseteq SUBSET Keys
      OBVIOUS
    <3> HIDE DEF Bad
    <3> QED BY <3>2, <3>3, WFMin
  <2>2. s # {}
    BY <1>4
  <2>3. chosen(s) \in s
    BY <2>2
  <2>4. s \ {chosen(s)} \notin Bad
    BY <2>1, <2>3 DEF StrictSubsetOrdering
  <2>5. sum[s \ {chosen(s)}] = 0
    BY <2>4
  <2>6. Len(pairs[chosen(s)]) = 0
    BY <2>3
  <2>7. s \in SUBSET Keys /\ sum[s] # 0
    OBVIOUS
  <2>8. sum[s] = Len(pairs[chosen(s)]) + sum[s \ {chosen(s)}]
    BY <1>4, <2>2, <2>7
  <2> HIDE DEF chosen, Bad
  <2> QED BY <2>5, <2>6, <2>7, <2>8
<1> QED BY <1>1, <1>5

\* No check blames a finder but one that the removing round left in the log
\* (test:247), however many keys and pairs there are and however the threads
\* interleave.
THEOREM AlarmsAreStale == Spec => []FalseAlarmsAreStale
<1>1. TestInv => FalseAlarmsAreStale
  <2> SUFFICES ASSUME TestInv, NEW f \in blamed
               PROVE  Round.worker = "extend" /\ f.op = "find" /\ Rounds[f.round].worker = "remove"
    BY DEF FalseAlarmsAreStale
  <2>1. round = 3 /\ f.op = "find" /\ f.round = 2
    BY DEF TestInv, CheckInv
  <2>. QED
    BY <2>1, RoundTable DEF Round
<1>. QED BY <1>1, InitTest, NextTest, PTL DEF Spec

\* Whatever the order of its threads, every round after the first leaves the map as
\* main goes on from: all pairs in a table that has grown after the extensions
\* (T:873), nothing after the others (T:1073).
THEOREM WorkIsDone == Spec => []WorkersDoTheirWork
<1>1. TestInv => WorkersDoTheirWork
  <2> SUFFICES ASSUME TestInv, pc = "run", waiting = {}
               PROVE  /\ Round.worker = "extend" =>
                            /\ nCapacity >= 2 * DefaultCapacity
                            /\ \A k \in Keys : pairs[k] = [v \in 1 .. nCount |-> NewPair(v - 1)]
                      /\ Round.worker \notin {"insert", "extend"} => nSize = 0
    BY DEF WorkersDoTheirWork
  <2>0. /\ round \in 1 .. 7 /\ round \in 1 .. Len(Rounds) /\ MapInv /\ Started
        /\ pairs \in [Keys -> Seq([value : Int, round : 1 .. Len(Rounds)])]
    BY RoundTable DEF TestInv, TypeInv, Started
  <2>1. \A o, k : WaitingFor(o, k) = {}
    BY DEF WaitingFor
  <2>2. CASE round = 1
    BY <2>0, <2>2, RoundFacts
  <2>3. CASE round = 3
    <3>1. Extending /\ Round.worker = "extend"
      BY <2>0, <2>3, RoundFacts DEF MapInv
    <3>. QED
      BY <3>1 DEF Extending
  <2>4. CASE round \notin {1, 3}
    <3>1. Round.worker # "insert" /\ Round.worker # "extend"
      BY <2>0, <2>4, RoundFacts
    <3>2. Empty
      <4>1. CASE round = 2
        <5> SUFFICES ASSUME NEW k \in Keys PROVE pairs[k] = <<>>
          BY DEF Empty
        <5>1. Removing
          BY <2>0, <4>1 DEF MapInv
        <5>2. Len(pairs[k]) = 0
          BY <2>1, <5>1, FS_EmptySet DEF Removing
        <5>. QED
          BY <2>0, <5>2, EmptySeq
      <4>2. CASE round = 4
        BY <2>0, <4>2 DEF MapInv, Clearing
      <4>3. CASE round \in 5 .. 7
        BY <2>0, <4>3 DEF MapInv
      <4>. QED
        BY <2>0, <2>4, <4>1, <4>2, <4>3
    <3>3. nSize = 0
      BY <3>2, EmptyMap DEF Empty
    <3>. QED
      BY <3>1, <3>3
  <2>. QED
    BY <2>2, <2>3, <2>4
<1>. QED BY <1>1, InitTest, NextTest, PTL DEF Spec
=============================================================================
