------------------------- MODULE HashMapPromiseProofs -------------------------
(***************************************************************************)
(* HashMap implements Multimap: every step of every thread, of the locks   *)
(* and of the loops inside the operations, is a step of the multimap a     *)
(* caller was promised, or shows it nothing.  Proved for any number of     *)
(* threads, any keys and any table, where the hash function stays in the   *)
(* table and visits no cell twice.                                         *)
(***************************************************************************)
EXTENDS HashMapOrderProofs
-----------------------------------------------------------------------------
(***************************************************************************)
(* What the writer knows of the map.                                       *)
(***************************************************************************)
\* The pairs a probe for k meets in the table.
Seen(k) == InProbeOrder(m_vHashTable, m_nCapacity, k)

\* The pairs of key k, as the only thread that may be writing accounts for them.
Mine(t, k) ==
    IF Extending(t) THEN InProbeOrder(vNewHashTable[t], nNewCapacity[t], k) \o Seen(k)
    ELSE IF Removing(t, k) THEN PutBack(Seen(k), call[t].iPos, lOut[t])
    ELSE Seen(k)

\* No other thread is inside a writing operation.
Alone(t) == \A u \in Threads \ {t} : ~Writing(u)

\* The only writer knows what the map holds.
ItemsKnown == \A t \in Threads : Alone(t) => \A k \in Keys : Items(k) = Mine(t, k)

\* Items asks every thread whether it is extending or removing: only one may be.
LEMMA AloneItems == IInv => ItemsKnown
<1> SUFFICES ASSUME IInv, NEW t \in Threads, Alone(t), NEW k \in Keys
             PROVE  Items(k) = Mine(t, k)
  BY DEF ItemsKnown
<1>1. ASSUME NEW u \in Threads, Extending(u)
      PROVE  u = t /\ ~Removing(u, k)
  BY <1>1, ExtendersWrite DEF Alone, Extending, Removing
<1>2. ASSUME NEW u \in Threads, Removing(u, k)
      PROVE  u = t
  BY <1>2 DEF Removing, Alone, Writing, InBody, WriteOps
<1>3. CASE Extending(t)
  <2>1. (\E u \in Threads : Extending(u)) /\ (CHOOSE u \in Threads : Extending(u)) = t
    BY <1>1, <1>3
  <2>2. ~ \E u \in Threads : Removing(u, k)
    BY <1>1, <1>2, <1>3
  <2>. QED
    BY <1>3, <2>1, <2>2 DEF Items, InOrder, Mine, Seen
<1>4. CASE ~Extending(t)
  <2>1. InOrder(k) = Seen(k)
    BY <1>1, <1>4 DEF InOrder, Seen
  <2>2. CASE Removing(t, k)
    <3>1. (\E u \in Threads : Removing(u, k)) /\ (CHOOSE u \in Threads : Removing(u, k)) = t
      BY <1>2, <2>2
    <3>. QED
      BY <1>4, <2>1, <2>2, <3>1 DEF Items, Mine
  <2>3. CASE ~Removing(t, k)
    <3>1. ~ \E u \in Threads : Removing(u, k)
      BY <1>2, <2>3
    <3>. QED
      BY <1>4, <2>1, <2>3, <3>1 DEF Items, Mine
  <2>. QED
    BY <2>2, <2>3
<1>. QED
  BY <1>3, <1>4

\* The same after a step.
LEMMA AloneItemsNext == IInv' => ItemsKnown'
  BY AloneItems, PTL

\* The pairs before and after a step of t: those it accounts for, unless another
\* thread is writing, which keeps them as they are.
LEMMA ItemsStep ==
    ASSUME IInv, IInv', NEW t \in Threads, OnlyMine(t)
    PROVE  \/ Alone(t) /\ \A k \in Keys : Items(k) = Mine(t, k) /\ Items(k)' = Mine(t, k)'
           \/ UNCHANGED <<m_vHashTable, m_nCapacity>> => \A k \in Keys : Items(k)' = Items(k)
<1>1. \A u \in Threads \ {t} : Writing(u)' <=> Writing(u)
  BY DEF OnlyMine, Writing, InBody
<1>2. CASE Alone(t)
  <2>1. Alone(t)'
    BY <1>1, <1>2 DEF Alone
  <2>. QED
    BY <1>2, <2>1, AloneItems, AloneItemsNext DEF ItemsKnown
<1>3. CASE ~Alone(t)
  <2>1. PICK u \in Threads \ {t} : Writing(u)
    BY <1>3 DEF Alone
  <2>2. Writing(u)'
    BY <1>1, <2>1
  <2>3. Alone(u)
    BY <2>1, OneWrites DEF Alone
  <2>4. Alone(u)'
    <3>1. \A v, w \in Threads : Writing(v)' /\ Writing(w)' => v = w
      BY DEF IInv, LockInv, Inside, Writing
    <3>. QED
      BY <2>2, <3>1 DEF Alone
  <2>5. \A k \in Keys : Items(k) = Mine(u, k) /\ Items(k)' = Mine(u, k)'
    BY <2>3, <2>4, AloneItems, AloneItemsNext DEF ItemsKnown
  <2>6. UNCHANGED <<m_vHashTable, m_nCapacity>> => \A k \in Keys : Mine(u, k)' = Mine(u, k)
    BY DEF OnlyMine, Mine, Extending, Removing, Seen
  <2>. QED
    BY <2>5, <2>6
<1>. QED
  BY <1>2, <1>3
-----------------------------------------------------------------------------
(***************************************************************************)
(* What each loop has found out so far.                                    *)
(***************************************************************************)
MetBy(t) == Met(m_vHashTable, m_nCapacity, call[t].tKey)

\* What the variables of a thread are outside the loops that use them.
AtRest(t) ==
    /\ pc[t] = "idle" => call[t] = NoCall
    /\ ret[t] # NoRet <=> pc[t] = "unlock"
    /\ pc[t] \notin {"probe", "scan"} => iHits[t] = 0 /\ lOut[t] = <<>>
    /\ pc[t] \notin {"probe", "scan", "extend", "rehash", "move"} => ik[t] = 0
    /\ pc[t] \in {"probe", "scan"} => ik[t] <= m_nCapacity

\* find: the hits are the pairs met, not more of them than the position asked for.
FindLoop(t) ==
    pc[t] = "probe" /\ call[t].op = "find" =>
        iHits[t] = Len(MetBy(t)[ik[t]]) /\ iHits[t] <= call[t].iPos

\* equalRange of a whole key: the answer is what has been met.
RangeLoop(t) ==
    pc[t] = "probe" /\ WholeRange(call[t]) => lOut[t] = MetBy(t)[ik[t]]

\* equalRange from a position: the answer is what has been met from there on.
RangeForPosLoop(t) ==
    pc[t] = "probe" /\ call[t].op = "equalRange" /\ ~WholeRange(call[t]) =>
        /\ iHits[t] = Len(MetBy(t)[ik[t]])
        /\ lOut[t] = SubSeq(MetBy(t)[ik[t]], call[t].iPos + 1, iHits[t])
        /\ call[t].nCount # 0 => iHits[t] <= call[t].iPos + call[t].nCount

\* size and empty: what the cells seen so far add up to.
ScanLoop(t) ==
    pc[t] = "scan" =>
        /\ call[t].op = "size" => iHits[t] = Cardinality(Before(m_vHashTable, ik[t]))
        /\ call[t].op = "empty" => \A i \in 0 .. ik[t] - 1 : m_vHashTable[i] = nullptr

\* insert: the cells tried so far are full.
InsertLoop(t) ==
    pc[t] = "probe" /\ call[t].op = "insert" =>
        /\ iHits[t] = 0 /\ lOut[t] = <<>>
        /\ \A i \in 0 .. m_nCapacity - 1 :
              i < ik[t] => At(m_vHashTable, m_nCapacity, call[t].tKey, i) # nullptr

\* How many of h pairs are past the first a, and within the limit.
Past(h, a, limit) == IF h - a < limit THEN (IF h - a < 0 THEN 0 ELSE h - a) ELSE limit

\* remove: the pairs met were left in the table or taken out of it.
RemoveLoop(t) ==
    pc[t] = "probe" /\ call[t].op = "remove" =>
        /\ Len(lOut[t]) = Past(iHits[t], call[t].iPos, RemoveLimit(call[t]))
        /\ Len(MetBy(t)[ik[t]]) = iHits[t] - Len(lOut[t])

\* The pairs the map holds.
Held == UNION {Seqs!ToSet(Items(k)) : k \in Keys}

\* extend: the size asked for, a new table without holes, and the cells of the
\* new table tried for the pair that moves; insert extends a full table only.
ExtendLoop(t) ==
    /\ pc[t] \in {"extend", "rehash", "move"} =>
          /\ call[t].op = "extend" => nNewCapacity[t] = call[t].nNewCapacity
          /\ call[t].op = "insert" => /\ nNewCapacity[t] = m_nCapacity + DefaultCapacity
                                      /\ Cardinality(Held) = m_nCapacity
    /\ Extending(t) => nNewCapacity[t] > m_nCapacity /\ NoHoles(vNewHashTable[t], nNewCapacity[t])
    /\ pc[t] = "move" =>
          \/ ~HasFreeStep(t)
          \/ \A i \in 0 .. m_nCapacity - 1 :
                i < ik[t] => ~IsOf(At(m_vHashTable, m_nCapacity, tMoved[t], i), tMoved[t])

\* What a thread has found out so far.
ThreadInv(t) ==
    /\ AtRest(t) /\ FindLoop(t) /\ RangeLoop(t) /\ RangeForPosLoop(t)
    /\ ScanLoop(t) /\ InsertLoop(t) /\ RemoveLoop(t) /\ ExtendLoop(t)

\* The inductive invariant of the refinement.
PromiseInv == IInv /\ PlaceInv /\ PairsAreReachable /\ \A t \in Threads : ThreadInv(t)

\* The steps of the other threads.
LEMMA OthersKeep ==
    ASSUME IInv, IInv', NEW t \in Threads, NEW c \in Calls, Step(t) \/ Invoke(t, c),
           NEW u \in Threads \ {t}, ThreadInv(u)
    PROVE  ThreadInv(u)'
<1>1. OnlyMine(t)
  BY StepsAreMine DEF IInv
<1>2. /\ pc'[u] = pc[u] /\ call'[u] = call[u] /\ ik'[u] = ik[u] /\ lOut'[u] = lOut[u]
      /\ iHits'[u] = iHits[u] /\ ret'[u] = ret[u] /\ tMoved'[u] = tMoved[u]
      /\ nNewCapacity'[u] = nNewCapacity[u] /\ vNewHashTable'[u] = vNewHashTable[u]
  BY <1>1 DEF OnlyMine
<1>3. CASE ~InBody(u)
  <2>1. pc[u] \notin {"probe", "scan", "extend", "rehash", "move"}
    BY <1>3 DEF InBody
  <2>. QED
    BY <1>2, <2>1 DEF ThreadInv, AtRest, FindLoop, RangeLoop, RangeForPosLoop, ScanLoop,
                      InsertLoop, RemoveLoop, ExtendLoop, Extending
<1>4. CASE InBody(u)
  <2>1. call[u].op \in ReadOps \/ Writing(u)
    <3>1. call[u] \in Calls
      BY <1>4 DEF IInv, PCInv, InBody
    <3>. QED
      BY <1>4, <3>1, CallShapes DEF Writing, AllOps
  <2>2. UNCHANGED <<m_vHashTable, m_nCapacity>>
    <3>1. CASE call[u].op \in ReadOps
      <4>1. Next
        BY DEF Next
      <4>. QED
        BY <1>4, <3>1, <4>1, TableStays
    <3>2. CASE Writing(u)
      BY <3>2, WriterStays
    <3>. QED
      BY <2>1, <3>1, <3>2
  <2>3. MetBy(u)' = MetBy(u) /\ RemoveLimit(call[u])' = RemoveLimit(call[u])
    BY <1>2, <2>2 DEF MetBy, RemoveLimit
  <2>4. HasFreeStep(u)' <=> HasFreeStep(u)
    BY <1>2 DEF HasFreeStep, IsFreeStep, NewCellNo
  <2>5. ExtendLoop(u)'
    <3>1. CASE pc[u] \in {"extend", "rehash", "move"}
      <4>1. Writing(u)
        BY <1>4, <3>1 DEF IInv, PCInv, Writing, WriteOps
      <4>2. ~Alone(t)
        BY <4>1 DEF Alone
      <4>3. \A k \in Keys : Items(k)' = Items(k)
        BY <1>1, <2>2, <4>2, ItemsStep
      <4>4. Held' = Held
        BY <4>3 DEF Held
      <4>. QED
        BY <1>2, <2>2, <2>4, <4>4 DEF ThreadInv, ExtendLoop, Extending, NoHoles, At
    <3>2. CASE pc[u] \notin {"extend", "rehash", "move"}
      BY <1>2, <3>2 DEF ExtendLoop, Extending
    <3>. QED
      BY <3>1, <3>2
  <2>6. AtRest(u)' /\ FindLoop(u)' /\ RangeLoop(u)' /\ RangeForPosLoop(u)'
    BY <1>2, <2>2, <2>3 DEF ThreadInv, AtRest, FindLoop, RangeLoop, RangeForPosLoop
  <2>7. ScanLoop(u)' /\ InsertLoop(u)' /\ RemoveLoop(u)'
    BY <1>2, <2>2, <2>3 DEF ThreadInv, ScanLoop, InsertLoop, RemoveLoop, At
  <2>. QED
    BY <2>5, <2>6, <2>7 DEF ThreadInv
<1>. QED
  BY <1>3, <1>4

-----------------------------------------------------------------------------
(***************************************************************************)
(* What one turn of a reader's loop finds, and its steps in Multimap.      *)
(***************************************************************************)
\* No position that callers pass makes ++iPos wrap.
PositionsDoNotWrap == \A i \in Positions : i + 1 < SizeMod

\* The first hit that counts, while iPos + 1 does not wrap.
LEMMA FirstIsNext ==
    ASSUME PositionsDoNotWrap, NEW t \in Threads, call[t] \in Calls,
           call[t].op \in {"find", "equalRange", "remove"}
    PROVE  /\ First(t) = call[t].iPos + 1
           /\ call[t].iPos \in Nat
           /\ call[t].op \in {"equalRange", "remove"} => call[t].nCount \in Nat
<1>1. call[t].iPos \in Positions
  BY DEF Calls, FindCalls, RangeCalls, SubscriptCalls, InsertCalls, RemoveCalls, ExtendCalls,
         PlainCalls
<1>2. call[t].op \in {"equalRange", "remove"} => call[t].nCount \in Counts
  BY DEF Calls, FindCalls, RangeCalls, SubscriptCalls, InsertCalls, RemoveCalls, ExtendCalls,
         PlainCalls
<1>3. call[t].iPos \in Nat /\ call[t].iPos + 1 < SizeMod /\ SizeMod \in Nat \ {0}
  BY <1>1, InterfaceAssumption DEF PositionsDoNotWrap
<1>4. (call[t].iPos + 1) % SizeMod = call[t].iPos + 1
  BY <1>3
<1>. QED
  BY <1>2, <1>3, <1>4, InterfaceAssumption DEF First

\* The pairs t's probe has met so far.
Found(t) == MetBy(t)[ik[t]]

\* The probe of a call and its next turn.
TurnFacts(t) ==
    /\ call[t] \in Calls /\ call[t].tKey \in Keys /\ m_nCapacity \in Nat \ {0}
    /\ Collects(m_vHashTable, m_nCapacity, call[t].tKey)
    /\ ik[t] \in Nat /\ ik[t] <= m_nCapacity
    /\ Found(t) \in Seq(Pairs) /\ Len(Found(t)) \in Nat
    /\ Seen(call[t].tKey) \in Seq(Pairs) /\ Len(Seen(call[t].tKey)) \in Nat
    /\ Len(Seen(call[t].tKey)) <= m_nCapacity
    /\ ik[t] >= m_nCapacity => Found(t) = Seen(call[t].tKey)
    /\ ik[t] < m_nCapacity =>
          /\ ik[t] \in 0 .. m_nCapacity - 1
          /\ Cell(t) = At(m_vHashTable, m_nCapacity, call[t].tKey, ik[t])
          /\ Cell(t) \in Cells
          /\ Matches(t) <=> IsOf(Cell(t), call[t].tKey)
          /\ Matches(t) => /\ Cell(t) \in Pairs
                           /\ MetBy(t)[ik[t] + 1] = Append(Found(t), Cell(t))
                           /\ Len(MetBy(t)[ik[t] + 1]) = Len(Found(t)) + 1
                           /\ Len(Found(t)) + 1 <= Len(Seen(call[t].tKey))
                           /\ Seen(call[t].tKey)[Len(Found(t)) + 1] = Cell(t)
          /\ ~Matches(t) => MetBy(t)[ik[t] + 1] = Found(t)
    /\ \A a \in 1 .. Len(Found(t)) : Seen(call[t].tKey)[a] = Found(t)[a]
    /\ Len(Found(t)) <= Len(Seen(call[t].tKey))

\* What one turn of a probe finds.
LEMMA Turn ==
    ASSUME HashInRange, IInv, NEW t \in Threads, pc[t] = "probe", AtRest(t)
    PROVE  TurnFacts(t)
<1> DEFINE k == call[t].tKey
           m == m_nCapacity
           M == MetBy(t)
           i == ik[t]
           q == Seen(k)
           d == At(m_vHashTable, m, k, i)
<1>1. /\ call[t] \in Calls /\ call[t].op \in ProbeOps /\ m \in Nat \ {0} /\ i \in Nat /\ i <= m
      /\ m_vHashTable \in [0 .. m - 1 -> Cells]
  BY DEF IInv, PCInv, TypeOK, AtRest
<1>2. k \in Keys
  BY <1>1, CallShapes
<1>3. Collects(m_vHashTable, m, k)
  BY <1>1, <1>2, TableCollects
<1>4. Prefixes(M, m) /\ \A n \in 0 .. m : Len(M[n]) <= n
  BY <1>3, MetGrows DEF MetBy
<1>5. /\ \A n \in 0 .. m : M[n] \in Seq(Pairs) /\ Len(M[n]) \in Nat
      /\ \A n \in 0 .. m - 1 : At(m_vHashTable, m, k, n) \in Cells
      /\ \A n \in 0 .. m - 1 : IsOf(At(m_vHashTable, m, k, n), k) =>
            /\ At(m_vHashTable, m, k, n) \in Pairs
            /\ M[n + 1] = Append(M[n], At(m_vHashTable, m, k, n))
      /\ \A n \in 0 .. m - 1 : ~IsOf(At(m_vHashTable, m, k, n), k) => M[n + 1] = M[n]
  BY <1>3 DEF Collects, MetBy
<1>6. Found(t) = M[i] /\ q = M[m] /\ Cell(t) = d /\ (Matches(t) <=> IsOf(Cell(t), k))
  BY DEF Found, Seen, InProbeOrder, MetBy, Cell, CellNo, At, Matches, IsOf
<1> HIDE DEF M, q, d, k
<1>7. i \in 0 .. m /\ m \in 0 .. m
  BY <1>1
<1>8. /\ M[i] \in Seq(Pairs) /\ Len(M[i]) \in Nat /\ q \in Seq(Pairs) /\ Len(q) \in Nat
      /\ Len(q) <= m
  BY <1>4, <1>5, <1>6, <1>7
<1>9. (\A a \in 1 .. Len(M[i]) : q[a] = M[i][a]) /\ Len(M[i]) <= Len(q)
  BY <1>1, <1>4, <1>6, <1>7 DEF Prefixes
<1>10. i >= m => M[i] = q
  BY <1>1, <1>6
<1>11. ASSUME i < m
       PROVE  /\ i \in 0 .. m - 1
              /\ d \in Cells
              /\ IsOf(d, k) => /\ d \in Pairs
                               /\ M[i + 1] = Append(M[i], d)
                               /\ Len(M[i + 1]) = Len(M[i]) + 1
                               /\ Len(M[i]) + 1 <= Len(q)
                               /\ q[Len(M[i]) + 1] = d
              /\ ~IsOf(d, k) => M[i + 1] = M[i]
  <2>1. i \in 0 .. m - 1 /\ i + 1 \in 0 .. m /\ i + 1 <= m
    BY <1>1, <1>11
  <2>2. d \in Cells /\ (~IsOf(d, k) => M[i + 1] = M[i])
        /\ (IsOf(d, k) => d \in Pairs /\ M[i + 1] = Append(M[i], d))
    BY <1>5, <2>1 DEF d
  <2>3. ASSUME IsOf(d, k)
        PROVE  /\ Len(M[i + 1]) = Len(M[i]) + 1
               /\ Len(M[i]) + 1 <= Len(q)
               /\ q[Len(M[i]) + 1] = d
    <3>1. Len(M[i + 1]) = Len(M[i]) + 1 /\ M[i + 1][Len(M[i]) + 1] = d
      BY <1>8, <2>2, <2>3, AppendProperties
    <3>2. /\ Len(M[i + 1]) <= Len(q)
          /\ \A a \in 1 .. Len(M[i + 1]) : q[a] = M[i + 1][a]
      BY <1>4, <1>6, <1>7, <2>1 DEF Prefixes
    <3>3. Len(M[i]) + 1 \in 1 .. Len(M[i + 1])
      BY <1>8, <3>1
    <3>. QED
      BY <3>1, <3>2, <3>3
  <2>. QED
    BY <2>1, <2>2, <2>3
<1>. QED
  BY <1>1, <1>2, <1>3, <1>6, <1>8, <1>9, <1>10, <1>11 DEF TurnFacts, M, q, d, k

\* What the map holds, key by key.
Map == [k \in Keys |-> Items(k)]

\* A map that keeps the pairs of every key is the same map.
LEMMA MapKept ==
    ASSUME \A k \in Keys : Items(k)' = Items(k)
    PROVE  Map' = Map
  BY DEF Map

\* A reader has the table to itself and the other readers.
LEMMA ReaderItems ==
    ASSUME IInv, NEW t \in Threads, InBody(t), call[t].op \in ReadOps
    PROVE  Alone(t) /\ \A k \in Keys : Items(k) = Seen(k)
<1>1. m_mSharedMutex.readers[t] > 0 /\ \A u \in Threads : m_mSharedMutex.readers[u] \in Nat
  BY DEF IInv, LockInv, Inside, TypeOK
<1>2. m_mSharedMutex.writer = {}
  BY <1>1 DEF IInv, LockInv
<1>3. Alone(t)
  BY <1>2 DEF IInv, LockInv, Alone, Writing, Inside
<1>4. ~Extending(t) /\ \A k \in Keys : ~Removing(t, k)
  BY DEF IInv, PCInv, Extending, Removing, ReadOps
<1>. QED
  BY <1>3, <1>4, AloneItems DEF ItemsKnown, Mine

\* No reading operation changes the map.
LEMMA ReaderKeepsMap ==
    ASSUME IInv, IInv', NEW t \in Threads, Reader(t)
    PROVE  Map' = Map
<1>1. OnlyMine(t)
  BY StepsAreMine DEF IInv, Step, Reader
<1>2. /\ pc[t] \in {"probe", "scan", "read"} /\ call[t].op \in ReadOps
      /\ pc' = pc \/ pc' = [pc EXCEPT ![t] = "unlock"]
      /\ UNCHANGED <<m_vHashTable, m_nCapacity, call>>
  BY ReaderFrame DEF tableVars
<1>3. InBody(t) /\ ~Extending(t)' /\ \A k \in Keys : ~Removing(t, k)'
  BY <1>2 DEF IInv, TypeOK, InBody, Extending, Removing, ReadOps
<1>4. \A k \in Keys : Items(k) = Seen(k) /\ Mine(t, k)' = Seen(k)
  BY <1>2, <1>3, ReaderItems DEF Mine, Seen
<1>. QED
  BY <1>1, <1>2, <1>4, ItemsStep, MapKept

\* What a read may answer.
Right(t, r) ==
    LET c == call[t]
    IN  /\ c.op = "find" =>
              r = Range_(Promise!Slice(Seen(c.tKey), c.iPos, Promise!Taken(Seen(c.tKey), c.iPos, 1)))
        /\ c.op = "equalRange" =>
              r = Range_(Promise!Slice(Seen(c.tKey), c.iPos,
                            Promise!Taken(Seen(c.tKey), c.iPos,
                               IF c.nCount # 0 THEN c.nCount ELSE Len(Seen(c.tKey)))))
        /\ c.op = "operator[]" => r = Range_(Seen(c.tKey))
        /\ c.op = "size" => r = Number(Cardinality(Held))
        /\ c.op = "empty" => r = Truth(Cardinality(Held) = 0)
        /\ c.op = "capacity" => r = Number(m_nCapacity)

\* The number of pairs Multimap counts.
LEMMA TotalHeld == Promise!Total = Cardinality(Held)
<1>1. \A k \in Keys : Promise!ToSet([l \in Keys |-> Items(l)][k]) = Seqs!ToSet(Items(k))
  BY DEF Promise!ToSet, Seqs!ToSet
<1>2. Promise!Present = Held
  BY <1>1 DEF Promise!Present, Held
<1>3. Promise!Cardinality(Held) = Cardinality(Held)
  BY Zenon DEF Promise!Cardinality, Cardinality
<1>. QED
  BY <1>2, <1>3 DEF Promise!Total

\* The promise and the code speak of the same calls and the same results.
SameWords ==
    /\ Promise!Calls = Calls /\ Promise!NoCall = NoCall /\ Promise!NoRet = NoRet
    /\ Promise!ReadOps = ReadOps /\ Promise!Void = Void
    /\ \A s : Promise!Range_(s) = Range_(s)
    /\ \A n : Promise!Number(n) = Number(n)
    /\ \A b : Promise!Truth(b) = Truth(b)

\* Multimap and HashMap have the same calls and answers.
LEMMA SpeakTheSame == SameWords
<1>1. Promise!Calls = Calls
  BY DEF Promise!Calls, Promise!FindCalls, Promise!RangeCalls, Promise!SubscriptCalls,
         Promise!InsertCalls, Promise!RemoveCalls, Promise!ExtendCalls, Promise!PlainCalls,
         Calls, FindCalls, RangeCalls, SubscriptCalls, InsertCalls, RemoveCalls, ExtendCalls,
         PlainCalls
<1>. QED
  BY <1>1, Zenon DEF SameWords, Promise!NoCall, NoCall, Promise!NoRet, NoRet, Promise!ReadOps,
         ReadOps, Promise!Void, Void, Promise!Range_, Range_, Promise!Number, Number,
         Promise!Truth, Truth

\* The map of the promise is Map.
LEMMA MapIsItems == [k \in Keys |-> Items(k)] = Map /\ [k \in Keys |-> Items(k)]' = Map'
  BY DEF Map

\* A reading operation whose answer is right does what Multimap says.
LEMMA ReadEffects ==
    ASSUME NEW t, NEW c, NEW r, Promise!Answer(t, r),
           UNCHANGED <<[k \in Keys |-> Items(k)], m_nCapacity, nPairs>>,
           \/ c.op = "find" /\ r = Promise!Range_(Promise!Slice([k \in Keys |-> Items(k)][c.tKey],
                c.iPos, Promise!Taken([k \in Keys |-> Items(k)][c.tKey], c.iPos, 1)))
           \/ c.op = "equalRange" /\ r = Promise!Range_(Promise!Slice(
                [k \in Keys |-> Items(k)][c.tKey], c.iPos,
                Promise!Taken([k \in Keys |-> Items(k)][c.tKey], c.iPos, Promise!Limit(c))))
           \/ c.op = "operator[]" /\ r = Promise!Range_([k \in Keys |-> Items(k)][c.tKey])
           \/ c.op = "size" /\ r = Promise!Number(Promise!Total)
           \/ c.op = "empty" /\ r = Promise!Truth(Promise!Total = 0)
           \/ c.op = "capacity" /\ r = Promise!Number(m_nCapacity)
    PROVE  Promise!ReadEffect(t, c)
  BY Zenon DEF Promise!ReadEffect

\* A reader that answers right takes a step of Multimap.
LEMMA ReaderAnswers ==
    ASSUME IInv, IInv', NEW t \in Threads, Reader(t), ret[t] = NoRet, NEW r,
           Leave(t, r), Right(t, r)
    PROVE  Promise!Next
<1> DEFINE c == call[t]
           q == Seen(c.tKey)
           M == [k \in Keys |-> Items(k)]
<1>1. /\ InBody(t) /\ c.op \in ReadOps /\ UNCHANGED <<m_nCapacity, nPairs, call>>
  BY ReaderFrame DEF tableVars, InBody
<1>2. M' = M
  BY ReaderKeepsMap, MapIsItems
<1>3. c # NoCall /\ (c.op \in ProbeOps => c.tKey \in Keys)
  <2>1. call[t] \in Calls
    BY <1>1 DEF IInv, PCInv, InBody
  <2>. QED
    BY <2>1, CallShapes
<1>4. c.op \in ProbeOps => M[c.tKey] = q
  BY <1>1, <1>3, ReaderItems
<1>5. Promise!Answer(t, r)
  BY DEF Leave, Promise!Answer
<1>6. SameWords
  BY SpeakTheSame
<1>7. UNCHANGED <<M, m_nCapacity, nPairs>>
  BY <1>1, <1>2
<1>8. Promise!ReadEffect(t, c)
  <2>1. CASE c.op = "find"
    <3>1. M[c.tKey] = q
      BY <1>4, <2>1 DEF ProbeOps
    <3>2. r = Range_(Promise!Slice(q, c.iPos, Promise!Taken(q, c.iPos, 1)))
      BY <2>1 DEF Right
    <3>3. r = Promise!Range_(Promise!Slice(M[c.tKey], c.iPos, Promise!Taken(M[c.tKey], c.iPos, 1)))
      BY <1>6, <3>1, <3>2, Zenon DEF SameWords
    <3>. QED
      BY <1>5, <1>7, <2>1, <3>3, ReadEffects, Zenon
  <2>2. CASE c.op = "equalRange"
    <3>1. M[c.tKey] = q
      BY <1>4, <2>2 DEF ProbeOps
    <3>2. Promise!Limit(c) = IF c.nCount # 0 THEN c.nCount ELSE Len(q)
      BY <2>2, <3>1 DEF Promise!Limit
    <3>3. r = Range_(Promise!Slice(q, c.iPos, Promise!Taken(q, c.iPos, Promise!Limit(c))))
      BY <2>2, <3>2 DEF Right
    <3>4. r = Promise!Range_(Promise!Slice(M[c.tKey], c.iPos,
                                Promise!Taken(M[c.tKey], c.iPos, Promise!Limit(c))))
      BY <1>6, <3>1, <3>3, Zenon DEF SameWords
    <3>. QED
      BY <1>5, <1>7, <2>2, <3>4, ReadEffects, Zenon
  <2>3. CASE c.op = "operator[]"
    <3>1. M[c.tKey] = q
      BY <1>4, <2>3 DEF ProbeOps
    <3>2. r = Promise!Range_(M[c.tKey])
      BY <1>6, <2>3, <3>1 DEF SameWords, Right
    <3>. QED
      BY <1>5, <1>7, <2>3, <3>2, ReadEffects, Zenon
  <2>4. CASE c.op = "size"
    <3>1. r = Promise!Number(Promise!Total)
      BY <1>6, <2>4, TotalHeld DEF SameWords, Right
    <3>. QED
      BY <1>5, <1>7, <2>4, <3>1, ReadEffects, Zenon
  <2>5. CASE c.op = "empty"
    <3>1. r = Truth(Cardinality(Held) = 0)
      BY <2>5 DEF Right
    <3>2. r = Promise!Truth(Promise!Total = 0)
      BY <1>6, <3>1, TotalHeld, Zenon DEF SameWords
    <3>. QED
      BY <1>5, <1>7, <2>5, <3>2, ReadEffects, Zenon
  <2>6. CASE c.op = "capacity"
    <3>1. r = Promise!Number(m_nCapacity)
      BY <1>6, <2>6 DEF SameWords, Right
    <3>. QED
      BY <1>5, <1>7, <2>6, <3>1, ReadEffects, Zenon
  <2>. QED
    BY <1>1, <2>1, <2>2, <2>3, <2>4, <2>5, <2>6 DEF ReadOps
<1>9. Promise!Effect(t)
  BY <1>1, <1>3, <1>6, <1>8 DEF Promise!Effect, SameWords
<1>. QED
  BY <1>9 DEF Promise!Next

-----------------------------------------------------------------------------
(***************************************************************************)
(* The reading operations, turn by turn.                                   *)
(***************************************************************************)
\* A step of t that keeps what its loops know, and is a step of the promise.
Keeps(t) == ThreadInv(t)' /\ (Promise!Next \/ UNCHANGED Promise!mvars)

\* A step that shows nothing to the caller.
LEMMA Stutter ==
    ASSUME UNCHANGED <<m_nCapacity, nPairs, call, ret>>, Map' = Map
    PROVE  UNCHANGED Promise!mvars
  BY MapIsItems DEF Promise!mvars

\* A turn of a reader's loop shows nothing and disturbs no other loop.
LEMMA ReaderTurns ==
    ASSUME IInv, IInv', NEW t \in Threads, Reader(t), ThreadInv(t), ik[t] < m_nCapacity,
           NEW h, NEW o, NextTurn(t, h, o)
    PROVE  /\ UNCHANGED Promise!mvars
           /\ UNCHANGED <<pc, call, m_vHashTable, m_nCapacity>>
           /\ ik'[t] = ik[t] + 1 /\ iHits'[t] = h /\ lOut'[t] = o
           /\ AtRest(t)' /\ ExtendLoop(t)' /\ InsertLoop(t)' /\ RemoveLoop(t)'
           /\ FindLoop(t)' /\ RangeLoop(t)' /\ RangeForPosLoop(t)' /\ ScanLoop(t)' => ThreadInv(t)'
<1>1. UNCHANGED <<pc, ret>> /\ ik'[t] = ik[t] + 1 /\ iHits'[t] = h /\ lOut'[t] = o
  BY DEF NextTurn, IInv, TypeOK
<1>2. /\ pc[t] \in {"probe", "scan", "read"} /\ call[t].op \in ReadOps
      /\ UNCHANGED <<m_vHashTable, m_nCapacity, nPairs, call>>
  BY ReaderFrame DEF tableVars
<1>3. pc[t] # "read"
  BY DEF Reader, NextTurn, Leave, Find, EqualRange, EqualRangeForPos, Size, Empty, Capacity,
         Probing, IInv, TypeOK
<1>4. Map' = Map
  BY ReaderKeepsMap
<1>5. AtRest(t)'
  <2>1. ik'[t] <= m_nCapacity'
    BY <1>1, <1>2 DEF IInv, TypeOK
  <2>. QED
    BY <1>1, <1>2, <1>3, <2>1 DEF AtRest, ThreadInv
<1>6. ExtendLoop(t)' /\ InsertLoop(t)' /\ RemoveLoop(t)'
  BY <1>1, <1>2 DEF ExtendLoop, InsertLoop, RemoveLoop, Extending, ReadOps
<1>. QED
  BY <1>1, <1>2, <1>4, <1>5, <1>6, Stutter DEF ThreadInv

\* A reader that leaves with the right answer.
LEMMA ReaderLeaves ==
    ASSUME IInv, IInv', NEW t \in Threads, Reader(t), ThreadInv(t),
           NEW r, r # NoRet, Leave(t, r), Right(t, r)
    PROVE  Keeps(t)
<1>1. /\ pc'[t] = "unlock" /\ ret'[t] = r /\ ik'[t] = 0 /\ iHits'[t] = 0 /\ lOut'[t] = <<>>
  BY DEF Leave, IInv, TypeOK
<1>2. ThreadInv(t)'
  BY <1>1 DEF ThreadInv, AtRest, FindLoop, RangeLoop, RangeForPosLoop, ScanLoop, InsertLoop,
              RemoveLoop, ExtendLoop, Extending
<1>3. ret[t] = NoRet
  BY ReaderFrame DEF ThreadInv, AtRest
<1>. QED
  BY <1>2, <1>3, ReaderAnswers DEF Keeps

\* An answer is never the absence of one.
LEMMA Answers ==
    /\ \A s : Range_(s) # NoRet
    /\ \A n : Number(n) # NoRet
    /\ \A b : Truth(b) # NoRet
    /\ Void # NoRet
  BY DEF Range_, Number, Truth, Void, NoRet

\* Past the end there is nothing to cut.
LEMMA NothingToCut ==
    ASSUME NEW S, NEW q \in Seq(S), NEW a \in Nat, NEW limit \in Nat, Len(q) <= a
    PROVE  Promise!Slice(q, a, Promise!Taken(q, a, limit)) = <<>>
<1>1. Len(q) \in Nat
  BY LenProperties
<1>2. Promise!Taken(q, a, limit) = 0
  BY <1>1 DEF Promise!Taken, Promise!Upto
<1>3. a + 1 \in Int /\ a + 0 \in Int /\ a + 0 < a + 1
  OBVIOUS
<1>4. SubSeq(q, a + 1, a + 0) = <<>>
  BY <1>3, SubSeqEmpty
<1>. QED
  BY <1>2, <1>4 DEF Promise!Slice

\* find.
LEMMA FindKeeps ==
    ASSUME HashInRange, PositionsDoNotWrap, IInv, IInv', NEW t \in Threads, ThreadInv(t), Find(t)
    PROVE  Keeps(t)
<1> DEFINE c == call[t]
           q == Seen(c.tKey)
<1>1. Reader(t) /\ c.op = "find" /\ pc[t] = "probe" /\ ~WholeRange(c)
  BY DEF Reader, Find, Probing, WholeRange
<1>2. AtRest(t) /\ FindLoop(t)
  BY DEF ThreadInv
<1>3. TurnFacts(t)
  BY <1>1, <1>2, Turn
<1>4. First(t) = c.iPos + 1 /\ c.iPos \in Nat
  BY <1>1, <1>3, FirstIsNext DEF TurnFacts
<1>5. iHits[t] = Len(Found(t)) /\ iHits[t] <= c.iPos /\ iHits[t] \in Nat
  BY <1>1, <1>2 DEF FindLoop, Found, IInv, TypeOK
<1>6. ASSUME NEW s, Leave(t, Range_(s)),
             s = Promise!Slice(q, c.iPos, Promise!Taken(q, c.iPos, 1))
      PROVE  Keeps(t)
  <2>1. Right(t, Range_(s))
    BY <1>1, <1>6 DEF Right
  <2>. QED
    BY <1>1, <1>6, <2>1, ReaderLeaves, Answers
<1>7. CASE /\ c.iPos >= m_nCapacity \/ ik[t] >= m_nCapacity
           /\ Leave(t, Range_(<<>>))
  <2>1. q \in Seq(Pairs) /\ Len(q) <= c.iPos
    BY <1>3, <1>4, <1>5, <1>7 DEF TurnFacts
  <2>2. Promise!Slice(q, c.iPos, Promise!Taken(q, c.iPos, 1)) = <<>>
    <3> HIDE DEF q, c
    <3>. QED
      BY <1>4, <2>1, NothingToCut
  <2>. QED
    BY <1>6, <1>7, <2>2
<1>8. CASE /\ Probing(t) /\ Matches(t) /\ iHits[t] + 1 = First(t)
           /\ Leave(t, Range_(<<Cell(t)>>))
  <2>1. /\ q \in Seq(Pairs) /\ Len(q) \in Nat
        /\ c.iPos + 1 <= Len(q) /\ q[c.iPos + 1] = Cell(t)
    BY <1>3, <1>4, <1>5, <1>8 DEF TurnFacts, Probing
  <2> HIDE DEF q, c
  <2>2. Promise!Taken(q, c.iPos, 1) = 1
    BY <1>4, <2>1 DEF Promise!Taken, Promise!Upto
  <2>3. SubSeq(q, c.iPos + 1, c.iPos + 1) = <<Cell(t)>>
    BY <1>4, <2>1, CutOne
  <2>4. <<Cell(t)>> = Promise!Slice(q, c.iPos, Promise!Taken(q, c.iPos, 1))
    BY <2>2, <2>3 DEF Promise!Slice
  <2>. QED
    BY <1>6, <1>8, <2>4
<1>9. ASSUME NEW h, Probing(t), NextTurn(t, h, lOut[t]),
             \/ Matches(t) /\ iHits[t] + 1 # First(t) /\ h = iHits[t] + 1
             \/ ~Matches(t) /\ h = iHits[t]
      PROVE  Keeps(t)
  <2>1. /\ UNCHANGED Promise!mvars
        /\ UNCHANGED <<pc, call, m_vHashTable, m_nCapacity>>
        /\ ik'[t] = ik[t] + 1 /\ iHits'[t] = h
        /\ FindLoop(t)' /\ RangeLoop(t)' /\ RangeForPosLoop(t)' /\ ScanLoop(t)' => ThreadInv(t)'
    BY <1>1, <1>9, ReaderTurns DEF Probing
  <2>2. MetBy(t)' = MetBy(t)
    BY <2>1 DEF MetBy
  <2>3. h = Len(MetBy(t)[ik[t] + 1]) /\ h <= c.iPos
    BY <1>3, <1>4, <1>5, <1>9 DEF TurnFacts, Probing
  <2>4. FindLoop(t)'
    BY <2>1, <2>2, <2>3 DEF FindLoop
  <2>5. RangeLoop(t)' /\ RangeForPosLoop(t)' /\ ScanLoop(t)'
    BY <1>1, <2>1 DEF RangeLoop, RangeForPosLoop, ScanLoop
  <2>. QED
    BY <2>1, <2>4, <2>5 DEF Keeps
<1>. QED
  BY <1>7, <1>8, <1>9 DEF Find

\* equalRange of a whole key.
LEMMA EqualRangeKeeps ==
    ASSUME HashInRange, PositionsDoNotWrap, IInv, IInv', NEW t \in Threads, ThreadInv(t),
           EqualRange(t)
    PROVE  Keeps(t)
<1> DEFINE c == call[t]
           q == Seen(c.tKey)
<1>1. Reader(t) /\ c.op \in {"operator[]", "equalRange"} /\ pc[t] = "probe" /\ WholeRange(c)
  BY DEF Reader, EqualRange, Probing, WholeRange
<1>2. AtRest(t) /\ RangeLoop(t)
  BY DEF ThreadInv
<1>3. TurnFacts(t)
  BY <1>1, <1>2, Turn
<1>4. lOut[t] = Found(t)
  BY <1>1, <1>2 DEF RangeLoop, Found
<1>5. CASE ik[t] >= m_nCapacity /\ Leave(t, Range_(lOut[t]))
  <2>1. lOut[t] = q /\ q \in Seq(Pairs) /\ Len(q) \in Nat
    BY <1>3, <1>4, <1>5 DEF TurnFacts
  <2>2. SubSeq(q, 1, Len(q)) = q
    <3> HIDE DEF q
    <3>. QED
      BY <2>1, SubSeqFull
  <2>3. Promise!Slice(q, 0, Promise!Taken(q, 0, Len(q))) = q
    <3> HIDE DEF q
    <3>1. Promise!Taken(q, 0, Len(q)) = Len(q)
      BY <2>1 DEF Promise!Taken, Promise!Upto
    <3>2. 0 + 1 = 1 /\ 0 + Len(q) = Len(q)
      BY <2>1
    <3>. QED
      BY <2>2, <3>1, <3>2 DEF Promise!Slice
  <2>4. c.op = "equalRange" => c.iPos = 0 /\ ~ (c.nCount # 0)
    BY <1>1 DEF WholeRange
  <2>5. Right(t, Range_(q))
    BY <1>1, <2>3, <2>4 DEF Right
  <2>. QED
    BY <1>1, <1>5, <2>1, <2>5, ReaderLeaves, Answers
<1>6. ASSUME NEW out, Probing(t), NextTurn(t, iHits[t], out),
             \/ Matches(t) /\ out = Append(lOut[t], Cell(t))
             \/ ~Matches(t) /\ out = lOut[t]
      PROVE  Keeps(t)
  <2>1. /\ UNCHANGED Promise!mvars
        /\ UNCHANGED <<pc, call, m_vHashTable, m_nCapacity>>
        /\ ik'[t] = ik[t] + 1 /\ lOut'[t] = out
        /\ FindLoop(t)' /\ RangeLoop(t)' /\ RangeForPosLoop(t)' /\ ScanLoop(t)' => ThreadInv(t)'
    BY <1>1, <1>6, ReaderTurns DEF Probing
  <2>2. MetBy(t)' = MetBy(t)
    BY <2>1 DEF MetBy
  <2>3. out = MetBy(t)[ik[t] + 1]
    BY <1>3, <1>4, <1>6 DEF TurnFacts, Probing
  <2>4. RangeLoop(t)'
    BY <2>1, <2>2, <2>3 DEF RangeLoop
  <2>5. FindLoop(t)' /\ RangeForPosLoop(t)' /\ ScanLoop(t)'
    BY <1>1, <2>1 DEF FindLoop, RangeForPosLoop, ScanLoop
  <2>. QED
    BY <2>1, <2>4, <2>5 DEF Keeps
<1>. QED
  BY <1>5, <1>6 DEF EqualRange

\* What equalRangeImplForPos leaves out is what the promise leaves out.
LEMMA CutAtLimit ==
    ASSUME NEW S, NEW q \in Seq(S), NEW a \in Nat, NEW n \in Nat,
           n # 0 => Len(q) <= a + n
    PROVE  Promise!Slice(q, a, Promise!Taken(q, a, IF n # 0 THEN n ELSE Len(q)))
              = SubSeq(q, a + 1, Len(q))
<1> DEFINE l == Len(q)
           limit == IF n # 0 THEN n ELSE l
<1>1. l \in Nat
  BY LenProperties
<1> HIDE DEF l
<1>2. limit \in Nat
  BY <1>1
<1>3. CASE l <= a
  <2>1. Promise!Slice(q, a, Promise!Taken(q, a, limit)) = <<>>
    <3> HIDE DEF limit
    <3>. QED
      BY <1>2, <1>3, NothingToCut DEF l
  <2>2. SubSeq(q, a + 1, l) = <<>>
    <3>1. a + 1 \in Int /\ l \in Int /\ l < a + 1
      BY <1>1, <1>3
    <3>. QED
      BY <3>1, SubSeqEmpty
  <2>. QED
    BY <2>1, <2>2 DEF l
<1>4. CASE l > a
  <2>1. Promise!Taken(q, a, limit) = l - a
    BY <1>1, <1>4 DEF Promise!Taken, Promise!Upto, l
  <2>2. a + (l - a) = l
    BY <1>1
  <2>. QED
    BY <2>1, <2>2 DEF Promise!Slice, l
<1>. QED
  BY <1>1, <1>3, <1>4

\* equalRange from a position, with or without a count.
LEMMA EqualRangeForPosKeeps ==
    ASSUME HashInRange, PositionsDoNotWrap, IInv, IInv', NEW t \in Threads, ThreadInv(t),
           EqualRangeForPos(t)
    PROVE  Keeps(t)
<1> DEFINE c == call[t]
           q == Seen(c.tKey)
           a == c.iPos
           F == Found(t)
           hits == iHits[t] + 1
           limit == IF c.nCount # 0 THEN c.nCount ELSE Len(q)
<1>1. Reader(t) /\ c.op = "equalRange" /\ pc[t] = "probe" /\ ~WholeRange(c)
  BY DEF Reader, EqualRangeForPos, Probing
<1>2. AtRest(t) /\ RangeForPosLoop(t)
  BY DEF ThreadInv
<1>3. TurnFacts(t)
  BY <1>1, <1>2, Turn
<1>4. First(t) = a + 1 /\ a \in Nat /\ c.nCount \in Nat
  BY <1>1, <1>3, FirstIsNext DEF TurnFacts
<1>5. /\ iHits[t] = Len(F) /\ iHits[t] \in Nat
      /\ lOut[t] = SubSeq(F, a + 1, iHits[t])
      /\ c.nCount # 0 => iHits[t] <= a + c.nCount
  BY <1>1, <1>2 DEF RangeForPosLoop, Found, IInv, TypeOK
<1>6. /\ F \in Seq(Pairs) /\ q \in Seq(Pairs) /\ Len(q) \in Nat /\ Len(F) <= Len(q)
      /\ \A i \in 1 .. Len(F) : q[i] = F[i]
  BY <1>3 DEF TurnFacts
<1>7. ASSUME Leave(t, Range_(lOut[t])), lOut[t] = Promise!Slice(q, a, Promise!Taken(q, a, limit))
      PROVE  Keeps(t)
  <2>1. Right(t, Range_(lOut[t]))
    BY <1>1, <1>7 DEF Right
  <2>. QED
    BY <1>1, <1>7, <2>1, ReaderLeaves, Answers
<1>8. CASE ik[t] >= m_nCapacity /\ Leave(t, Range_(lOut[t]))
  <2>1. F = q
    BY <1>3, <1>8 DEF TurnFacts
  <2>2. lOut[t] = SubSeq(q, a + 1, Len(q)) /\ (c.nCount # 0 => Len(q) <= a + c.nCount)
    BY <1>5, <2>1
  <2>3. Promise!Slice(q, a, Promise!Taken(q, a, limit)) = SubSeq(q, a + 1, Len(q))
    <3> HIDE DEF q, c
    <3>. QED
      BY <1>4, <1>6, <2>2, CutAtLimit
  <2>. QED
    BY <1>7, <1>8, <2>2, <2>3
<1>9. CASE /\ Probing(t) /\ Matches(t) /\ hits >= First(t)
           /\ c.nCount # 0 /\ hits - First(t) = c.nCount
           /\ Leave(t, Range_(lOut[t]))
  <2>1. iHits[t] = a + c.nCount /\ a + c.nCount <= Len(F)
    BY <1>4, <1>5, <1>9
  <2>2. Len(F) + 1 <= Len(q)
    BY <1>3, <1>9 DEF TurnFacts, Probing
  <2>3. Promise!Taken(q, a, limit) = c.nCount
    BY <1>4, <1>5, <1>6, <1>9, <2>1, <2>2 DEF Promise!Taken, Promise!Upto
  <2>4. SubSeq(q, a + 1, a + c.nCount) = SubSeq(F, a + 1, a + c.nCount)
    <3> DEFINE b == a + c.nCount
    <3>1. a \in Nat /\ b \in Nat /\ b <= Len(F)
      BY <1>4, <2>1
    <3> HIDE DEF q, a, b, F
    <3>2. SubSeq(q, a + 1, b) = SubSeq(F, a + 1, b)
      BY <1>6, <3>1, CutPrefix
    <3>. QED
      BY <3>2 DEF b
  <2>5. lOut[t] = Promise!Slice(q, a, Promise!Taken(q, a, limit))
    BY <1>5, <2>1, <2>3, <2>4 DEF Promise!Slice
  <2>. QED
    BY <1>7, <1>9, <2>5
<1>10. ASSUME NEW h, NEW out, Probing(t), NextTurn(t, h, out),
              h = Len(MetBy(t)[ik[t] + 1]), out = SubSeq(MetBy(t)[ik[t] + 1], a + 1, h),
              c.nCount # 0 => h <= a + c.nCount
      PROVE  Keeps(t)
  <2>1. /\ UNCHANGED Promise!mvars
        /\ UNCHANGED <<pc, call, m_vHashTable, m_nCapacity>>
        /\ ik'[t] = ik[t] + 1 /\ iHits'[t] = h /\ lOut'[t] = out
        /\ FindLoop(t)' /\ RangeLoop(t)' /\ RangeForPosLoop(t)' /\ ScanLoop(t)' => ThreadInv(t)'
    BY <1>1, <1>10, ReaderTurns, ZenonT(30) DEF Probing
  <2>2. MetBy(t)' = MetBy(t)
    BY <2>1 DEF MetBy
  <2>3. RangeForPosLoop(t)'
    BY <1>10, <2>1, <2>2 DEF RangeForPosLoop
  <2>4. FindLoop(t)' /\ RangeLoop(t)' /\ ScanLoop(t)'
    BY <1>1, <2>1 DEF FindLoop, RangeLoop, ScanLoop
  <2>. QED
    BY <2>1, <2>3, <2>4 DEF Keeps
<1>11. CASE Probing(t) /\ ~Matches(t) /\ NextTurn(t, iHits[t], lOut[t])
  <2>1. MetBy(t)[ik[t] + 1] = F
    BY <1>3, <1>11 DEF TurnFacts, Probing
  <2>. QED
    BY <1>5, <1>10, <1>11, <2>1
<1>12. ASSUME Probing(t), Matches(t)
       PROVE  /\ MetBy(t)[ik[t] + 1] = Append(F, Cell(t)) /\ Cell(t) \in Pairs
              /\ Len(MetBy(t)[ik[t] + 1]) = hits
  BY <1>3, <1>5, <1>12 DEF TurnFacts, Probing
<1>13. CASE Probing(t) /\ Matches(t) /\ hits < First(t) /\ NextTurn(t, hits, lOut[t])
  <2>1. hits <= a /\ (c.nCount # 0 => hits <= a + c.nCount)
    BY <1>4, <1>5, <1>13
  <2>2. a + 1 \in Int /\ iHits[t] \in Int /\ hits \in Int /\ iHits[t] < a + 1 /\ hits < a + 1
    BY <1>4, <1>5, <2>1
  <2>3. lOut[t] = <<>> /\ SubSeq(MetBy(t)[ik[t] + 1], a + 1, hits) = <<>>
    BY <1>5, <2>2, SubSeqEmpty
  <2>. QED
    BY <1>10, <1>12, <1>13, <2>1, <2>3
<1>14. CASE /\ Probing(t) /\ Matches(t) /\ hits >= First(t)
            /\ ~(c.nCount # 0 /\ hits - First(t) = c.nCount)
            /\ NextTurn(t, hits, Append(lOut[t], Cell(t)))
  <2>1. a \in 0 .. Len(F) /\ (c.nCount # 0 => hits <= a + c.nCount)
    <3>1. hits >= a + 1 /\ ~(c.nCount # 0 /\ hits - (a + 1) = c.nCount)
      BY <1>4, <1>14
    <3>2. iHits[t] \in Nat /\ a \in Nat /\ c.nCount \in Nat /\ Len(F) = iHits[t]
          /\ (c.nCount # 0 => iHits[t] <= a + c.nCount)
      BY <1>4, <1>5
    <3> HIDE DEF a, F, c
    <3>. QED
      BY <3>1, <3>2
  <2>2. SubSeq(Append(F, Cell(t)), a + 1, Len(F) + 1) = Append(SubSeq(F, a + 1, Len(F)), Cell(t))
    <3> HIDE DEF F, a
    <3>. QED
      BY <1>6, <1>12, <1>14, <2>1, CutAppend
  <2>3. Append(lOut[t], Cell(t)) = SubSeq(MetBy(t)[ik[t] + 1], a + 1, hits)
    BY <1>5, <1>12, <1>14, <2>2
  <2>. QED
    BY <1>10, <1>12, <1>14, <2>1, <2>3
<1>. QED
  BY <1>8, <1>9, <1>11, <1>13, <1>14 DEF EqualRangeForPos
\* With nobody removing or extending, the pairs are those of the table.
LEMMA HeldInTable ==
    ASSUME HashInRange, IInv, PairsAreReachable, \A k \in Keys : Items(k) = Seen(k)
    PROVE  Held = PairsIn(m_vHashTable)
<1>1. /\ m_nCapacity \in Nat \ {0} /\ m_vHashTable \in [0 .. m_nCapacity - 1 -> Cells]
  BY DEF IInv, TypeOK
<1>2. Reachable(m_vHashTable, m_nCapacity)
  BY DEF PairsAreReachable, Reachable
<1>3. Held = UNION {Seqs!ToSet(InProbeOrder(m_vHashTable, m_nCapacity, k)) : k \in Keys}
  BY DEF Held, Seen
<1>. QED
  BY <1>1, <1>2, <1>3, OrderHoldsPairs

\* size.
LEMMA SizeKeeps ==
    ASSUME HashInRange, PlaceInv, PairsAreReachable, IInv, IInv', NEW t \in Threads,
           ThreadInv(t), Size(t)
    PROVE  Keeps(t)
<1>1. /\ Reader(t) /\ call[t].op = "size" /\ pc[t] = "scan" /\ InBody(t)
      /\ call[t].op \in ReadOps
  BY DEF Reader, Size, InBody, ReadOps
<1>2. /\ m_nCapacity \in Nat /\ m_vHashTable \in [0 .. m_nCapacity - 1 -> Cells]
      /\ OnceIn(m_vHashTable) /\ ik[t] \in Nat /\ ik[t] <= m_nCapacity
      /\ iHits[t] = Cardinality(Before(m_vHashTable, ik[t]))
  BY <1>1 DEF IInv, TypeOK, PlaceInv, OnePlacePerPair, ThreadInv, AtRest, ScanLoop
<1>3. CountsUp(m_vHashTable, m_nCapacity)
  BY <1>2, BeforeCounts
<1>4. CASE ik[t] >= m_nCapacity /\ Leave(t, Number(iHits[t]))
  <2>1. Held = PairsIn(m_vHashTable)
    BY <1>1, ReaderItems, HeldInTable
  <2>2. iHits[t] = Cardinality(Held)
    <3>1. ik[t] = m_nCapacity
      BY <1>2, <1>4
    <3>. QED
      BY <1>2, <1>3, <2>1, <3>1 DEF CountsUp
  <2>3. Right(t, Number(iHits[t]))
    BY <1>1, <2>2 DEF Right
  <2>. QED
    BY <1>1, <1>4, <2>3, ReaderLeaves, Answers
<1>5. CASE ik[t] < m_nCapacity
           /\ NextTurn(t, iHits[t] + (IF m_vHashTable[ik[t]] # nullptr THEN 1 ELSE 0), lOut[t])
  <2> DEFINE h == iHits[t] + (IF m_vHashTable[ik[t]] # nullptr THEN 1 ELSE 0)
  <2>1. h = Cardinality(Before(m_vHashTable, ik[t] + 1))
    <3>1. ik[t] \in 0 .. m_nCapacity - 1
      BY <1>2, <1>5
    <3>. QED
      BY <1>2, <1>3, <3>1 DEF CountsUp
  <2> HIDE DEF h
  <2>2. /\ UNCHANGED Promise!mvars
        /\ UNCHANGED <<pc, call, m_vHashTable, m_nCapacity>>
        /\ ik'[t] = ik[t] + 1 /\ iHits'[t] = h
        /\ FindLoop(t)' /\ RangeLoop(t)' /\ RangeForPosLoop(t)' /\ ScanLoop(t)' => ThreadInv(t)'
    BY <1>1, <1>5, ReaderTurns DEF h
  <2>3. FindLoop(t)' /\ RangeLoop(t)' /\ RangeForPosLoop(t)' /\ ScanLoop(t)'
    BY <1>1, <2>1, <2>2 DEF FindLoop, RangeLoop, RangeForPosLoop, ScanLoop
  <2>. QED
    BY <2>2, <2>3 DEF Keeps
<1>. QED
  BY <1>4, <1>5 DEF Size

\* empty.
LEMMA EmptyKeeps ==
    ASSUME HashInRange, PlaceInv, PairsAreReachable, IInv, IInv', NEW t \in Threads,
           ThreadInv(t), Empty(t)
    PROVE  Keeps(t)
<1>1. /\ Reader(t) /\ call[t].op = "empty" /\ pc[t] = "scan" /\ InBody(t)
      /\ call[t].op \in ReadOps
  BY DEF Reader, Empty, InBody, ReadOps
<1>2. /\ m_nCapacity \in Nat /\ m_vHashTable \in [0 .. m_nCapacity - 1 -> Cells]
      /\ OnceIn(m_vHashTable) /\ ik[t] \in Nat /\ ik[t] <= m_nCapacity
      /\ \A i \in 0 .. ik[t] - 1 : m_vHashTable[i] = nullptr
  BY <1>1 DEF IInv, TypeOK, PlaceInv, OnePlacePerPair, ThreadInv, AtRest, ScanLoop
<1>3. ASSUME NEW b \in BOOLEAN, Leave(t, Truth(b)), b <=> PairsIn(m_vHashTable) = {}
      PROVE  Keeps(t)
  <2>1. Held = PairsIn(m_vHashTable)
    BY <1>1, ReaderItems, HeldInTable
  <2>2. IsFiniteSet(PairsIn(m_vHashTable))
    BY <1>2, FreeOrFull
  <2>3. Cardinality(Held) = 0 <=> PairsIn(m_vHashTable) = {}
    BY <2>1, <2>2, FS_EmptySet
  <2>4. b = (Cardinality(Held) = 0)
    BY <1>3, <2>3
  <2>5. Truth(b) = Truth(Cardinality(Held) = 0)
    BY <2>4, Zenon
  <2>6. Right(t, Truth(b))
    BY <1>1, <2>5 DEF Right
  <2>. QED
    BY <1>1, <1>3, <2>6, ReaderLeaves, Answers
<1>4. CASE ik[t] >= m_nCapacity /\ Leave(t, Truth(TRUE))
  <2>1. PairsIn(m_vHashTable) = {}
    BY <1>2, <1>4 DEF PairsIn
  <2>. QED
    BY <1>3, <1>4, <2>1
<1>5. CASE ik[t] < m_nCapacity /\ m_vHashTable[ik[t]] # nullptr /\ Leave(t, Truth(FALSE))
  <2>1. m_vHashTable[ik[t]] \in PairsIn(m_vHashTable)
    BY <1>2, <1>5 DEF PairsIn
  <2>. QED
    BY <1>3, <1>5, <2>1
<1>6. CASE ik[t] < m_nCapacity /\ m_vHashTable[ik[t]] = nullptr /\ NextTurn(t, iHits[t], lOut[t])
  <2>1. /\ UNCHANGED Promise!mvars
        /\ UNCHANGED <<pc, call, m_vHashTable, m_nCapacity>>
        /\ ik'[t] = ik[t] + 1
        /\ FindLoop(t)' /\ RangeLoop(t)' /\ RangeForPosLoop(t)' /\ ScanLoop(t)' => ThreadInv(t)'
    BY <1>1, <1>6, ReaderTurns
  <2>2. \A i \in 0 .. (ik[t] + 1) - 1 : m_vHashTable[i] = nullptr
    BY <1>2, <1>6
  <2>3. FindLoop(t)' /\ RangeLoop(t)' /\ RangeForPosLoop(t)' /\ ScanLoop(t)'
    BY <1>1, <2>1, <2>2 DEF FindLoop, RangeLoop, RangeForPosLoop, ScanLoop
  <2>. QED
    BY <2>1, <2>3 DEF Keeps
<1>. QED
  BY <1>4, <1>5, <1>6 DEF Empty

\* capacity.
LEMMA CapacityKeeps ==
    ASSUME IInv, IInv', NEW t \in Threads, ThreadInv(t), Capacity(t)
    PROVE  Keeps(t)
<1>1. Reader(t) /\ call[t].op = "capacity" /\ Leave(t, Number(m_nCapacity))
  BY DEF Reader, Capacity
<1>2. Right(t, Number(m_nCapacity))
  BY <1>1 DEF Right
<1>. QED
  BY <1>1, <1>2, ReaderLeaves, Answers

\* Every step of every reading operation.
LEMMA ReaderKeeps ==
    ASSUME HashInRange, PositionsDoNotWrap, PlaceInv, PairsAreReachable, IInv, IInv',
           NEW t \in Threads, ThreadInv(t), Reader(t)
    PROVE  Keeps(t)
  BY FindKeeps, EqualRangeKeeps, EqualRangeForPosKeeps, SizeKeeps, EmptyKeeps, CapacityKeeps
     DEF Reader

-----------------------------------------------------------------------------
(***************************************************************************)
(* Calling, locking and unlocking.                                         *)
(***************************************************************************)
\* A step that leaves the table alone, and what its thread accounts for.
LEMMA QuietMap ==
    ASSUME IInv, IInv', NEW t \in Threads, OnlyMine(t), UNCHANGED <<m_vHashTable, m_nCapacity>>,
           \A k \in Keys : Mine(t, k)' = Mine(t, k)
    PROVE  Map' = Map
  BY ItemsStep, MapKept

\* A loop that has not begun knows nothing yet.
Fresh(t) ==
    /\ ik[t] = 0 /\ iHits[t] = 0 /\ lOut[t] = <<>> /\ ret[t] = NoRet
    /\ pc[t] \in {"rdlock", "rdlock2", "wrlock", "probe", "scan", "read", "clear", "extend"}
    /\ pc[t] = "extend" =>
          call[t].op = "extend" /\ nNewCapacity[t] = call[t].nNewCapacity

\* A loop that has not begun has nothing to account for.
FreshStarts == \A t \in Threads : Fresh(t) => ThreadInv(t)

\* It follows from the invariant of the table alone.
LEMMA FreshLoops ==
    ASSUME HashInRange
    PROVE  IInv => FreshStarts
<1> SUFFICES ASSUME IInv, NEW t \in Threads, Fresh(t)
             PROVE  ThreadInv(t)
  BY DEF FreshStarts
<1>1. /\ m_nCapacity \in Nat \ {0} /\ m_vHashTable \in [0 .. m_nCapacity - 1 -> Cells]
      /\ pc[t] # "idle"
  BY DEF IInv, TypeOK, Fresh
<1>2. call[t] \in Calls
  BY <1>1 DEF IInv, PCInv
<1>3. /\ call[t].op \in ProbeOps => call[t].tKey \in Keys
      /\ call[t].op \in {"find", "equalRange", "remove"} => call[t].iPos \in Nat
      /\ call[t].op = "remove" => call[t].nCount \in Nat
  <2>1. call[t].op = "remove" => call[t].nCount \in Nat
    BY <1>2, InterfaceAssumption
       DEF Calls, FindCalls, RangeCalls, SubscriptCalls, InsertCalls, RemoveCalls, ExtendCalls,
           PlainCalls
  <2>. QED
    BY <1>2, <2>1, CallShapes
<1>4. ASSUME call[t].op \in ProbeOps
      PROVE  MetBy(t)[0] = <<>> /\ Len(MetBy(t)[0]) = 0
  <2>1. Collects(m_vHashTable, m_nCapacity, call[t].tKey)
    BY <1>1, <1>3, <1>4, TableCollects
  <2>. QED
    BY <2>1 DEF Collects, MetBy
<1>5. AtRest(t)
  BY <1>1 DEF AtRest, Fresh
<1>6. FindLoop(t)
  BY <1>3, <1>4 DEF FindLoop, Fresh, ProbeOps
<1>7. RangeLoop(t)
  BY <1>4 DEF RangeLoop, Fresh, ProbeOps, WholeRange
<1>8. RangeForPosLoop(t)
  <2>1. ASSUME call[t].op = "equalRange"
        PROVE  SubSeq(<<>>, call[t].iPos + 1, 0) = <<>>
    <3>1. call[t].iPos + 1 \in Int /\ 0 \in Int /\ 0 < call[t].iPos + 1
      BY <1>3, <2>1
    <3>. QED
      BY <3>1, SubSeqEmpty
  <2>2. call[t].op = "equalRange" => call[t].nCount \in Nat
    BY <1>2, InterfaceAssumption
       DEF Calls, FindCalls, RangeCalls, SubscriptCalls, InsertCalls, RemoveCalls, ExtendCalls,
           PlainCalls
  <2>3. ASSUME call[t].op = "equalRange"
        PROVE  /\ iHits[t] = Len(MetBy(t)[ik[t]])
               /\ lOut[t] = SubSeq(MetBy(t)[ik[t]], call[t].iPos + 1, iHits[t])
               /\ call[t].nCount # 0 => iHits[t] <= call[t].iPos + call[t].nCount
    <3>1. MetBy(t)[0] = <<>> /\ Len(MetBy(t)[0]) = 0 /\ call[t].iPos \in Nat
          /\ call[t].nCount \in Nat
      BY <1>3, <1>4, <2>2, <2>3 DEF ProbeOps
    <3>2. ik[t] = 0 /\ iHits[t] = 0 /\ lOut[t] = <<>>
      BY DEF Fresh
    <3>3. 0 <= call[t].iPos + call[t].nCount
      BY <3>1
    <3>. QED
      BY <2>1, <2>3, <3>1, <3>2, <3>3
  <2>. QED
    BY <2>3 DEF RangeForPosLoop
<1>9. ScanLoop(t)
  <2>1. Before(m_vHashTable, 0) = {}
    BY DEF Before
  <2>2. Cardinality(Before(m_vHashTable, 0)) = 0
    BY <2>1, FS_EmptySet
  <2>3. ik[t] = 0 /\ iHits[t] = 0
    BY DEF Fresh
  <2>4. \A i \in 0 .. ik[t] - 1 : FALSE
    BY <2>3
  <2>. QED
    BY <2>2, <2>3, <2>4 DEF ScanLoop
<1>10. InsertLoop(t)
  BY <1>1 DEF InsertLoop, Fresh
<1>11. RemoveLoop(t)
  <2>1. ASSUME call[t].op = "remove"
        PROVE  Past(0, call[t].iPos, RemoveLimit(call[t])) = 0
    <3>1. RemoveLimit(call[t]) \in Nat
      BY <1>1, <1>3, <2>1 DEF RemoveLimit
    <3>. QED
      BY <1>3, <2>1, <3>1 DEF Past
  <2>. QED
    BY <1>4, <2>1 DEF RemoveLoop, Fresh, ProbeOps
<1>12. ExtendLoop(t)
  BY DEF ExtendLoop, Fresh, Extending
<1>. QED
  BY <1>5, <1>6, <1>7, <1>8, <1>9, <1>10, <1>11, <1>12 DEF ThreadInv

\* The same after a step.
LEMMA FreshLoopsNext ==
    ASSUME HashInRange
    PROVE  IInv' => FreshStarts'
<1>1. IInv => FreshStarts
  BY FreshLoops
<1>. QED
  BY <1>1, PTL

\* A call begins.
LEMMA InvokeKeeps ==
    ASSUME HashInRange, IInv, IInv', NEW t \in Threads, ThreadInv(t),
           NEW c \in Calls, Invoke(t, c)
    PROVE  Keeps(t)
<1>1. /\ pc[t] = "idle" /\ call[t] = NoCall /\ ret[t] = NoRet
      /\ ik[t] = 0 /\ iHits[t] = 0 /\ lOut[t] = <<>>
  BY DEF Invoke, ThreadInv, AtRest
<1>2. /\ pc'[t] \in {"rdlock", "wrlock"}
      /\ call' = [call EXCEPT ![t] = c]
      /\ UNCHANGED <<m_vHashTable, m_nCapacity, nPairs, ret, ik, iHits, lOut>>
  BY DEF Invoke, IInv, TypeOK, Goto, tableVars, loopVars
<1>3. Fresh(t)'
  BY <1>1, <1>2 DEF Fresh
<1>4. ThreadInv(t)'
  BY <1>3, FreshLoopsNext DEF FreshStarts
<1>5. Map' = Map
  <2>1. OnlyMine(t)
    BY StepsAreMine DEF IInv
  <2>2. \A k \in Keys : Mine(t, k)' = Mine(t, k)
    BY <1>1, <1>2 DEF Mine, Extending, Removing, Seen
  <2>. QED
    BY <1>2, <2>1, <2>2, QuietMap
<1>6. Promise!Call(t, c)
  <2>1. c.op \in Ops
    BY DEF Invoke
  <2>. QED
    BY <1>1, <1>2, <1>5, <2>1, MapIsItems, SpeakTheSame DEF Promise!Call, SameWords
<1>7. Promise!Next
  BY <1>6, SpeakTheSame DEF Promise!Next, SameWords
<1>. QED
  BY <1>4, <1>7 DEF Keeps

\* A thread gets the lock.
Acquires(t) == AcquireRead(t) \/ AcquireReadAgain(t) \/ AcquireWrite(t)

\* Getting the lock starts the operation's loop.
LEMMA AcquireKeeps ==
    ASSUME HashInRange, IInv, IInv', NEW t \in Threads, ThreadInv(t), Acquires(t)
    PROVE  Keeps(t)
<1>1. /\ pc[t] \in {"rdlock", "rdlock2", "wrlock"} /\ call[t] \in Calls
      /\ UNCHANGED <<m_vHashTable, m_nCapacity, nPairs, call, ret, ik, iHits, lOut>>
  BY DEF Acquires, AcquireRead, AcquireReadAgain, AcquireWrite, tableVars, loopVars, IInv, PCInv
<1>2. ret[t] = NoRet /\ ik[t] = 0 /\ iHits[t] = 0 /\ lOut[t] = <<>>
  BY <1>1 DEF ThreadInv, AtRest
<1>3. call[t].op \in AllOps
  BY <1>1, CallShapes
<1>4. /\ pc'[t] \in {"rdlock2", "probe", "scan", "read", "clear", "extend"}
      /\ pc'[t] = "extend" => /\ call[t].op = "extend"
                              /\ nNewCapacity'[t] = call[t].nNewCapacity
  <2>1. CASE AcquireRead(t)
    <3>1. call[t].op \in ReadOps
      BY <2>1 DEF AcquireRead, IInv, PCInv
    <3>2. Entry(call[t]) \in {"probe", "scan", "read"}
      BY <3>1 DEF ReadOps, Entry
    <3>. QED
      BY <2>1, <3>2 DEF AcquireRead, Goto, IInv, TypeOK
  <2>2. CASE AcquireReadAgain(t)
    BY <2>2 DEF AcquireReadAgain, Goto, IInv, TypeOK
  <2>3. CASE AcquireWrite(t)
    <3>1. call[t].op \in WriteOps
      BY <2>3 DEF AcquireWrite, IInv, PCInv
    <3>2. /\ Entry(call[t]) \in {"probe", "extend", "clear"}
          /\ Entry(call[t]) = "extend" => call[t].op = "extend"
      BY <3>1 DEF WriteOps, Entry
    <3>. QED
      BY <2>3, <3>2 DEF AcquireWrite, Goto, IInv, TypeOK
  <2>. QED
    BY <2>1, <2>2, <2>3 DEF Acquires
<1>5. Fresh(t)'
  BY <1>1, <1>2, <1>4 DEF Fresh
<1>6. ThreadInv(t)'
  BY <1>5, FreshLoopsNext DEF FreshStarts
<1>7. Map' = Map
  <2>1. OnlyMine(t)
    BY StepsAreMine DEF IInv, Acquires, Step
  <2>2. \A k \in Keys : Mine(t, k)' = Mine(t, k)
    BY <1>1, <1>2, <1>4 DEF Mine, Extending, Removing, Seen, PutBack
  <2>. QED
    BY <1>1, <2>1, <2>2, QuietMap
<1>. QED
  BY <1>1, <1>6, <1>7, Stutter DEF Keeps

\* Unlocking returns to the caller.
LEMMA ReleaseKeeps ==
    ASSUME IInv, IInv', NEW t \in Threads, ThreadInv(t), Release(t)
    PROVE  Keeps(t)
<1>1. /\ pc[t] = "unlock" /\ ret[t] # NoRet
      /\ ik[t] = 0 /\ iHits[t] = 0 /\ lOut[t] = <<>>
      /\ UNCHANGED <<m_vHashTable, m_nCapacity, nPairs, ik, iHits, lOut>>
  BY DEF Release, ThreadInv, AtRest, tableVars, loopVars
<1>2. \/ /\ pc'[t] = "idle" /\ call' = [call EXCEPT ![t] = NoCall]
         /\ ret' = [ret EXCEPT ![t] = NoRet]
      \/ UNCHANGED <<pc, call, ret>>
  BY DEF Release, Goto, IInv, TypeOK
<1>3. call \in [Threads -> Calls \cup {NoCall}] /\ ret \in [Threads -> Results \cup {NoRet}]
  BY DEF IInv, TypeOK
<1>4. ThreadInv(t)'
  BY <1>1, <1>2, <1>3
     DEF ThreadInv, AtRest, FindLoop, RangeLoop, RangeForPosLoop, ScanLoop, InsertLoop,
         RemoveLoop, ExtendLoop, Extending
<1>5. Map' = Map
  <2>1. OnlyMine(t)
    BY StepsAreMine DEF IInv, Step
  <2>2. \A k \in Keys : Mine(t, k)' = Mine(t, k)
    BY <1>1, <1>2 DEF Mine, Extending, Removing, Seen
  <2>. QED
    BY <1>1, <2>1, <2>2, QuietMap
<1>6. CASE UNCHANGED <<pc, call, ret>>
  BY <1>1, <1>4, <1>5, <1>6, Stutter DEF Keeps
<1>7. CASE call' = [call EXCEPT ![t] = NoCall] /\ ret' = [ret EXCEPT ![t] = NoRet]
  <2>1. Promise!Return(t)
    BY <1>1, <1>5, <1>7, MapIsItems, SpeakTheSame DEF Promise!Return, SameWords
  <2>. QED
    BY <1>4, <2>1 DEF Keeps, Promise!Next
<1>. QED
  BY <1>2, <1>6, <1>7

-----------------------------------------------------------------------------
(***************************************************************************)
(* clear and insert.                                                       *)
(***************************************************************************)
\* A step of the writer: it accounts for the map before and after it.
LEMMA WriterSteps ==
    ASSUME IInv, IInv', NEW t \in Threads, Writing(t), OnlyMine(t)
    PROVE  \A k \in Keys : Items(k) = Mine(t, k) /\ Items(k)' = Mine(t, k)'
<1>1. Alone(t)
  BY OneWrites DEF Alone
<1>2. Alone(t)'
  BY <1>1 DEF Alone, OnlyMine, Writing, InBody
<1>. QED
  BY <1>1, <1>2, AloneItems, AloneItemsNext DEF ItemsKnown

\* A new table holds no pairs.
LEMMA EmptyProbe ==
    ASSUME HashInRange, NEW m \in Nat \ {0}, NEW k \in Keys
    PROVE  InProbeOrder(NewTable(m), m, k) = <<>>
<1>1. NewTable(m) \in [0 .. m - 1 -> Cells]
  BY DEF NewTable, Cells
<1>2. Collects(NewTable(m), m, k)
  BY <1>1, TableCollects
<1>3. \A i \in 0 .. m - 1 : ~IsOf(At(NewTable(m), m, k, i), k)
  BY StepInTable DEF NewTable, At, IsOf
<1>4. 0 \in 0 .. m /\ m \in 0 .. m
  OBVIOUS
<1>5. \A n \in 0 .. m : Met(NewTable(m), m, k)[n] = Met(NewTable(m), m, k)[0]
  BY <1>2, <1>3, <1>4, MetRest
<1>. QED
  BY <1>2, <1>4, <1>5 DEF Collects, InProbeOrder

\* One cell changes: the keys it does not concern, and the key it does.
LEMMA OtherKey ==
    ASSUME HashInRange, NEW m \in Nat \ {0}, NEW tab \in [0 .. m - 1 -> Cells],
           NEW new \in [0 .. m - 1 -> Cells], NEW x \in 0 .. m - 1,
           \A j \in 0 .. m - 1 : j # x => new[j] = tab[j],
           NEW k \in Keys, ~IsOf(tab[x], k), ~IsOf(new[x], k)
    PROVE  InProbeOrder(new, m, k) = InProbeOrder(tab, m, k)
<1>1. Collects(tab, m, k) /\ Collects(new, m, k)
  BY TableCollects
<1>2. m \in 0 .. m
  OBVIOUS
<1>3. \A i \in 0 .. m - 1 :
         i < m /\ (IsOf(At(tab, m, k, i), k) \/ IsOf(At(new, m, k, i), k))
            => At(new, m, k, i) = At(tab, m, k, i)
  BY StepInTable DEF At
<1>4. \A n \in 0 .. m : Met(new, m, k)[n] = Met(tab, m, k)[n]
  BY <1>1, <1>2, <1>3, MetSame
<1>. QED
  BY <1>2, <1>4 DEF InProbeOrder

\* A pair put into a cell joins the pairs of its key.
LEMMA ItsKey ==
    ASSUME HashInRange, NEW m \in Nat \ {0}, VisitsOnce(m), NEW tab \in [0 .. m - 1 -> Cells],
           NEW new \in [0 .. m - 1 -> Cells], NEW k \in Keys, NEW s \in 0 .. m - 1,
           \A j \in 0 .. m - 1 : j # hashFunction(m, k, s) => new[j] = tab[j],
           ~IsOf(At(tab, m, k, s), k), IsOf(At(new, m, k, s), k)
    PROVE  Joins(Met(new, m, k), Met(tab, m, k), m, s, At(new, m, k, s))
<1>1. Collects(tab, m, k) /\ Collects(new, m, k)
  BY TableCollects
<1>2. \A i \in 0 .. m - 1 : i # s => At(new, m, k, i) = At(tab, m, k, i)
  BY StepInTable DEF At, VisitsOnce
<1>. QED
  BY <1>1, <1>2, MetPut

\* clear.
LEMMA ClearKeeps ==
    ASSUME HashInRange, IInv, IInv', NEW t \in Threads, ThreadInv(t), Clear(t)
    PROVE  Keeps(t)
<1>1. /\ pc[t] = "clear" /\ call[t].op = "clear" /\ call[t] # NoCall /\ ret[t] = NoRet
      /\ Writing(t) /\ OnlyMine(t)
  BY StepsAreMine DEF Clear, ThreadInv, AtRest, Writing, InBody, WriteOps, Step, IInv, NoCall
<1>2. /\ m_vHashTable' = NewTable(DefaultCapacity) /\ m_nCapacity' = DefaultCapacity
      /\ ret' = [ret EXCEPT ![t] = Void] /\ UNCHANGED <<nPairs, call>>
      /\ pc'[t] = "unlock" /\ ik'[t] = 0 /\ iHits'[t] = 0 /\ lOut'[t] = <<>> /\ ret'[t] = Void
  BY DEF Clear, Leave, IInv, TypeOK
<1>3. ThreadInv(t)'
  BY <1>2, Answers
     DEF ThreadInv, AtRest, FindLoop, RangeLoop, RangeForPosLoop, ScanLoop, InsertLoop,
         RemoveLoop, ExtendLoop, Extending
<1>4. Map' = [k \in Keys |-> <<>>]
  <2>1. \A k \in Keys : Items(k)' = Mine(t, k)'
    BY <1>1, WriterSteps
  <2>2. \A k \in Keys : Mine(t, k)' = Seen(k)'
    BY <1>2 DEF Mine, Extending, Removing
  <2>3. \A k \in Keys : Seen(k)' = <<>>
    BY <1>2, InterfaceAssumption, EmptyProbe DEF Seen
  <2>. QED
    BY <2>1, <2>2, <2>3 DEF Map
<1>5. Promise!ClearEffect(t)
  BY <1>2, <1>4, MapIsItems, SpeakTheSame DEF Promise!ClearEffect, Promise!Answer, SameWords
<1>6. Promise!Effect(t)
  BY <1>1, <1>2, <1>5, SpeakTheSame DEF Promise!Effect, SameWords
<1>. QED
  BY <1>3, <1>6 DEF Keeps, Promise!Next

\* insert goes on from a full cell.
LEMMA InsertTurns ==
    ASSUME IInv, IInv', NEW t \in Threads, ThreadInv(t), Insert(t), Probing(t), Cell(t) # nullptr
    PROVE  Keeps(t)
<1>1. /\ pc[t] = "probe" /\ call[t].op = "insert" /\ ik[t] < m_nCapacity
      /\ Writing(t) /\ OnlyMine(t)
  BY StepsAreMine DEF Insert, Probing, Writing, InBody, WriteOps, Step, IInv
<1>2. /\ UNCHANGED <<m_vHashTable, m_nCapacity, nPairs, call, pc, ret>>
      /\ ik'[t] = ik[t] + 1 /\ iHits'[t] = iHits[t] /\ lOut'[t] = lOut[t]
  BY <1>1 DEF Insert, NextTurn, tableVars, IInv, TypeOK
<1>3. ik[t] \in Nat /\ m_nCapacity \in Nat
  BY DEF IInv, TypeOK
<1>4. Cell(t) = At(m_vHashTable, m_nCapacity, call[t].tKey, ik[t])
  BY DEF Cell, CellNo, At
<1>5. InsertLoop(t)'
  <2>1. \A i \in 0 .. m_nCapacity - 1 : i < ik[t] + 1 => i < ik[t] \/ i = ik[t]
    BY <1>3
  <2>2. /\ iHits[t] = 0 /\ lOut[t] = <<>>
        /\ \A i \in 0 .. m_nCapacity - 1 :
              i < ik[t] => At(m_vHashTable, m_nCapacity, call[t].tKey, i) # nullptr
    BY <1>1 DEF ThreadInv, InsertLoop
  <2>3. \A i \in 0 .. m_nCapacity - 1 :
              i < ik[t] + 1 => At(m_vHashTable, m_nCapacity, call[t].tKey, i) # nullptr
    BY <1>4, <2>1, <2>2
  <2>. QED
    BY <1>2, <2>2, <2>3 DEF InsertLoop, At
<1>6. AtRest(t)'
  <2>1. ik[t] + 1 <= m_nCapacity
    BY <1>1, <1>3
  <2>. QED
    BY <1>1, <1>2, <2>1 DEF ThreadInv, AtRest
<1>7. ThreadInv(t)'
  BY <1>1, <1>2, <1>5, <1>6
     DEF ThreadInv, FindLoop, RangeLoop, RangeForPosLoop, ScanLoop, RemoveLoop, ExtendLoop,
         Extending, WholeRange
<1>8. Map' = Map
  <2>1. \A k \in Keys : Mine(t, k)' = Mine(t, k)
    BY <1>1, <1>2 DEF Mine, Extending, Removing, Seen
  <2>. QED
    BY <1>1, <1>2, <2>1, QuietMap
<1>. QED
  BY <1>2, <1>7, <1>8, Stutter DEF Keeps

\* A probe without a free cell: the map is full.
LEMMA InsertIsFull ==
    ASSUME HashInRange, VisitsOnce(m_nCapacity), PlaceInv, PairsAreReachable, IInv, IInv',
           NEW t \in Threads, ThreadInv(t), Insert(t), pc[t] = "probe", ik[t] >= m_nCapacity
    PROVE  Keeps(t)
<1>1. call[t].op = "insert" /\ Writing(t) /\ OnlyMine(t) /\ call[t] \in Calls
  BY StepsAreMine DEF Insert, Writing, InBody, WriteOps, Step, IInv, PCInv
<1>2. /\ UNCHANGED <<m_vHashTable, m_nCapacity, nPairs, call, ret, ik, iHits, lOut>>
      /\ pc'[t] = "extend" /\ nNewCapacity'[t] = GrownCapacity
  BY DEF Insert, Probing, Goto, tableVars, loopVars, IInv, TypeOK
<1>3. /\ m_nCapacity \in Nat \ {0} /\ m_vHashTable \in [0 .. m_nCapacity - 1 -> Cells]
      /\ call[t].tKey \in Keys /\ ik[t] \in Nat /\ OnceIn(m_vHashTable)
  BY <1>1, CallShapes DEF IInv, TypeOK, ProbeOps, PlaceInv, OnePlacePerPair
<1>4. \A k \in Keys : Items(k) = Seen(k) /\ Items(k)' = Seen(k)
  <2>1. \A k \in Keys : Mine(t, k) = Seen(k) /\ Mine(t, k)' = Seen(k)
    BY <1>1, <1>2 DEF Mine, Extending, Removing, Seen
  <2>. QED
    BY <1>1, <2>1, WriterSteps
<1>5. Cardinality(Held) = m_nCapacity
  <2>1. \A i \in 0 .. m_nCapacity - 1 :
           At(m_vHashTable, m_nCapacity, call[t].tKey, i) # nullptr
    BY <1>1, <1>3 DEF ThreadInv, InsertLoop
  <2>2. \A x \in 0 .. m_nCapacity - 1 : m_vHashTable[x] # nullptr
    BY <1>3, <2>1, ProbeSeesAll
  <2>3. Held = PairsIn(m_vHashTable)
    BY <1>4, HeldInTable
  <2>. QED
    BY <1>3, <2>2, <2>3, FreeOrFull
<1>6. Held' = Held
  BY <1>4 DEF Held
<1>7. ThreadInv(t)'
  <2>1. iHits[t] = 0 /\ lOut[t] = <<>> /\ ret[t] = NoRet
    BY <1>1 DEF ThreadInv, InsertLoop, AtRest
  <2>2. ExtendLoop(t)'
    BY <1>1, <1>2, <1>5, <1>6 DEF ExtendLoop, Extending, GrownCapacity
  <2>3. AtRest(t)'
    BY <1>2, <2>1 DEF AtRest
  <2>. QED
    BY <1>2, <2>2, <2>3
       DEF ThreadInv, FindLoop, RangeLoop, RangeForPosLoop, ScanLoop, InsertLoop, RemoveLoop
<1>8. Map' = Map
  BY <1>4, MapKept
<1>. QED
  BY <1>2, <1>7, <1>8, Stutter DEF Keeps

\* The first free cell of the probe takes the new pair.
LEMMA InsertPuts ==
    ASSUME HashInRange, VisitsOnce(m_nCapacity), PlaceInv, PairsAreReachable, IInv, IInv',
           NEW t \in Threads, ThreadInv(t), Insert(t), Probing(t), Cell(t) = nullptr,
           NEW k \in Keys, call[t].tKey = k
    PROVE  Keeps(t)
<1> DEFINE m == m_nCapacity
           x == CellNo(t)
           p == [key |-> k, val |-> nPairs + 1]
           q == Seen(k)
           a == Len(Met(m_vHashTable, m, k)[ik[t]])
<1>1. /\ call[t].op = "insert" /\ Writing(t) /\ OnlyMine(t) /\ call[t] \in Calls
      /\ pc[t] = "probe" /\ ik[t] < m
  BY StepsAreMine DEF Insert, Probing, Writing, InBody, WriteOps, Step, IInv, PCInv
<1>2. /\ UNCHANGED <<m_nCapacity, call>> /\ nPairs' = nPairs + 1
      /\ m_vHashTable' = [m_vHashTable EXCEPT ![x] = p]
      /\ ret' = [ret EXCEPT ![t] = Void]
      /\ pc'[t] = "unlock" /\ ik'[t] = 0 /\ iHits'[t] = 0 /\ lOut'[t] = <<>> /\ ret'[t] = Void
  <2>1. /\ nPairs' = nPairs + 1
        /\ m_vHashTable' = [m_vHashTable EXCEPT ![CellNo(t)] =
                                [key |-> call[t].tKey, val |-> nPairs']]
        /\ Leave(t, Void) /\ UNCHANGED <<m_nCapacity, call>>
    <3>1. ik[t] \in Nat /\ m_nCapacity \in Nat
      BY DEF IInv, TypeOK
    <3>. QED
      BY <1>1, <3>1 DEF Insert, Probing
  <2>2. m_vHashTable' = [m_vHashTable EXCEPT ![x] = p]
    BY <2>1
  <2>. QED
    BY <2>1, <2>2 DEF Leave, IInv, TypeOK
<1>3. /\ m \in Nat \ {0} /\ m_vHashTable \in [0 .. m - 1 -> Cells]
      /\ m_vHashTable' \in [0 .. m - 1 -> Cells]
      /\ ik[t] \in 0 .. m - 1 /\ OnceIn(m_vHashTable) /\ nPairs \in Nat
  BY <1>1, <1>2, CallShapes DEF IInv, TypeOK, ProbeOps, PlaceInv, OnePlacePerPair
<1>4. /\ x \in 0 .. m - 1 /\ x = hashFunction(m, k, ik[t]) /\ m_vHashTable[x] = nullptr
      /\ m_vHashTable'[x] = p
      /\ \A j \in 0 .. m - 1 : j # x => m_vHashTable'[j] = m_vHashTable[j]
  <2>1. x = hashFunction(m, k, ik[t]) /\ m_vHashTable[x] = nullptr
    BY DEF Cell, CellNo
  <2>2. x \in 0 .. m - 1
    BY <1>3, <2>1, StepInTable
  <2>. QED
    BY <1>2, <1>3, <2>1, <2>2
<1>5. p \in Pairs /\ p # nullptr /\ p.key = k
  <2>1. p \in Pairs
    BY <1>3 DEF Pairs
  <2>. QED
    BY <2>1, HashMapAssumption
<1>6. ThreadInv(t)'
  BY <1>2, Answers
     DEF ThreadInv, AtRest, FindLoop, RangeLoop, RangeForPosLoop, ScanLoop, InsertLoop,
         RemoveLoop, ExtendLoop, Extending
<1>7. \A l \in Keys : Items(l) = Seen(l) /\ Items(l)' = InProbeOrder(m_vHashTable', m, l)
  <2>1. \A l \in Keys : Mine(t, l) = Seen(l) /\ Mine(t, l)' = Seen(l)'
    BY <1>1, <1>2 DEF Mine, Extending, Removing
  <2>2. \A l \in Keys : Seen(l)' = InProbeOrder(m_vHashTable', m, l)
    BY <1>2 DEF Seen
  <2>. QED
    BY <1>1, <2>1, <2>2, WriterSteps
<1>8. ASSUME NEW l \in Keys, l # k
      PROVE  Items(l)' = Items(l)
  <2>1. ~IsOf(m_vHashTable[x], l) /\ ~IsOf(m_vHashTable'[x], l)
    BY <1>4, <1>5, <1>8 DEF IsOf
  <2>2. InProbeOrder(m_vHashTable', m, l) = InProbeOrder(m_vHashTable, m, l)
    <3> DEFINE new == m_vHashTable'
    <3>1. /\ new \in [0 .. m - 1 -> Cells] /\ \A j \in 0 .. m - 1 : j # x => new[j] = m_vHashTable[j]
          /\ ~IsOf(new[x], l)
      BY <1>3, <1>4, <2>1
    <3> HIDE DEF new, x
    <3>2. InProbeOrder(new, m, l) = InProbeOrder(m_vHashTable, m, l)
      BY <1>3, <1>4, <2>1, <3>1, OtherKey, ZenonT(30)
    <3>. QED
      BY <3>2 DEF new
  <2>. QED
    BY <1>7, <2>2 DEF Seen
<1>9. a \in 0 .. Len(q) /\ Items(k)' = Between(q, a, <<p>>)
  <2> DEFINE new == m_vHashTable'
             s == ik[t]
  <2>1. /\ new \in [0 .. m - 1 -> Cells]
        /\ \A j \in 0 .. m - 1 : j # hashFunction(m, k, s) => new[j] = m_vHashTable[j]
        /\ ~IsOf(At(m_vHashTable, m, k, s), k) /\ IsOf(At(new, m, k, s), k)
        /\ At(new, m, k, s) = p /\ s \in 0 .. m - 1
    BY <1>3, <1>4, <1>5 DEF At, IsOf
  <2> HIDE DEF new, s, p
  <2>2. Joins(Met(new, m, k), Met(m_vHashTable, m, k), m, s, At(new, m, k, s))
    BY <1>3, <2>1, ItsKey
  <2>3. m \in 0 .. m /\ m > s
    BY <1>3, <2>1
  <2>4. /\ Len(Met(m_vHashTable, m, k)[s]) \in 0 .. Len(Met(m_vHashTable, m, k)[m])
        /\ Met(new, m, k)[m] =
             Between(Met(m_vHashTable, m, k)[m], Len(Met(m_vHashTable, m, k)[s]), <<p>>)
    BY <2>1, <2>2, <2>3 DEF Joins
  <2>. QED
    BY <1>3, <1>7, <2>4 DEF new, s, Seen, InProbeOrder
<1>10. q \in Seq(Pairs)
  <2>1. Collects(m_vHashTable, m, k)
    BY <1>3, TableCollects
  <2>2. m \in 0 .. m
    BY <1>3
  <2>. QED
    BY <2>1, <2>2 DEF Collects, Seen, InProbeOrder
<1>11. Map' = [Map EXCEPT ![k] = Promise!InsertAt(@, a + 1, p)]
  <2>0. Map = [l \in Keys |-> Items(l)] /\ Map' = [l \in Keys |-> Items(l)']
    BY DEF Map
  <2>1. Map[k] = q /\ Map'[k] = Between(q, a, <<p>>)
    <3>1. Items(k) = q /\ Items(k)' = Between(q, a, <<p>>) /\ k \in Keys
      BY <1>3, <1>7, <1>9
    <3>2. Map[k] = Items(k)
      BY <2>0, <3>1
    <3>3. Map'[k] = Items(k)'
      BY <2>0, <3>1
    <3> HIDE DEF q, a, p
    <3>. QED
      BY <3>1, <3>2, <3>3
  <2>2. Between(q, a, <<p>>) = Promise!InsertAt(q, a + 1, p)
    <3>1. (a + 1) - 1 = a
      <4>1. a \in Int
        BY <1>9
      <4> HIDE DEF a
      <4>. QED
        BY <4>1
    <3> HIDE DEF a, q, p
    <3>. QED
      BY <3>1 DEF Between, Promise!InsertAt
  <2>3. \A l \in Keys : l # k => Map'[l] = Map[l]
    BY <1>8 DEF Map
  <2> HIDE DEF a, p, q
  <2>. QED
    BY <1>3, <2>1, <2>2, <2>3 DEF Map
<1>12. Promise!Total < m_nCapacity
  <2>1. Held = PairsIn(m_vHashTable)
    BY <1>7, HeldInTable
  <2>2. Cardinality(PairsIn(m_vHashTable)) < m
    BY <1>3, <1>4, FreeOrFull
  <2>. QED
    BY <2>1, <2>2, TotalHeld
<1>13. Promise!InsertEffect(t, call[t])
  <2> DEFINE items == [l \in Keys |-> Items(l)]
  <2>1. items = Map /\ items' = Map'
    BY MapIsItems
  <2>2. items[k] = q
    BY <1>3, <1>7
  <2>3. a \in 0 .. Len(items[k])
    BY <1>9, <2>2
  <2>4. [key |-> call[t].tKey, val |-> nPairs'] = p
    BY <1>2
  <2>5. items' = [items EXCEPT ![k] = Promise!InsertAt(@, a + 1, [key |-> call[t].tKey, val |-> nPairs'])]
    BY <1>11, <2>1, <2>4
  <2>6. Promise!Answer(t, Promise!Void)
    BY <1>2, SpeakTheSame DEF Promise!Answer, SameWords
  <2> HIDE DEF a
  <2>. QED
    BY <1>2, <1>12, <2>3, <2>5, <2>6 DEF Promise!InsertEffect
<1>14. ret[t] = NoRet /\ call[t] # NoCall
  BY <1>1, CallShapes DEF ThreadInv, AtRest
<1>15. Promise!Effect(t)
  BY <1>1, <1>2, <1>13, <1>14, SpeakTheSame DEF Promise!Effect, SameWords
<1>. QED
  BY <1>6, <1>15 DEF Keeps, Promise!Next

\* Every step of insert.
LEMMA InsertKeeps ==
    ASSUME HashInRange, VisitsOnce(m_nCapacity), PlaceInv, PairsAreReachable, IInv, IInv',
           NEW t \in Threads, ThreadInv(t), Insert(t)
    PROVE  Keeps(t)
<1>1. pc[t] = "probe" /\ (ik[t] >= m_nCapacity \/ Probing(t))
  BY DEF Insert, Probing
<1>2. call[t].tKey \in Keys
  <2>1. call[t] \in Calls /\ call[t].op = "insert"
    BY <1>1 DEF Insert, IInv, PCInv
  <2>. QED
    BY <2>1, CallShapes DEF ProbeOps
<1>. QED
  BY <1>1, <1>2, InsertTurns, InsertIsFull, InsertPuts

-----------------------------------------------------------------------------
(***************************************************************************)
(* remove.                                                                 *)
(***************************************************************************)
\* What a turn of removeImpl knows of the pairs it has passed and taken.
RemoveFacts(t) ==
    /\ call[t].iPos \in Nat /\ RemoveLimit(call[t]) \in Nat /\ call[t] \in Calls
    /\ First(t) = call[t].iPos + 1
    /\ iHits[t] \in Nat /\ lOut[t] \in Seq(Pairs) /\ Len(lOut[t]) \in Nat
    /\ Len(lOut[t]) = Past(iHits[t], call[t].iPos, RemoveLimit(call[t]))
    /\ Len(Found(t)) = iHits[t] - Len(lOut[t])
    /\ lOut[t] # <<>> => call[t].iPos <= Len(Found(t))
    /\ Writing(t) /\ OnlyMine(t) /\ ret[t] = NoRet
    /\ call[t].op = "remove" /\ pc[t] = "probe"
    /\ UNCHANGED <<m_nCapacity, nPairs, call>>
    /\ \A k \in Keys : Mine(t, k) = IF k = call[t].tKey
                                    THEN PutBack(Seen(k), call[t].iPos, lOut[t]) ELSE Seen(k)

\* What remove knows at a turn of its loop.
LEMMA RemoveKnows ==
    ASSUME HashInRange, PositionsDoNotWrap, IInv, NEW t \in Threads, ThreadInv(t), Remove(t)
    PROVE  TurnFacts(t) /\ RemoveFacts(t)
<1>1. /\ call[t].op = "remove" /\ pc[t] = "probe" /\ call[t] \in Calls
      /\ UNCHANGED <<m_nCapacity, nPairs, call>>
  BY DEF Remove, Probing, IInv, PCInv
<1>2. Writing(t) /\ OnlyMine(t) /\ ret[t] = NoRet
  BY <1>1, StepsAreMine DEF Writing, InBody, WriteOps, Step, IInv, ThreadInv, AtRest
<1>3. TurnFacts(t)
  BY <1>1, Turn DEF ThreadInv
<1>4. call[t].iPos \in Nat /\ call[t].nCount \in Nat /\ First(t) = call[t].iPos + 1
  BY <1>1, FirstIsNext
<1>5. RemoveLimit(call[t]) \in Nat
  BY <1>4 DEF RemoveLimit, IInv, TypeOK
<1>6. iHits[t] \in Nat /\ lOut[t] \in Seq(Pairs) /\ Len(lOut[t]) \in Nat
  BY LenProperties DEF IInv, TypeOK
<1>7. /\ Len(lOut[t]) = Past(iHits[t], call[t].iPos, RemoveLimit(call[t]))
      /\ Len(Found(t)) = iHits[t] - Len(lOut[t])
  BY <1>1 DEF ThreadInv, RemoveLoop, Found
<1>8. lOut[t] # <<>> => call[t].iPos <= Len(Found(t))
  <2> DEFINE n == Len(lOut[t])
             limit == RemoveLimit(call[t])
             a == call[t].iPos
             h == iHits[t]
  <2>1. lOut[t] # <<>> => n # 0
    BY <1>6, EmptySeq
  <2>2. n # 0 => a <= h - n
    <3>1. n \in Nat /\ limit \in Nat /\ a \in Nat /\ h \in Nat
          /\ n = (IF h - a < limit THEN (IF h - a < 0 THEN 0 ELSE h - a) ELSE limit)
      BY <1>4, <1>5, <1>6, <1>7 DEF Past
    <3> HIDE DEF n, limit, a, h
    <3>. QED
      BY <3>1
  <2>. QED
    BY <1>7, <2>1, <2>2
<1>9. \A k \in Keys : Mine(t, k) = IF k = call[t].tKey
                                    THEN PutBack(Seen(k), call[t].iPos, lOut[t]) ELSE Seen(k)
  BY <1>1 DEF Mine, Extending, Removing
<1>. QED
  BY <1>1, <1>2, <1>3, <1>4, <1>5, <1>6, <1>7, <1>8, <1>9 DEF RemoveFacts

\* How a turn of removeImpl goes on.
LEMMA RemoveGoesOn ==
    ASSUME IInv, IInv', NEW t \in Threads, ThreadInv(t), RemoveFacts(t), ik[t] < m_nCapacity,
           NEW h, NEW out, NextTurn(t, h, out),
           Len(out) = Past(h, call[t].iPos, RemoveLimit(call[t])),
           Len(MetBy(t)'[ik[t] + 1]) = h - Len(out)
    PROVE  /\ ThreadInv(t)'
           /\ UNCHANGED <<pc, ret>> /\ lOut'[t] = out
<1>1. /\ UNCHANGED <<pc, ret>> /\ ik'[t] = ik[t] + 1 /\ iHits'[t] = h /\ lOut'[t] = out
  BY DEF NextTurn, IInv, TypeOK
<1>2. pc[t] = "probe" /\ call[t].op = "remove" /\ UNCHANGED <<m_nCapacity, call>>
  BY DEF RemoveFacts
<1>3. RemoveLoop(t)'
  BY <1>1, <1>2 DEF RemoveLoop, RemoveLimit
<1>4. AtRest(t)'
  <2>1. ik[t] + 1 <= m_nCapacity
    BY DEF IInv, TypeOK
  <2>. QED
    BY <1>1, <1>2, <2>1 DEF AtRest, ThreadInv
<1>. QED
  BY <1>1, <1>2, <1>3, <1>4
     DEF ThreadInv, FindLoop, RangeLoop, RangeForPosLoop, ScanLoop, InsertLoop, ExtendLoop,
         Extending, WholeRange

\* One hit more: a pair taken, or one passed.
LEMMA OneMoreHit ==
    ASSUME NEW i \in Nat, NEW a \in Nat, NEW limit \in Nat, NEW n \in Nat, n = Past(i, a, limit)
    PROVE  IF i + 1 >= a + 1 /\ i + 1 - (a + 1) < limit
           THEN n + 1 = Past(i + 1, a, limit) /\ i - n = a
           ELSE n = Past(i + 1, a, limit)
  BY DEF Past

\* remove goes on from a cell it leaves as it is.
LEMMA RemovePasses ==
    ASSUME IInv, IInv', NEW t \in Threads, ThreadInv(t), TurnFacts(t), RemoveFacts(t),
           Probing(t), UNCHANGED m_vHashTable, NEW h, NextTurn(t, h, lOut[t]),
           \/ ~Matches(t) /\ h = iHits[t]
           \/ /\ Matches(t) /\ h = iHits[t] + 1
              /\ ~ (h >= First(t) /\ h - First(t) < RemoveLimit(call[t]))
    PROVE  Keeps(t)
<1> DEFINE a == call[t].iPos
           limit == RemoveLimit(call[t])
           n == Len(lOut[t])
           f == Len(Found(t))
           i == iHits[t]
<1>1. /\ a \in Nat /\ limit \in Nat /\ i \in Nat /\ n \in Nat /\ n = Past(i, a, limit)
      /\ f = i - n /\ First(t) = a + 1
  BY DEF RemoveFacts
<1>2. MetBy(t)' = MetBy(t) /\ ik[t] < m_nCapacity
  BY DEF MetBy, RemoveFacts, Probing
<1>3. /\ n = Past(h, a, limit)
      /\ Len(MetBy(t)[ik[t] + 1]) = h - n
  <2>1. CASE ~Matches(t) /\ h = i
    <3>1. Len(MetBy(t)[ik[t] + 1]) = i - n
      BY <1>1, <1>2, <2>1 DEF TurnFacts
    <3>. QED
      BY <1>1, <2>1, <3>1
  <2>2. CASE /\ Matches(t) /\ h = i + 1
             /\ ~ (h >= First(t) /\ h - First(t) < limit)
    <3>1. Len(MetBy(t)[ik[t] + 1]) = f + 1
      BY <1>2, <2>2 DEF TurnFacts
    <3>2. Len(MetBy(t)[ik[t] + 1]) = i + 1 - n
      BY <1>1, <3>1
    <3>3. n = Past(h, a, limit)
      <4>1. ~ (i + 1 >= a + 1 /\ i + 1 - (a + 1) < limit)
        BY <1>1, <2>2
      <4>2. n = Past(i + 1, a, limit)
        <5> HIDE DEF a, limit, n, i
        <5>. QED
          BY <1>1, <4>1, OneMoreHit
      <4>. QED
        BY <2>2, <4>2
    <3>. QED
      BY <1>1, <2>2, <3>2, <3>3
  <2>. QED
    BY <2>1, <2>2
<1>4. ThreadInv(t)' /\ UNCHANGED <<pc, ret>> /\ lOut'[t] = lOut[t]
  BY <1>2, <1>3, RemoveGoesOn
<1>5. Map' = Map
  <2>1. \A k \in Keys : Mine(t, k)' = Mine(t, k)
    BY <1>4 DEF RemoveFacts, Mine, Extending, Removing, Seen
  <2>. QED
    BY <2>1, QuietMap DEF RemoveFacts
<1>. QED
  BY <1>4, <1>5, Stutter DEF Keeps, RemoveFacts

\* A pair goes from its cell to the list: it still counts as present.
LEMMA RemoveTakes ==
    ASSUME HashInRange, VisitsOnce(m_nCapacity), IInv, IInv', NEW t \in Threads, ThreadInv(t),
           TurnFacts(t), RemoveFacts(t), NEW k \in Keys, call[t].tKey = k,
           Probing(t), Matches(t),
           NEW h, h = iHits[t] + 1, h >= First(t), h - First(t) < RemoveLimit(call[t]),
           NEW o, o = Append(lOut[t], Cell(t)), NextTurn(t, h, o),
           m_vHashTable' = Emptied(m_vHashTable, CellNo(t))
    PROVE  Keeps(t)
<1> DEFINE m == m_nCapacity
           s == ik[t]
           x == CellNo(t)
           old == m_vHashTable
           new == m_vHashTable'
           p == Cell(t)
           a == call[t].iPos
           out == lOut[t]
<1>1. /\ m \in Nat \ {0} /\ s \in 0 .. m - 1 /\ p \in Pairs /\ IsOf(p, k)
      /\ old \in [0 .. m - 1 -> Cells] /\ new \in [0 .. m - 1 -> Cells]
      /\ out \in Seq(Pairs)
  BY DEF TurnFacts, RemoveFacts, Probing, Matches, IsOf, IInv, TypeOK
<1>2. x = hashFunction(m, k, s) /\ x \in 0 .. m - 1 /\ p = old[x]
  <2>1. x = hashFunction(m, k, s)
    BY DEF CellNo
  <2>. QED
    BY <1>1, <2>1, StepInTable DEF Cell
<1>3. /\ new[x] = nullptr
      /\ \A j \in 0 .. m - 1 : j # x => new[j] = old[j]
  BY <1>1, <1>2 DEF Emptied
<1>4. /\ Len(Found(t)) = a /\ a \in Nat
      /\ Len(o) = Len(out) + 1 /\ o \in Seq(Pairs) /\ Len(o) \in Nat \ {0}
      /\ Len(o) = Past(h, a, RemoveLimit(call[t]))
      /\ a = h - Len(o)
  <2> DEFINE i == iHits[t]
             n == Len(lOut[t])
             limit == RemoveLimit(call[t])
             f == Len(Found(t))
  <2>1. /\ a \in Nat /\ limit \in Nat /\ i \in Nat /\ n \in Nat /\ n = Past(i, a, limit)
        /\ f = i - n /\ i + 1 >= a + 1 /\ i + 1 - (a + 1) < limit
    BY DEF RemoveFacts
  <2>2. f = a /\ n + 1 = Past(i + 1, a, limit) /\ a = i + 1 - (n + 1)
    <3> HIDE DEF i, n, limit, a, f
    <3>1. n + 1 = Past(i + 1, a, limit) /\ i - n = a
      BY <2>1, OneMoreHit
    <3>. QED
      BY <2>1, <3>1
  <2>3. Len(o) = n + 1 /\ o \in Seq(Pairs) /\ Len(o) \in Nat \ {0}
    BY <1>1, <2>1, AppendProperties
  <2>4. Len(o) = Past(h, a, limit) /\ a = h - Len(o)
    <3>1. h = i + 1
      OBVIOUS
    <3> HIDE DEF i, n, limit, a, f
    <3>2. Len(o) = Past(h, a, limit)
      <4>1. Len(o) = Past(i + 1, a, limit)
        BY <2>2, <2>3
      <4>. QED
        BY <3>1, <4>1
    <3>3. a = h - Len(o)
      <4> DEFINE l == Len(o)
      <4>1. l = n + 1 /\ i \in Nat /\ n \in Nat /\ a = i + 1 - (n + 1)
        BY <2>1, <2>2, <2>3
      <4> HIDE DEF l
      <4>2. a = h - l
        BY <3>1, <4>1
      <4>. QED
        BY <4>2 DEF l
    <3>. QED
      BY <3>2, <3>3
  <2>. QED
    BY <2>1, <2>2, <2>3, <2>4
<1>5. Joins(Met(old, m, k), Met(new, m, k), m, s, p)
  <2>1. /\ \A j \in 0 .. m - 1 : j # hashFunction(m, k, s) => old[j] = new[j]
        /\ ~IsOf(At(new, m, k, s), k) /\ IsOf(At(old, m, k, s), k) /\ At(old, m, k, s) = p
    BY <1>1, <1>2, <1>3 DEF At, IsOf
  <2> HIDE DEF new, s, p
  <2>2. Joins(Met(old, m, k), Met(new, m, k), m, s, At(old, m, k, s))
    BY <1>1, <2>1, ItsKey
  <2>. QED
    BY <2>1, <2>2
<1>6. /\ Met(old, m, k)[s] = Met(new, m, k)[s] /\ Met(old, m, k)[s] = Found(t)
      /\ Len(Met(new, m, k)[s]) \in 0 .. Len(Met(new, m, k)[m])
      /\ Met(old, m, k)[m] = Between(Met(new, m, k)[m], Len(Met(new, m, k)[s]), <<p>>)
  <2>1. s \in 0 .. m /\ m \in 0 .. m /\ m > s /\ s <= s
    BY <1>1
  <2>2. Met(old, m, k)[s] = Found(t)
    BY DEF Found, MetBy
  <2> HIDE DEF new, s, p, m
  <2>. QED
    BY <1>5, <2>1, <2>2 DEF Joins
<1>7. Met(new, m, k)[s + 1] = Met(new, m, k)[s] /\ Met(new, m, k)[m] \in Seq(Pairs)
  <2>1. Collects(new, m, k)
    <3> HIDE DEF new
    <3>. QED
      BY <1>1, TableCollects
  <2>2. ~IsOf(At(new, m, k, s), k) /\ m \in 0 .. m
    BY <1>1, <1>2, <1>3 DEF At, IsOf
  <2> HIDE DEF new, s
  <2>. QED
    BY <1>1, <2>1, <2>2 DEF Collects
<1>8. ThreadInv(t)' /\ UNCHANGED <<pc, ret>> /\ lOut'[t] = o
  <2>1. MetBy(t)' = Met(new, m, k)
    BY DEF MetBy, RemoveFacts
  <2>2. Len(MetBy(t)'[ik[t] + 1]) = h - Len(o)
    BY <1>4, <1>6, <1>7, <2>1
  <2>3. ik[t] < m_nCapacity /\ NextTurn(t, h, o)
    BY DEF Probing
  <2>4. Len(o) = Past(h, call[t].iPos, RemoveLimit(call[t]))
    BY <1>4
  <2>. QED
    BY <2>2, <2>3, <2>4, RemoveGoesOn
<1>9. Mine(t, k) = PutBack(Met(old, m, k)[m], a, out)
  BY DEF RemoveFacts, Seen, InProbeOrder
<1>10. \A l \in Keys : Mine(t, l)' = IF l = k THEN PutBack(InProbeOrder(new, m, l), a, o)
                                     ELSE InProbeOrder(new, m, l)
  BY <1>8 DEF Mine, Extending, Removing, RemoveFacts, Seen
<1>11. Mine(t, k)' = PutBack(Met(new, m, k)[m], a, o)
  <2>1. PutBack(InProbeOrder(new, m, k), a, o) = PutBack(Met(new, m, k)[m], a, o)
    BY DEF InProbeOrder
  <2> HIDE DEF new, m, a
  <2>. QED
    BY <1>10, <2>1
<1>12. Mine(t, k)' = Mine(t, k)
  <2> DEFINE q == Met(new, m, k)[m]
             q0 == Met(old, m, k)[m]
  <2>1. a \in 0 .. Len(q) /\ q \in Seq(Pairs) /\ q0 = Between(q, a, <<p>>)
    BY <1>4, <1>6, <1>7
  <2> HIDE DEF q, q0, p, a, out
  <2>2. /\ a \in 0 .. Len(q0)
        /\ Between(q, a, Append(out, p)) = Between(q0, a, out)
    BY <1>1, <2>1, BetweenTaken
  <2>3. q0 \in Seq(Pairs)
    <3>1. <<p>> \in Seq(Pairs)
      BY <1>1, One
    <3>2. Holding(q0, Pairs, q, a, <<p>>)
      BY <2>1, <3>1, Middle
    <3>. QED
      BY <3>2 DEF Holding
  <2>4. PutBack(q0, a, out) = Between(q0, a, out)
    <3>1. CASE out = <<>>
      <4>1. Between(q0, a, <<>>) = q0
        BY <2>2, <2>3, NothingBetween
      <4>. QED
        BY <3>1, <4>1 DEF PutBack
    <3>2. CASE out # <<>>
      BY <3>2 DEF PutBack, Between
    <3>. QED
      BY <3>1, <3>2
  <2>5. PutBack(q, a, o) = Between(q, a, o)
    <3>1. o # <<>>
      BY <1>4, EmptySeq
    <3>. QED
      BY <3>1 DEF PutBack, Between
  <2>6. o = Append(out, p)
    BY DEF out, p
  <2>7. Mine(t, k) = PutBack(q0, a, out) /\ Mine(t, k)' = PutBack(q, a, o)
    BY <1>9, <1>11 DEF q, q0
  <2>. QED
    BY <2>2, <2>4, <2>5, <2>6, <2>7
<1>13. \A l \in Keys : l # k => Mine(t, l)' = Mine(t, l)
  <2> SUFFICES ASSUME NEW l \in Keys, l # k
               PROVE  Mine(t, l)' = Mine(t, l)
    OBVIOUS
  <2>1. ~IsOf(old[x], l) /\ ~IsOf(new[x], l)
    BY <1>1, <1>2, <1>3 DEF IsOf
  <2>2. InProbeOrder(new, m, l) = InProbeOrder(old, m, l)
    <3> HIDE DEF new, x
    <3>. QED
      BY <1>1, <1>2, <1>3, <2>1, OtherKey
  <2>3. Mine(t, l) = InProbeOrder(old, m, l)
    BY DEF RemoveFacts, Seen
  <2>4. Mine(t, l)' = InProbeOrder(new, m, l)
    <3> HIDE DEF new, m, a
    <3>. QED
      BY <1>10
  <2>. QED
    BY <2>2, <2>3, <2>4
<1>14. Map' = Map
  <2>1. \A l \in Keys : Items(l) = Mine(t, l) /\ Items(l)' = Mine(t, l)'
    BY WriterSteps DEF RemoveFacts
  <2>2. \A l \in Keys : Mine(t, l)' = Mine(t, l)
    BY <1>12, <1>13
  <2>. QED
    BY <2>1, <2>2, MapKept
<1>. QED
  BY <1>8, <1>14, Stutter DEF Keeps, RemoveFacts

\* The pairs taken are those the promise takes, and the others stay.
LEMMA RemoveLeaves ==
    ASSUME IInv, IInv', NEW t \in Threads, ThreadInv(t), TurnFacts(t), RemoveFacts(t),
           NEW k \in Keys, call[t].tKey = k,
           ik[t] >= m_nCapacity, Leave(t, Range_(lOut[t])), UNCHANGED m_vHashTable
    PROVE  Keeps(t)
<1> DEFINE c == call[t]
           a == call[t].iPos
           limit == RemoveLimit(call[t])
           q == Seen(k)
           out == lOut[t]
           s == PutBack(Seen(k), call[t].iPos, lOut[t])
           n == Len(lOut[t])
<1>1. /\ pc'[t] = "unlock" /\ ret'[t] = Range_(out) /\ ik'[t] = 0 /\ iHits'[t] = 0
      /\ lOut'[t] = <<>> /\ ret' = [ret EXCEPT ![t] = Range_(out)]
  BY DEF Leave, IInv, TypeOK
<1>2. ThreadInv(t)'
  BY <1>1, Answers
     DEF ThreadInv, AtRest, FindLoop, RangeLoop, RangeForPosLoop, ScanLoop, InsertLoop,
         RemoveLoop, ExtendLoop, Extending
<1>3. /\ q \in Seq(Pairs) /\ Len(q) \in Nat /\ out \in Seq(Pairs) /\ n \in Nat
      /\ a \in Nat /\ limit \in Nat /\ n = Past(Len(q) + n, a, limit)
      /\ out # <<>> => a <= Len(q)
  <2>1. Found(t) = q
    BY DEF TurnFacts
  <2>2. iHits[t] \in Nat /\ n \in Nat /\ Len(q) = iHits[t] - n /\ Len(q) \in Nat
    BY <2>1 DEF RemoveFacts, TurnFacts
  <2>3. iHits[t] = Len(q) + n
    <3> HIDE DEF q, n
    <3>. QED
      BY <2>2
  <2>. QED
    BY <2>1, <2>2, <2>3 DEF RemoveFacts, TurnFacts
<1>4. /\ Len(s) = Len(q) + n
      /\ Promise!Slice(s, a, n) = out
      /\ n = 0 => s = q
      /\ n # 0 => Promise!Without(s, a, n) = q
  <2> HIDE DEF q, out, a, c
  <2>0. out = lOut[t] /\ n = Len(out)
    BY DEF out
  <2>1. CASE out = <<>>
    <3>1. n = 0 /\ s = q
      BY <2>0, <2>1, EmptySeq DEF PutBack, q, a
    <3>2. a + 1 \in Int /\ a + 0 \in Int /\ a + 0 < a + 1
      BY <1>3
    <3>3. SubSeq(s, a + 1, a + 0) = <<>>
      BY <3>2, SubSeqEmpty
    <3>. QED
      BY <1>3, <2>1, <3>1, <3>3 DEF Promise!Slice
  <2>2. CASE out # <<>>
    <3>1. s = Between(q, a, out)
      BY <2>0, <2>2 DEF PutBack, Between, q, a
    <3>2. n # 0 /\ a \in 0 .. Len(q)
      BY <1>3, <2>0, <2>2, EmptySeq
    <3> HIDE DEF s
    <3>3. out \in Seq(Pairs) /\ q \in Seq(Pairs)
      BY <1>3
    <3>4. Piece(s, Pairs, q, a, out)
      <4> HIDE DEF n
      <4>. QED
        BY <3>1, <3>2, <3>3, BetweenPiece
    <3>5. /\ s \in Seq(Pairs) /\ Len(s) = Len(q) + Len(out)
          /\ SubSeq(s, a + 1, a + Len(out)) = out
          /\ SubSeq(s, 1, a) \o SubSeq(s, a + Len(out) + 1, Len(s)) = q
      BY <3>4 DEF Piece
    <3>. QED
      BY <2>0, <3>2, <3>5 DEF Promise!Slice, Promise!Without
  <2>. QED
    BY <2>1, <2>2
<1>5. Promise!Taken(s, a, limit) = n
  <2> HIDE DEF s, n, limit, a
  <2>. QED
    BY <1>3, <1>4 DEF Promise!Taken, Promise!Upto, Past
<1>6. /\ \A l \in Keys : Items(l) = IF l = k THEN s ELSE Seen(l)
      /\ \A l \in Keys : Items(l)' = Seen(l)
  <2>1. \A l \in Keys : Items(l) = Mine(t, l) /\ Items(l)' = Mine(t, l)'
    BY WriterSteps DEF RemoveFacts
  <2>2. \A l \in Keys : Mine(t, l)' = Seen(l)
    BY <1>1 DEF Mine, Extending, Removing, Seen, RemoveFacts
  <2>3. \A l \in Keys : Mine(t, l) = IF l = k THEN s ELSE Seen(l)
    BY DEF RemoveFacts
  <2> HIDE DEF s
  <2>. QED
    BY <2>1, <2>2, <2>3
<1>7. Map[k] = s /\ Map'[k] = q /\ \A l \in Keys : l # k => Map'[l] = Map[l]
  <2>1. Map = [l \in Keys |-> Items(l)] /\ Map' = [l \in Keys |-> Items(l)']
    BY DEF Map
  <2> HIDE DEF s
  <2>. QED
    BY <1>6, <2>1
<1>8. Map' = [Map EXCEPT ![k] = IF n = 0 THEN s ELSE Promise!Without(s, a, n)]
  <2>1. q = IF n = 0 THEN s ELSE Promise!Without(s, a, n)
    <3> HIDE DEF s, q, n, a
    <3>. QED
      BY <1>4
  <2>2. Map = [l \in Keys |-> Items(l)] /\ Map' = [l \in Keys |-> Items(l)']
    BY DEF Map
  <2> HIDE DEF s, q, n, a
  <2>. QED
    BY <1>7, <2>1, <2>2
<1>9. Promise!RemoveEffect(t, c)
  <2> DEFINE items == [l \in Keys |-> Items(l)]
  <2>1. items = Map /\ items' = Map'
    BY MapIsItems
  <2>2. items[c.tKey] = s
    BY <1>7, <2>1
  <2>3. Promise!Limit(c) = limit
    BY DEF Promise!Limit, RemoveLimit, RemoveFacts
  <2>4. Promise!Taken(items[c.tKey], c.iPos, Promise!Limit(c)) = n
    BY <1>5, <2>2, <2>3
  <2>5. Promise!Answer(t, Promise!Range_(Promise!Slice(items[c.tKey], c.iPos, n)))
    <3>1. Promise!Slice(items[c.tKey], c.iPos, n) = out
      BY <1>4, <2>2
    <3>2. Promise!Range_(out) = Range_(out)
      BY SpeakTheSame DEF SameWords
    <3>. QED
      BY <1>1, <3>1, <3>2 DEF Promise!Answer
  <2>6. items' = [items EXCEPT ![c.tKey] = IF n = 0 THEN items[c.tKey]
                                           ELSE Promise!Without(items[c.tKey], c.iPos, n)]
    BY <1>8, <2>1, <2>2
  <2>7. UNCHANGED <<m_nCapacity, nPairs>>
    BY DEF RemoveFacts
  <2> HIDE DEF c, n
  <2>. QED
    BY <2>4, <2>5, <2>6, <2>7 DEF Promise!RemoveEffect
<1>10. Promise!Effect(t)
  <2>1. c # NoCall /\ ret[t] = NoRet /\ c.op = "remove" /\ call' = call
    BY CallShapes DEF RemoveFacts
  <2>. QED
    BY <1>9, <2>1, SpeakTheSame DEF Promise!Effect, SameWords
<1>. QED
  BY <1>2, <1>10 DEF Keeps, Promise!Next

\* Every step of remove.
LEMMA RemoveKeeps ==
    ASSUME HashInRange, PositionsDoNotWrap, VisitsOnce(m_nCapacity), IInv, IInv',
           NEW t \in Threads, ThreadInv(t), Remove(t)
    PROVE  Keeps(t)
<1>1. TurnFacts(t) /\ RemoveFacts(t) /\ call[t].tKey \in Keys
  BY RemoveKnows DEF TurnFacts
<1> DEFINE hits == iHits[t] + 1
           take == hits >= First(t) /\ hits - First(t) < RemoveLimit(call[t])
<1>2. CASE ik[t] >= m_nCapacity /\ Leave(t, Range_(lOut[t])) /\ UNCHANGED m_vHashTable
  BY <1>1, <1>2, RemoveLeaves
<1>3. CASE /\ Probing(t) /\ Matches(t) /\ take
           /\ NextTurn(t, hits, Append(lOut[t], Cell(t)))
           /\ m_vHashTable' = Emptied(m_vHashTable, CellNo(t))
  <2>1. ASSUME NEW h, h = hits, NEW o, o = Append(lOut[t], Cell(t))
        PROVE  NextTurn(t, h, o)
    BY <1>3, <2>1
  <2>. QED
    BY <1>1, <1>3, <2>1, RemoveTakes
<1>4. CASE /\ Probing(t) /\ Matches(t) /\ ~take
           /\ NextTurn(t, hits, lOut[t]) /\ UNCHANGED m_vHashTable
  BY <1>1, <1>4, RemovePasses
<1>5. CASE /\ Probing(t) /\ ~Matches(t)
           /\ NextTurn(t, iHits[t], lOut[t]) /\ UNCHANGED m_vHashTable
  BY <1>1, <1>5, RemovePasses
<1>. QED
  BY <1>2, <1>3, <1>4, <1>5 DEF Remove

-----------------------------------------------------------------------------
(***************************************************************************)
(* extend: the beginning and the end.                                      *)
(***************************************************************************)
\* A writer that accounts for the pairs as before.
LEMMA WriterQuiet ==
    ASSUME IInv, IInv', NEW t \in Threads, Writing(t), OnlyMine(t),
           \A k \in Keys : Mine(t, k)' = Mine(t, k)
    PROVE  Map' = Map /\ Held' = Held
<1>1. \A k \in Keys : Items(k)' = Items(k)
  BY WriterSteps
<1>2. Held' = Held
  BY <1>1 DEF Held
<1>. QED
  BY <1>1, <1>2, MapKept

\* What the steps of extendImpl rely on.
LEMMA ExtendKnows ==
    ASSUME IInv, NEW t \in Threads, ThreadInv(t), pc[t] \in {"extend", "rehash", "move"}
    PROVE  /\ Writing(t) /\ ret[t] = NoRet /\ iHits[t] = 0 /\ lOut[t] = <<>>
           /\ call[t] \in Calls /\ call[t].op \in {"insert", "extend"}
           /\ m_nCapacity \in Nat \ {0} /\ m_vHashTable \in [0 .. m_nCapacity - 1 -> Cells]
           /\ nNewCapacity[t] \in Nat /\ ik[t] \in Nat
           /\ Extending(t) => /\ nNewCapacity[t] \in Nat \ {0}
                              /\ vNewHashTable[t] \in [0 .. nNewCapacity[t] - 1 -> Cells]
<1>1. /\ call[t] \in Calls /\ call[t].op \in {"insert", "extend"} /\ Writing(t)
      /\ Extending(t) => nNewCapacity[t] # 0
  BY DEF IInv, PCInv, Writing, InBody, WriteOps
<1>2. ret[t] = NoRet /\ iHits[t] = 0 /\ lOut[t] = <<>>
  BY DEF ThreadInv, AtRest
<1>. QED
  BY <1>1, <1>2 DEF IInv, TypeOK

\* extend returns to its caller: insert tries again, or the call is over.
LEMMA ExtendReturnsStarts ==
    ASSUME HashInRange, IInv, IInv', NEW t \in Threads, ThreadInv(t),
           pc[t] \in {"extend", "rehash"}, ExtendReturns(t), UNCHANGED call
    PROVE  ThreadInv(t)'
<1>1. /\ ret[t] = NoRet /\ iHits[t] = 0 /\ lOut[t] = <<>>
      /\ call[t].op \in {"insert", "extend"}
  BY ExtendKnows
<1>2. CASE call[t].op = "insert"
  <2>1. /\ pc'[t] = "probe" /\ ik'[t] = 0 /\ iHits'[t] = 0 /\ lOut'[t] = <<>>
        /\ ret'[t] = NoRet
    BY <1>1, <1>2 DEF ExtendReturns, Goto, IInv, TypeOK
  <2>2. Fresh(t)'
    BY <2>1 DEF Fresh
  <2>. QED
    BY <2>2, FreshLoopsNext DEF FreshStarts
<1>3. CASE call[t].op = "extend"
  <2>1. /\ pc'[t] = "unlock" /\ ik'[t] = 0 /\ iHits'[t] = 0 /\ lOut'[t] = <<>>
        /\ ret'[t] = Void
    BY <1>3 DEF ExtendReturns, Leave, IInv, TypeOK
  <2>. QED
    BY <2>1, Answers
       DEF ThreadInv, AtRest, FindLoop, RangeLoop, RangeForPosLoop, ScanLoop, InsertLoop,
           RemoveLoop, ExtendLoop, Extending
<1>. QED
  BY <1>1, <1>2, <1>3

\* The end of extend, and that of the extension of an insertion.
LEMMA ExtendTakesEffect ==
    ASSUME NEW t \in Threads, call[t] \in Calls, call[t].op = "extend", ret[t] = NoRet,
           Leave(t, Void), UNCHANGED <<call, nPairs>>, Map' = Map,
           m_nCapacity' = IF call[t].nNewCapacity > m_nCapacity THEN call[t].nNewCapacity
                          ELSE m_nCapacity
    PROVE  Promise!Next
<1>1. Promise!Answer(t, Promise!Void)
  BY SpeakTheSame DEF Promise!Answer, SameWords, Leave
<1>2. Promise!ExtendEffect(t, call[t])
  BY <1>1, MapIsItems DEF Promise!ExtendEffect
<1>3. Promise!Effect(t)
  BY <1>2, SpeakTheSame, CallShapes DEF Promise!Effect, SameWords
<1>. QED
  BY <1>3 DEF Promise!Next

\* An insert into a full table grows it before it puts its pair.
LEMMA InsertGrows ==
    ASSUME NEW t \in Threads, call[t] \in Calls, call[t].op = "insert", ret[t] = NoRet,
           UNCHANGED <<call, nPairs, ret>>, Map' = Map, Cardinality(Held) = m_nCapacity,
           m_nCapacity' = m_nCapacity + DefaultCapacity
    PROVE  Promise!Next
<1>1. Promise!Grow(t)
  BY MapIsItems, TotalHeld, SpeakTheSame, CallShapes DEF Promise!Grow, SameWords
<1>. QED
  BY <1>1 DEF Promise!Next

\* extend begins, or has nothing to do.
LEMMA ExtendBeginKeeps ==
    ASSUME HashInRange, IInv, IInv', NEW t \in Threads, ThreadInv(t), ExtendBegin(t)
    PROVE  Keeps(t)
<1> DEFINE n == nNewCapacity[t]
<1>1. /\ pc[t] = "extend" /\ ~Extending(t) /\ OnlyMine(t)
      /\ UNCHANGED <<m_vHashTable, m_nCapacity, nPairs, call>>
  BY StepsAreMine DEF ExtendBegin, Extending, tableVars, Step, IInv
<1>2. /\ Writing(t) /\ ret[t] = NoRet /\ iHits[t] = 0 /\ lOut[t] = <<>>
      /\ call[t] \in Calls /\ call[t].op \in {"insert", "extend"}
      /\ m_nCapacity \in Nat \ {0} /\ m_vHashTable \in [0 .. m_nCapacity - 1 -> Cells]
      /\ n \in Nat
  BY <1>1, ExtendKnows
<1>3. /\ call[t].op = "extend" => n = call[t].nNewCapacity
      /\ call[t].op = "insert" => /\ n = m_nCapacity + DefaultCapacity
                                  /\ Cardinality(Held) = m_nCapacity
  BY <1>1 DEF ThreadInv, ExtendLoop
<1>4. \A k \in Keys : Mine(t, k) = Seen(k) /\ Seen(k)' = Seen(k)
  BY <1>1 DEF Mine, Extending, Removing, Seen
<1>5. CASE n <= m_nCapacity /\ ExtendReturns(t)
  <2>1. call[t].op = "extend"
    <3>1. m_nCapacity + DefaultCapacity > m_nCapacity
      BY <1>2, InterfaceAssumption
    <3>. QED
      BY <1>2, <1>3, <1>5, <3>1
  <2>2. Leave(t, Void)
    BY <1>5, <2>1 DEF ExtendReturns
  <2>3. Map' = Map
    <3>1. pc'[t] = "unlock"
      BY <2>2 DEF Leave, IInv, TypeOK
    <3>2. \A k \in Keys : Mine(t, k)' = Mine(t, k)
      BY <1>4, <3>1 DEF Mine, Extending, Removing
    <3>. QED
      BY <1>1, <1>2, <3>2, WriterQuiet
  <2>4. m_nCapacity' = IF call[t].nNewCapacity > m_nCapacity THEN call[t].nNewCapacity
                       ELSE m_nCapacity
    BY <1>1, <1>2, <1>3, <1>5, <2>1
  <2>5. Promise!Next
    BY <1>1, <1>2, <2>1, <2>2, <2>3, <2>4, ExtendTakesEffect
  <2>6. ThreadInv(t)'
    BY <1>1, <1>5, ExtendReturnsStarts
  <2>. QED
    BY <2>5, <2>6 DEF Keeps
<1>6. CASE /\ n > m_nCapacity
           /\ vNewHashTable' = [vNewHashTable EXCEPT ![t] = NewTable(n)]
           /\ Goto(t, "rehash")
           /\ UNCHANGED <<ret, loopVars, nNewCapacity, tMoved>>
  <2>1. /\ pc'[t] = "rehash" /\ vNewHashTable'[t] = NewTable(n) /\ nNewCapacity'[t] = n
        /\ UNCHANGED <<ret, ik, iHits, lOut>>
    BY <1>6 DEF Goto, loopVars, IInv, TypeOK
  <2>2. n \in Nat \ {0}
    BY <1>2, <1>6
  <2>3. \A k \in Keys : Mine(t, k)' = Mine(t, k)
    <3> SUFFICES ASSUME NEW k \in Keys
                 PROVE  Mine(t, k)' = Seen(k)
      BY <1>4
    <3>1. Mine(t, k)' = InProbeOrder(NewTable(n), n, k) \o Seen(k)
      BY <1>4, <2>1 DEF Mine, Extending
    <3>2. InProbeOrder(NewTable(n), n, k) = <<>>
      <4> HIDE DEF n
      <4>. QED
        BY <2>2, EmptyProbe
    <3>3. Seen(k) \in Seq(Pairs)
      <4>1. Collects(m_vHashTable, m_nCapacity, k) /\ m_nCapacity \in 0 .. m_nCapacity
        BY <1>2, TableCollects
      <4>. QED
        BY <4>1 DEF Collects, Seen, InProbeOrder
    <3>4. <<>> \o Seen(k) = Seen(k)
      <4> DEFINE s == Seen(k)
      <4>1. s \in Seq(Pairs)
        BY <3>3
      <4> HIDE DEF s
      <4>2. <<>> \o s = s
        BY <4>1, ConcatEmptySeq
      <4>. QED
        BY <4>2 DEF s
    <3>. QED
      BY <3>1, <3>2, <3>4
  <2>4. Map' = Map /\ Held' = Held
    BY <1>1, <1>2, <2>3, WriterQuiet
  <2>5. ExtendLoop(t)'
    <3>1. NoHoles(NewTable(n), n)
      <4> HIDE DEF n
      <4>. QED
        BY <2>2, EmptyOrdered
    <3>2. NoHoles(vNewHashTable'[t], nNewCapacity'[t])
      BY <2>1, <3>1
    <3>3. NoHoles(vNewHashTable[t], nNewCapacity[t])'
      BY <3>2 DEF NoHoles, At
    <3>. QED
      BY <1>1, <1>3, <1>6, <2>1, <2>4, <3>3 DEF ExtendLoop, Extending
  <2>6. ThreadInv(t)'
    BY <1>2, <2>1, <2>5
       DEF ThreadInv, AtRest, FindLoop, RangeLoop, RangeForPosLoop, ScanLoop, InsertLoop,
           RemoveLoop
  <2>. QED
    BY <1>1, <2>1, <2>4, <2>6, Stutter DEF Keeps
<1>. QED
  BY <1>5, <1>6 DEF ExtendBegin

-----------------------------------------------------------------------------
(***************************************************************************)
(* extend: the loop over the old table.                                    *)
(***************************************************************************)
\* Two tables one after the other.
LEMMA OrderInSeq ==
    ASSUME HashInRange, NEW m \in Nat \ {0}, NEW tab \in [0 .. m - 1 -> Cells], NEW k \in Keys
    PROVE  InProbeOrder(tab, m, k) \in Seq(Pairs)
<1>1. Collects(tab, m, k) /\ m \in 0 .. m
  BY TableCollects
<1>. QED
  BY <1>1 DEF Collects, InProbeOrder

\* The next pair of the old table leaves it for the new one.
LEMMA RehashMoves ==
    ASSUME HashInRange, IInv, IInv', NEW t \in Threads, ThreadInv(t), pc[t] = "rehash",
           OnlyMine(t), ik' = [ik EXCEPT ![t] = 0], Goto(t, "move"),
           UNCHANGED <<tableVars, call, ret, iHits, lOut, nNewCapacity, vNewHashTable>>
    PROVE  Keeps(t)
<1>1. /\ pc'[t] = "move" /\ ik'[t] = 0 /\ Extending(t) /\ Extending(t)'
      /\ UNCHANGED <<m_vHashTable, m_nCapacity, nPairs>>
  BY DEF Goto, tableVars, Extending, IInv, TypeOK
<1>2. Writing(t) /\ ret[t] = NoRet /\ iHits[t] = 0 /\ lOut[t] = <<>>
  BY ExtendKnows
<1>3. Map' = Map /\ Held' = Held
  <2>1. \A k \in Keys : Mine(t, k)' = Mine(t, k)
    BY <1>1 DEF Mine, Seen
  <2>. QED
    BY <1>2, <2>1, WriterQuiet
<1>4. ExtendLoop(t)'
  <2>1. \A i \in 0 .. m_nCapacity' - 1 : ~ (i < 0)
    OBVIOUS
  <2>2. NoHoles(vNewHashTable[t], nNewCapacity[t])'
    BY <1>1 DEF ThreadInv, ExtendLoop, NoHoles, At
  <2>. QED
    BY <1>1, <1>3, <2>1, <2>2 DEF ThreadInv, ExtendLoop
<1>5. ThreadInv(t)'
  BY <1>1, <1>2, <1>4
     DEF ThreadInv, AtRest, FindLoop, RangeLoop, RangeForPosLoop, ScanLoop, InsertLoop,
         RemoveLoop
<1>. QED
  BY <1>1, <1>3, <1>5, Stutter DEF Keeps

\* The old table is empty: the new one takes its place.
LEMMA RehashEnds ==
    ASSUME HashInRange, IInv, IInv', NEW t \in Threads, ThreadInv(t), pc[t] = "rehash",
           OnlyMine(t), NoneBusy, m_vHashTable' = vNewHashTable[t],
           m_nCapacity' = nNewCapacity[t], ExtendReturns(t), UNCHANGED <<nPairs, call>>
    PROVE  Keeps(t)
<1> DEFINE n == nNewCapacity[t]
           m == m_nCapacity
           new == vNewHashTable[t]
<1>1. /\ Writing(t) /\ ret[t] = NoRet /\ iHits[t] = 0 /\ lOut[t] = <<>>
      /\ call[t] \in Calls /\ call[t].op \in {"insert", "extend"}
      /\ m \in Nat \ {0} /\ m_vHashTable \in [0 .. m - 1 -> Cells] /\ Extending(t)
      /\ n \in Nat \ {0} /\ new \in [0 .. n - 1 -> Cells]
  BY ExtendKnows DEF Extending
<1>2. /\ call[t].op = "extend" => n = call[t].nNewCapacity
      /\ call[t].op = "insert" => n = m + DefaultCapacity /\ Cardinality(Held) = m
      /\ n > m
  BY <1>1 DEF ThreadInv, ExtendLoop
<1>3. ThreadInv(t)'
  BY ExtendReturnsStarts
<1>4. m_vHashTable = NewTable(m)
  BY <1>1 DEF NoneBusy, NewTable
<1>5. pc'[t] \in {"probe", "unlock"}
  BY DEF ExtendReturns, Leave, Goto, IInv, TypeOK
<1>6. Map' = Map
  <2> SUFFICES ASSUME NEW k \in Keys
               PROVE  Mine(t, k)' = Mine(t, k)
    BY <1>1, WriterQuiet
  <2>1. Mine(t, k)' = InProbeOrder(new, n, k)
    BY <1>1, <1>5 DEF Mine, Extending, Removing, Seen
  <2>2. Mine(t, k) = InProbeOrder(new, n, k) \o Seen(k)
    BY <1>1 DEF Mine
  <2>3. Seen(k) = <<>>
    BY <1>1, <1>4, EmptyProbe DEF Seen
  <2>4. InProbeOrder(new, n, k) \o <<>> = InProbeOrder(new, n, k)
    <3> DEFINE s == InProbeOrder(new, n, k)
    <3>1. s \in Seq(Pairs)
      <4> HIDE DEF n, new
      <4>. QED
        BY <1>1, OrderInSeq
    <3> HIDE DEF s
    <3>2. s \o <<>> = s
      BY <3>1, ConcatEmptySeq
    <3>. QED
      BY <3>2 DEF s
  <2>. QED
    BY <2>1, <2>2, <2>3, <2>4
<1>7. CASE call[t].op = "extend"
  <2>1. Leave(t, Void)
    BY <1>7 DEF ExtendReturns
  <2>2. m_nCapacity' = IF call[t].nNewCapacity > m_nCapacity THEN call[t].nNewCapacity
                       ELSE m_nCapacity
    BY <1>2, <1>7
  <2>3. Promise!Next
    BY <1>1, <1>6, <1>7, <2>1, <2>2, ExtendTakesEffect
  <2>. QED
    BY <1>3, <2>3 DEF Keeps
<1>8. CASE call[t].op = "insert"
  <2>1. UNCHANGED ret
    BY <1>8 DEF ExtendReturns
  <2>2. Promise!Next
    BY <1>1, <1>2, <1>6, <1>8, <2>1, InsertGrows
  <2>. QED
    BY <1>3, <2>2 DEF Keeps
<1>. QED
  BY <1>1, <1>7, <1>8

\* Every step of the loop over the old table.
LEMMA RehashKeeps ==
    ASSUME HashInRange, IInv, IInv', NEW t \in Threads, ThreadInv(t), Rehash(t)
    PROVE  Keeps(t)
<1>1. OnlyMine(t) /\ pc[t] = "rehash" /\ UNCHANGED call
  BY StepsAreMine DEF Rehash, Step, IInv
<1>2. CASE /\ ik' = [ik EXCEPT ![t] = 0] /\ Goto(t, "move")
           /\ UNCHANGED <<tableVars, ret, iHits, lOut, nNewCapacity, vNewHashTable>>
  BY <1>1, <1>2, RehashMoves
<1>3. CASE /\ NoneBusy /\ m_vHashTable' = vNewHashTable[t]
           /\ m_nCapacity' = nNewCapacity[t] /\ ExtendReturns(t) /\ UNCHANGED nPairs
  BY <1>1, <1>3, RehashEnds
<1>. QED
  BY <1>2, <1>3 DEF Rehash

-----------------------------------------------------------------------------
(***************************************************************************)
(* A pair that moves is the last of its key in the new table               *)
(* and was the first in the old.                                           *)
(***************************************************************************)
\* PutOrdered, where pairs may have been removed.
LEMMA PutNoHoles ==
    ASSUME HashInRange, NEW m \in Nat \ {0}, NEW tab \in [0 .. m - 1 -> Cells],
           VisitsOnce(m), NoHoles(tab, m),
           NEW k \in Keys, NEW s \in 0 .. m - 1, NEW p \in Pairs, p.key = k,
           \A i \in 0 .. m - 1 : i < s => At(tab, m, k, i) # nullptr,
           NEW new, new = [tab EXCEPT ![hashFunction(m, k, s)] = p]
    PROVE  NoHoles(new, m)
<1> DEFINE X == hashFunction(m, k, s)
<1>1. \A l \in Keys : \A i \in 0 .. m - 1 : hashFunction(m, l, i) \in 0 .. m - 1
  BY StepInTable
<1>2. \A l \in Keys : \A i \in 0 .. m - 1 :
         At(new, m, l, i) = IF hashFunction(m, l, i) = X THEN p ELSE At(tab, m, l, i)
  BY <1>1 DEF At
<1>3. \A i \in 0 .. m - 1 : hashFunction(m, k, i) = X => i = s
  BY DEF VisitsOnce
<1>4. p # nullptr
  BY HashMapAssumption
<1> HIDE DEF X
<1>5. \A l \in Keys : \A i \in 0 .. m - 1 :
         At(tab, m, l, i) # nullptr => At(new, m, l, i) # nullptr
  BY <1>2, <1>4
<1>. SUFFICES ASSUME NEW l \in Keys, NEW i \in 0 .. m - 1, NEW j \in 0 .. m - 1,
                     i < j, IsOf(At(new, m, l, j), l)
              PROVE  At(tab, m, l, i) # nullptr
  BY <1>5 DEF NoHoles
<1>6. CASE hashFunction(m, l, j) = X
  <2>1. At(new, m, l, j) = p
    BY <1>2, <1>6
  <2>2. l = k
    BY <2>1 DEF IsOf
  <2>. QED
    BY <1>3, <1>6, <2>2
<1>7. CASE hashFunction(m, l, j) # X
  BY <1>2, <1>7 DEF NoHoles
<1>. QED
  BY <1>6, <1>7

\* Before the first element, Between puts in front.
LEMMA BetweenStart ==
    ASSUME NEW S, NEW q \in Seq(S), NEW p \in S
    PROVE  Between(q, 0, <<p>>) = <<p>> \o q
<1>1. Len(q) \in Nat
  BY LenProperties
<1>2. SubSeq(q, 1, Len(q)) = q
  BY SubSeqFull
<1>3. SubSeq(q, 1, 0) = <<>>
  <2>1. 1 \in Int /\ 0 \in Int /\ 0 < 1
    OBVIOUS
  <2>. QED
    BY <2>1, SubSeqEmpty
<1>4. <<p>> \in Seq(S)
  BY One
<1>5. <<>> \o <<p>> = <<p>>
  BY <1>4, ConcatEmptySeq
<1>6. 0 + 1 = 1
  OBVIOUS
<1>. QED
  BY <1>2, <1>3, <1>5, <1>6 DEF Between

\* The pairs of a key, in two tables: the last of the one is the first of the other.
LEMMA HandOver ==
    ASSUME NEW S, NEW q \in Seq(S), NEW r \in Seq(S), NEW p \in S
    PROVE  Append(q, p) \o r = q \o (<<p>> \o r)
<1>1. <<p>> \in Seq(S)
  BY One
<1>2. Append(q, p) = q \o <<p>>
  BY AppendIsConcat
<1>3. (q \o <<p>>) \o r = q \o (<<p>> \o r)
  BY <1>1, ConcatAssociative
<1>. QED
  BY <1>2, <1>3

\* A pair comes last in the table it is moved to.
LEMMA ComesLast ==
    ASSUME HashInRange, NEW n \in Nat \ {0}, VisitsOnce(n), NEW tab \in [0 .. n - 1 -> Cells],
           NEW new \in [0 .. n - 1 -> Cells], NEW k \in Keys, NEW j \in 0 .. n - 1,
           NEW p \in Pairs, IsOf(p, k), NoHoles(tab, n), At(tab, n, k, j) = nullptr,
           \A x \in 0 .. n - 1 : x # hashFunction(n, k, j) => new[x] = tab[x],
           At(new, n, k, j) = p
    PROVE  InProbeOrder(new, n, k) = Append(InProbeOrder(tab, n, k), p)
<1>1. Collects(tab, n, k)
  BY TableCollects
<1>2. \A i \in 0 .. n - 1 : i >= j => ~IsOf(At(tab, n, k, i), k)
  BY DEF NoHoles, IsOf
<1>3. j \in 0 .. n /\ n \in j .. n /\ n \in 0 .. n /\ n > j
  OBVIOUS
<1>4. \A i \in j .. n : Met(tab, n, k)[i] = Met(tab, n, k)[j]
  BY <1>1, <1>2, <1>3, MetRest
<1>5. Met(tab, n, k)[n] = Met(tab, n, k)[j]
  BY <1>3, <1>4
<1>6. Joins(Met(new, n, k), Met(tab, n, k), n, j, At(new, n, k, j))
  <2>1. ~IsOf(At(tab, n, k, j), k) /\ IsOf(At(new, n, k, j), k)
    BY DEF IsOf
  <2>. QED
    BY <2>1, ItsKey
<1>7. Met(new, n, k)[n] = Between(Met(tab, n, k)[n], Len(Met(tab, n, k)[j]), <<p>>)
  BY <1>3, <1>6 DEF Joins
<1> DEFINE q == Met(tab, n, k)[n]
<1>8. q \in Seq(Pairs) /\ Met(new, n, k)[n] = Between(q, Len(q), <<p>>)
  BY <1>1, <1>3, <1>5, <1>7 DEF Collects
<1> HIDE DEF q
<1>9. Met(new, n, k)[n] = Append(q, p)
  BY <1>8, BetweenEnd
<1>. QED
  BY <1>9 DEF InProbeOrder, q

\* And it was the first in the table it is taken from.
LEMMA CameFirst ==
    ASSUME HashInRange, NEW m \in Nat \ {0}, VisitsOnce(m), NEW tab \in [0 .. m - 1 -> Cells],
           NEW new \in [0 .. m - 1 -> Cells], NEW k \in Keys, NEW s \in 0 .. m - 1,
           NEW p \in Pairs, IsOf(p, k), At(tab, m, k, s) = p,
           \A i \in 0 .. m - 1 : i < s => ~IsOf(At(tab, m, k, i), k),
           \A x \in 0 .. m - 1 : x # hashFunction(m, k, s) => new[x] = tab[x],
           At(new, m, k, s) = nullptr
    PROVE  InProbeOrder(tab, m, k) = <<p>> \o InProbeOrder(new, m, k)
<1>1. Collects(tab, m, k) /\ Collects(new, m, k)
  BY TableCollects
<1>2. s \in 0 .. m /\ m \in 0 .. m /\ m > s /\ s <= s
  OBVIOUS
<1>3. Met(tab, m, k)[s] \in Seq(Pairs) /\ Len(Met(tab, m, k)[s]) \in Nat
  BY <1>1, <1>2 DEF Collects
<1>4. Len(Met(tab, m, k)[s]) = 0
  <2>1. Lists(Met(tab, m, k)[s], tab, m, k, s)
    BY <1>1, <1>2, MetLists
  <2>2. \A a \in 1 .. Len(Met(tab, m, k)[s]) : FALSE
    BY <2>1 DEF Lists
  <2>. QED
    BY <1>3, <2>2
<1>5. Joins(Met(tab, m, k), Met(new, m, k), m, s, At(tab, m, k, s))
  <2>1. ~IsOf(At(new, m, k, s), k) /\ IsOf(At(tab, m, k, s), k)
    BY DEF IsOf
  <2>2. \A x \in 0 .. m - 1 : x # hashFunction(m, k, s) => tab[x] = new[x]
    OBVIOUS
  <2>. QED
    BY <2>1, <2>2, ItsKey
<1>6. Met(tab, m, k)[s] = Met(new, m, k)[s]
  BY <1>2, <1>5 DEF Joins
<1>7. Met(tab, m, k)[m] = Between(Met(new, m, k)[m], Len(Met(new, m, k)[s]), <<p>>)
  BY <1>2, <1>5 DEF Joins
<1> DEFINE q == Met(new, m, k)[m]
<1>8. q \in Seq(Pairs) /\ Met(tab, m, k)[m] = Between(q, 0, <<p>>)
  BY <1>1, <1>2, <1>4, <1>6, <1>7 DEF Collects
<1> HIDE DEF q
<1>9. Met(tab, m, k)[m] = <<p>> \o q
  BY <1>8, BetweenStart
<1>. QED
  BY <1>9 DEF InProbeOrder, q

-----------------------------------------------------------------------------
(***************************************************************************)
(* extend: the pair that moves.                                            *)
(***************************************************************************)
\* A turn of the loop that moves nothing, or its end.
LEMMA MoveRests ==
    ASSUME IInv, IInv', NEW t \in Threads, ThreadInv(t), pc[t] = "move", OnlyMine(t),
           UNCHANGED <<m_vHashTable, m_nCapacity, nPairs, call, ret, iHits, lOut,
                       nNewCapacity, tMoved, vNewHashTable>>,
           \/ pc'[t] = "rehash"
           \/ /\ pc'[t] = "move"
              /\ \/ ~HasFreeStep(t)
                 \/ \A i \in 0 .. m_nCapacity - 1 :
                       i < ik'[t] => ~IsOf(At(m_vHashTable, m_nCapacity, tMoved[t], i), tMoved[t])
    PROVE  Keeps(t)
<1>1. Writing(t) /\ ret[t] = NoRet /\ iHits[t] = 0 /\ lOut[t] = <<>>
  BY ExtendKnows
<1>2. Extending(t) /\ Extending(t)'
  BY DEF Extending
<1>3. Map' = Map /\ Held' = Held
  <2>1. \A k \in Keys : Mine(t, k)' = Mine(t, k)
    BY <1>2 DEF Mine, Seen
  <2>. QED
    BY <1>1, <2>1, WriterQuiet
<1>4. ExtendLoop(t)'
  <2>1. HasFreeStep(t)' <=> HasFreeStep(t)
    BY DEF HasFreeStep, IsFreeStep, NewCellNo
  <2>2. NoHoles(vNewHashTable[t], nNewCapacity[t])'
    BY <1>2 DEF ThreadInv, ExtendLoop, NoHoles, At
  <2>3. pc'[t] = "move" =>
          \/ ~HasFreeStep(t)'
          \/ \A i \in 0 .. m_nCapacity' - 1 :
                i < ik'[t] => ~IsOf(At(m_vHashTable, m_nCapacity, tMoved[t], i)', tMoved'[t])
    BY <2>1 DEF At
  <2>. QED
    BY <1>2, <1>3, <2>2, <2>3 DEF ThreadInv, ExtendLoop, IsOf
<1>5. ThreadInv(t)'
  BY <1>1, <1>4
     DEF ThreadInv, AtRest, FindLoop, RangeLoop, RangeForPosLoop, ScanLoop, InsertLoop,
         RemoveLoop
<1>. QED
  BY <1>3, <1>5, Stutter DEF Keeps

\* A pair of k goes from step s in one table to step j in the other: it is the
\* first the one probe meets, and the other meets no cell free before it.
Moves(old, rest, m, s, tab, new, n, j, k, p) ==
    /\ m \in Nat \ {0} /\ n \in Nat \ {0} /\ VisitsOnce(m) /\ VisitsOnce(n)
    /\ old \in [0 .. m - 1 -> Cells] /\ rest \in [0 .. m - 1 -> Cells]
    /\ tab \in [0 .. n - 1 -> Cells] /\ new \in [0 .. n - 1 -> Cells]
    /\ s \in 0 .. m - 1 /\ j \in 0 .. n - 1 /\ k \in Keys /\ p \in Pairs /\ IsOf(p, k)
    /\ At(old, m, k, s) = p /\ rest = Emptied(old, hashFunction(m, k, s))
    /\ \A i \in 0 .. m - 1 : i < s => ~IsOf(At(old, m, k, i), k)
    /\ At(tab, n, k, j) = nullptr /\ new = [tab EXCEPT ![hashFunction(n, k, j)] = p]
    /\ \A i \in 0 .. n - 1 : i < j => At(tab, n, k, i) # nullptr
    /\ NoHoles(tab, n)

\* One after the other, the probes meet the same pairs as before.
SameOrder(old, rest, m, tab, new, n) ==
    \A l \in Keys : InProbeOrder(new, n, l) \o InProbeOrder(rest, m, l)
                       = InProbeOrder(tab, n, l) \o InProbeOrder(old, m, l)

\* A pair that goes from the old table to the new one keeps its place.
LEMMA MovesKeepOrder ==
    ASSUME HashInRange, NEW m, NEW n, NEW old, NEW rest, NEW tab, NEW new,
           NEW s, NEW j, NEW k, NEW p, Moves(old, rest, m, s, tab, new, n, j, k, p)
    PROVE  /\ SameOrder(old, rest, m, tab, new, n)
           /\ NoHoles(new, n)
           /\ \A i \in 0 .. m - 1 : i < s + 1 => ~IsOf(At(rest, m, k, i), k)
<1> DEFINE x == hashFunction(m, k, s)
           y == hashFunction(n, k, j)
<1>1. /\ m \in Nat \ {0} /\ n \in Nat \ {0} /\ VisitsOnce(m) /\ VisitsOnce(n)
      /\ old \in [0 .. m - 1 -> Cells] /\ rest \in [0 .. m - 1 -> Cells]
      /\ tab \in [0 .. n - 1 -> Cells] /\ new \in [0 .. n - 1 -> Cells]
      /\ s \in 0 .. m - 1 /\ j \in 0 .. n - 1 /\ k \in Keys /\ p \in Pairs /\ IsOf(p, k)
      /\ At(old, m, k, s) = p /\ rest = Emptied(old, x)
      /\ At(tab, n, k, j) = nullptr /\ new = [tab EXCEPT ![y] = p]
      /\ NoHoles(tab, n)
  BY DEF Moves
<1>2. /\ \A i \in 0 .. m - 1 : i < s => ~IsOf(At(old, m, k, i), k)
      /\ \A i \in 0 .. n - 1 : i < j => At(tab, n, k, i) # nullptr
  BY DEF Moves
<1>3. x \in 0 .. m - 1 /\ y \in 0 .. n - 1
  BY <1>1, StepInTable
<1>4. /\ old[x] = p /\ rest[x] = nullptr /\ \A i \in 0 .. m - 1 : i # x => rest[i] = old[i]
      /\ tab[y] = nullptr /\ new[y] = p /\ \A i \in 0 .. n - 1 : i # y => new[i] = tab[i]
  BY <1>1, <1>3 DEF At, Emptied
<1>5. InProbeOrder(new, n, k) = Append(InProbeOrder(tab, n, k), p)
  <2>1. At(new, n, k, j) = p
    BY <1>4 DEF At
  <2>2. /\ n \in Nat \ {0} /\ VisitsOnce(n) /\ k \in Keys /\ j \in 0 .. n - 1 /\ p \in Pairs
        /\ tab \in [0 .. n - 1 -> Cells] /\ new \in [0 .. n - 1 -> Cells]
        /\ IsOf(p, k) /\ NoHoles(tab, n) /\ At(tab, n, k, j) = nullptr
    BY <1>1
  <2>3. \A i \in 0 .. n - 1 : i # hashFunction(n, k, j) => new[i] = tab[i]
    BY <1>4
  <2>. QED
    BY <2>1, <2>2, <2>3, ComesLast
<1>6. InProbeOrder(old, m, k) = <<p>> \o InProbeOrder(rest, m, k)
  <2>1. At(rest, m, k, s) = nullptr
    BY <1>4 DEF At
  <2>2. /\ m \in Nat \ {0} /\ VisitsOnce(m) /\ k \in Keys /\ s \in 0 .. m - 1 /\ p \in Pairs
        /\ old \in [0 .. m - 1 -> Cells] /\ rest \in [0 .. m - 1 -> Cells]
        /\ IsOf(p, k) /\ At(old, m, k, s) = p
    BY <1>1
  <2>3. \A i \in 0 .. m - 1 : i # hashFunction(m, k, s) => rest[i] = old[i]
    BY <1>4
  <2>4. \A i \in 0 .. m - 1 : i < s => ~IsOf(At(old, m, k, i), k)
    BY <1>2
  <2>. QED
    BY <2>1, <2>2, <2>3, <2>4, CameFirst
<1>7. ASSUME NEW l \in Keys, l # k
      PROVE  /\ InProbeOrder(new, n, l) = InProbeOrder(tab, n, l)
             /\ InProbeOrder(rest, m, l) = InProbeOrder(old, m, l)
  <2>1. ~IsOf(tab[y], l) /\ ~IsOf(new[y], l) /\ ~IsOf(old[x], l) /\ ~IsOf(rest[x], l)
    BY <1>1, <1>4, <1>7 DEF IsOf
  <2> HIDE DEF x, y
  <2>2. InProbeOrder(new, n, l) = InProbeOrder(tab, n, l)
    <3>1. /\ n \in Nat \ {0} /\ y \in 0 .. n - 1
          /\ tab \in [0 .. n - 1 -> Cells] /\ new \in [0 .. n - 1 -> Cells]
          /\ \A i \in 0 .. n - 1 : i # y => new[i] = tab[i]
      BY <1>1, <1>3, <1>4
    <3>. QED
      BY <2>1, <3>1, OtherKey
  <2>3. InProbeOrder(rest, m, l) = InProbeOrder(old, m, l)
    <3>1. /\ m \in Nat \ {0} /\ x \in 0 .. m - 1
          /\ old \in [0 .. m - 1 -> Cells] /\ rest \in [0 .. m - 1 -> Cells]
          /\ \A i \in 0 .. m - 1 : i # x => rest[i] = old[i]
      BY <1>1, <1>3, <1>4
    <3>. QED
      BY <2>1, <3>1, OtherKey
  <2>. QED
    BY <2>2, <2>3
<1>8. SameOrder(old, rest, m, tab, new, n)
  <2> DEFINE q == InProbeOrder(tab, n, k)
             r == InProbeOrder(rest, m, k)
  <2>1. q \in Seq(Pairs) /\ r \in Seq(Pairs)
    BY <1>1, OrderInSeq
  <2>2. Append(q, p) \o r = q \o (<<p>> \o r)
    <3> HIDE DEF q, r
    <3>. QED
      BY <1>1, <2>1, HandOver
  <2>. QED
    BY <1>5, <1>6, <1>7, <2>2 DEF SameOrder
<1>9. NoHoles(new, n)
  <2>1. p.key = k
    BY <1>1 DEF IsOf
  <2>. QED
    BY <1>1, <1>2, <2>1, PutNoHoles
<1>10. \A i \in 0 .. m - 1 : i < s + 1 => ~IsOf(At(rest, m, k, i), k)
  <2> SUFFICES ASSUME NEW i \in 0 .. m - 1, i < s + 1
               PROVE  ~IsOf(At(rest, m, k, i), k)
    OBVIOUS
  <2>1. hashFunction(m, k, i) \in 0 .. m - 1
    BY <1>1, StepInTable
  <2>2. CASE i = s
    BY <1>4, <2>2 DEF At, IsOf
  <2>3. CASE i < s
    BY <1>2, <1>4, <2>1, <2>3 DEF At, IsOf
  <2>. QED
    BY <1>1, <2>2, <2>3
<1>. QED
  BY <1>8, <1>9, <1>10

\* A pair goes from the one table to the other.
LEMMA MovePuts ==
    ASSUME HashInRange, VisitsOnce(m_nCapacity), IInv, IInv',
           NEW t \in Threads, VisitsOnce(nNewCapacity[t]), ThreadInv(t), pc[t] = "move",
           OnlyMine(t), HasFreeStep(t), ik[t] < m_nCapacity,
           NEW k \in Keys, tMoved[t] = k,
           NEW p, p = At(m_vHashTable, m_nCapacity, k, ik[t]), IsOf(p, k),
           NEW j \in 0 .. nNewCapacity[t] - 1, IsFirstFreeStep(t, j),
           vNewHashTable' = [vNewHashTable EXCEPT ![t][hashFunction(nNewCapacity[t], k, j)] = p],
           m_vHashTable' = Emptied(m_vHashTable, hashFunction(m_nCapacity, k, ik[t])),
           ik' = [ik EXCEPT ![t] = @ + 1],
           UNCHANGED <<pc, m_nCapacity, nPairs, call, ret, iHits, lOut, nNewCapacity, tMoved>>
    PROVE  Keeps(t)
<1> DEFINE m == m_nCapacity
           n == nNewCapacity[t]
           s == ik[t]
           old == m_vHashTable
           rest == m_vHashTable'
           tab == vNewHashTable[t]
           new == vNewHashTable'[t]
<1>1. /\ Writing(t) /\ ret[t] = NoRet /\ iHits[t] = 0 /\ lOut[t] = <<>>
      /\ m \in Nat \ {0} /\ old \in [0 .. m - 1 -> Cells] /\ Extending(t) /\ Extending(t)'
      /\ n \in Nat \ {0} /\ tab \in [0 .. n - 1 -> Cells] /\ s \in 0 .. m - 1
      /\ rest \in [0 .. m - 1 -> Cells] /\ new \in [0 .. n - 1 -> Cells]
  <2>1. Extending(t) /\ Extending(t)'
    BY DEF Extending
  <2>2. m_vHashTable' \in [0 .. m_nCapacity' - 1 -> Cells]
        /\ vNewHashTable'[t] \in [0 .. nNewCapacity'[t] - 1 -> Cells]
    BY <2>1 DEF IInv, TypeOK
  <2>. QED
    BY <2>1, <2>2, ExtendKnows
<1>2. Moves(old, rest, m, s, tab, new, n, j, k, p)
  <2>1. /\ At(tab, n, k, j) = nullptr
        /\ \A i \in 0 .. n - 1 : i < j => At(tab, n, k, i) # nullptr
    BY <1>1 DEF IsFirstFreeStep, IsFreeStep, NewCellNo, At
  <2>2. NoHoles(tab, n) /\ \A i \in 0 .. m - 1 : i < s => ~IsOf(At(old, m, k, i), k)
    BY <1>1 DEF ThreadInv, ExtendLoop
  <2>3. hashFunction(m, k, s) \in 0 .. m - 1
    BY <1>1, StepInTable
  <2>4. p \in Pairs
    BY <1>1, <2>3 DEF At, IsOf, Cells
  <2>5. new = [tab EXCEPT ![hashFunction(n, k, j)] = p]
    BY <1>1 DEF IInv, TypeOK
  <2>6. rest = Emptied(old, hashFunction(m, k, s)) /\ At(old, m, k, s) = p
        /\ VisitsOnce(m) /\ VisitsOnce(n) /\ IsOf(p, k) /\ j \in 0 .. n - 1
    OBVIOUS
  <2> HIDE DEF m, n, s, old, rest, tab, new
  <2>. QED
    BY <1>1, <2>1, <2>2, <2>4, <2>5, <2>6 DEF Moves
<1>3. /\ SameOrder(old, rest, m, tab, new, n)
      /\ NoHoles(new, n)
      /\ \A i \in 0 .. m - 1 : i < s + 1 => ~IsOf(At(rest, m, k, i), k)
  <2> HIDE DEF m, n, s, old, rest, tab, new
  <2>. QED
    BY <1>2, MovesKeepOrder
<1>4. Map' = Map /\ Held' = Held
  <2>1. \A l \in Keys : /\ Mine(t, l) = InProbeOrder(tab, n, l) \o InProbeOrder(old, m, l)
                        /\ Mine(t, l)' = InProbeOrder(new, n, l) \o InProbeOrder(rest, m, l)
    BY <1>1 DEF Mine, Seen
  <2>2. \A l \in Keys : Mine(t, l)' = Mine(t, l)
    BY <1>3, <2>1 DEF SameOrder
  <2>. QED
    BY <1>1, <2>2, WriterQuiet
<1>5. ExtendLoop(t)'
  <2>1. NoHoles(vNewHashTable[t], nNewCapacity[t])'
    BY <1>3 DEF NoHoles, At
  <2>2. ik'[t] = s + 1
    BY DEF IInv, TypeOK
  <2>3. \A i \in 0 .. m_nCapacity' - 1 :
           i < ik'[t] => ~IsOf(At(m_vHashTable, m_nCapacity, tMoved[t], i)', tMoved'[t])
    BY <1>3, <2>2 DEF At
  <2>. QED
    BY <1>1, <1>4, <2>1, <2>3 DEF ThreadInv, ExtendLoop, IsOf
<1>6. ThreadInv(t)'
  BY <1>1, <1>5
     DEF ThreadInv, AtRest, FindLoop, RangeLoop, RangeForPosLoop, ScanLoop, InsertLoop,
         RemoveLoop
<1>. QED
  BY <1>4, <1>6, Stutter DEF Keeps

\* Every step of the probe for the pair that moves.
LEMMA MoveKeeps ==
    ASSUME HashInRange, VisitsOnce(m_nCapacity), IInv, IInv',
           NEW t \in Threads, VisitsOnce(nNewCapacity[t]), ThreadInv(t), Move(t)
    PROVE  Keeps(t)
<1> DEFINE k == tMoved[t]
           p == At(m_vHashTable, m_nCapacity, k, ik[t])
<1>1. /\ pc[t] = "move" /\ OnlyMine(t) /\ k \in Keys /\ ik[t] \in Nat /\ m_nCapacity \in Nat
      /\ UNCHANGED <<m_nCapacity, nPairs, call, ret, iHits, lOut, nNewCapacity, tMoved>>
  BY StepsAreMine DEF Move, Step, IInv, TypeOK, PCInv
<1>2. CASE ik[t] >= m_nCapacity /\ Goto(t, "rehash") /\ UNCHANGED <<m_vHashTable, ik, vNewHashTable>>
  <2>1. pc'[t] = "rehash"
    BY <1>2 DEF Goto, IInv, TypeOK
  <2>. QED
    BY <1>1, <1>2, <2>1, MoveRests
<1>3. CASE /\ ik[t] < m_nCapacity
           /\ IsOf(p, k) /\ HasFreeStep(t)
           /\ \E j \in 0 .. nNewCapacity[t] - 1 :
                 /\ IsFirstFreeStep(t, j)
                 /\ vNewHashTable' =
                       [vNewHashTable EXCEPT ![t][hashFunction(nNewCapacity[t], k, j)] = p]
           /\ m_vHashTable' = Emptied(m_vHashTable, hashFunction(m_nCapacity, k, ik[t]))
           /\ ik' = [ik EXCEPT ![t] = @ + 1]
           /\ UNCHANGED pc
  <2>1. PICK j \in 0 .. nNewCapacity[t] - 1 :
          /\ IsFirstFreeStep(t, j)
          /\ vNewHashTable' =
                [vNewHashTable EXCEPT ![t][hashFunction(nNewCapacity[t], k, j)] = p]
    BY <1>3
  <2>. QED
    BY <1>1, <1>3, <2>1, MovePuts
<1>4. CASE /\ ik[t] < m_nCapacity
           /\ ~ (IsOf(p, k) /\ HasFreeStep(t))
           /\ ik' = [ik EXCEPT ![t] = @ + 1]
           /\ UNCHANGED <<m_vHashTable, pc, vNewHashTable>>
  <2>1. ik'[t] = ik[t] + 1
    BY <1>4 DEF IInv, TypeOK
  <2>2. \/ ~HasFreeStep(t)
        \/ \A i \in 0 .. m_nCapacity - 1 : i < ik'[t] => ~IsOf(At(m_vHashTable, m_nCapacity, k, i), k)
    <3>1. \/ ~HasFreeStep(t)
          \/ \A i \in 0 .. m_nCapacity - 1 :
                i < ik[t] => ~IsOf(At(m_vHashTable, m_nCapacity, k, i), k)
      BY <1>1 DEF ThreadInv, ExtendLoop
    <3>2. HasFreeStep(t) => ~IsOf(p, k)
      BY <1>4
    <3>3. \A i \in 0 .. m_nCapacity - 1 : i < ik[t] + 1 => i < ik[t] \/ i = ik[t]
      BY <1>1
    <3>. QED
      BY <2>1, <3>1, <3>2, <3>3
  <2>. QED
    BY <1>1, <1>4, <2>2, MoveRests
<1>. QED
  <2>1. hashFunction(m_nCapacity, tMoved[t], ik[t]) = hashFunction(m_nCapacity, k, ik[t])
        /\ m_vHashTable[hashFunction(m_nCapacity, k, ik[t])] = p
    BY DEF At
  <2>. QED
    BY <1>2, <1>3, <1>4, <2>1 DEF Move, NewCellNo, IsOf

-----------------------------------------------------------------------------
(***************************************************************************)
(* The refinement.                                                         *)
(***************************************************************************)
\* The first states.
LEMMA PromiseInitially ==
    ASSUME HashInRange
    PROVE  Init => PromiseInv /\ Promise!Init
<1> SUFFICES ASSUME Init
             PROVE  PromiseInv /\ Promise!Init
  OBVIOUS
<1>1. IInv /\ PlaceInv
  BY Initially, PlaceInitially
<1>2. PairsAreReachable
  BY InterfaceAssumption DEF Init, PairsAreReachable, NewTable, NoTable
<1>3. \A t \in Threads : ThreadInv(t)
  BY DEF Init, ThreadInv, AtRest, FindLoop, RangeLoop, RangeForPosLoop, ScanLoop, InsertLoop,
         RemoveLoop, ExtendLoop, Extending
<1>4. \A k \in Keys : Items(k) = <<>>
  <2> SUFFICES ASSUME NEW k \in Keys
               PROVE  Items(k) = <<>>
    OBVIOUS
  <2>1. Items(k) = Seen(k)
    BY DEF Init, Items, InOrder, Removing, Extending, Seen
  <2>2. Seen(k) = InProbeOrder(NewTable(DefaultCapacity), DefaultCapacity, k)
    BY DEF Init, Seen
  <2>. QED
    BY <2>1, <2>2, InterfaceAssumption, EmptyProbe
<1>5. Promise!Init
  BY <1>4, SpeakTheSame DEF Init, Promise!Init, SameWords
<1>. QED
  BY <1>1, <1>2, <1>3, <1>5 DEF PromiseInv

\* A step that changes nothing.
LEMMA NothingHappens ==
    ASSUME PromiseInv, UNCHANGED vars
    PROVE  (\A t \in Threads : ThreadInv(t)') /\ UNCHANGED Promise!mvars
<1>1. UNCHANGED <<m_vHashTable, m_nCapacity, nPairs, pc, call, ret, ik, iHits, lOut,
                  nNewCapacity, vNewHashTable, tMoved>>
  BY DEF vars, tableVars, loopVars, extendVars
<1>2. \A k \in Keys : Items(k)' = Items(k)
  BY <1>1 DEF Items, InOrder, Removing, Extending
<1>3. Map' = Map /\ Held' = Held
  BY <1>2, MapKept DEF Held
<1>4. UNCHANGED Promise!mvars
  BY <1>1, <1>3, Stutter
<1>5. ASSUME NEW t \in Threads
      PROVE  ThreadInv(t)'
  <2>1. AtRest(t)' /\ FindLoop(t)' /\ RangeLoop(t)' /\ RangeForPosLoop(t)'
    BY <1>1 DEF PromiseInv, ThreadInv, AtRest, FindLoop, RangeLoop, RangeForPosLoop, MetBy
  <2>2. ScanLoop(t)' /\ InsertLoop(t)' /\ RemoveLoop(t)'
    BY <1>1 DEF PromiseInv, ThreadInv, ScanLoop, InsertLoop, RemoveLoop, RemoveLimit, MetBy, At
  <2>3. HasFreeStep(t)' <=> HasFreeStep(t)
    BY <1>1 DEF HasFreeStep, IsFreeStep, NewCellNo
  <2>4. ExtendLoop(t)'
    BY <1>1, <1>3, <2>3 DEF PromiseInv, ThreadInv, ExtendLoop, Extending, NoHoles, At
  <2>. QED
    BY <2>1, <2>2, <2>4 DEF ThreadInv
<1>. QED
  BY <1>4, <1>5

\* Every step of a thread keeps what it knows, and is one of the promise or none.
LEMMA StepKeeps ==
    ASSUME HashInRange, PositionsDoNotWrap, ProbesDoNotRepeat, PromiseInv, IInv',
           NEW t \in Threads, NEW c \in Calls, Step(t) \/ Invoke(t, c)
    PROVE  Keeps(t)
<1>1. IInv /\ PlaceInv /\ PairsAreReachable /\ ThreadInv(t) /\ VisitsOnce(m_nCapacity)
  BY DEF PromiseInv, ProbesDoNotRepeat
<1>2. CASE Invoke(t, c)
  BY <1>1, <1>2, InvokeKeeps
<1>3. CASE Acquires(t)
  BY <1>1, <1>3, AcquireKeeps
<1>4. CASE Release(t)
  BY <1>1, <1>4, ReleaseKeeps
<1>5. CASE Reader(t)
  BY <1>1, <1>5, ReaderKeeps
<1>6. CASE Insert(t)
  BY <1>1, <1>6, InsertKeeps
<1>7. CASE Remove(t)
  BY <1>1, <1>7, RemoveKeeps
<1>8. CASE Clear(t)
  BY <1>1, <1>8, ClearKeeps
<1>9. CASE ExtendBegin(t)
  BY <1>1, <1>9, ExtendBeginKeeps
<1>10. CASE Rehash(t)
  BY <1>1, <1>10, RehashKeeps
<1>11. CASE Move(t)
  <2>1. VisitsOnce(nNewCapacity[t])
    BY <1>11 DEF ProbesDoNotRepeat, Extending, Move
  <2>. QED
    BY <1>1, <1>11, <2>1, MoveKeeps
<1>. QED
  BY <1>2, <1>3, <1>4, <1>5, <1>6, <1>7, <1>8, <1>9, <1>10, <1>11
     DEF Step, Acquires, Reader

\* One step of any thread.
LEMMA PromiseStep ==
    ASSUME HashInRange, PositionsDoNotWrap, ProbesDoNotRepeat, PromiseInv, [Next]_vars
    PROVE  PromiseInv' /\ (Promise!Next \/ UNCHANGED Promise!mvars)
<1>1. IInv /\ PlaceInv /\ PairsAreReachable
  BY DEF PromiseInv
<1>2. IInv'
  BY <1>1, TypeOKStep, PCInvStep, LockInvStep DEF IInv
<1>3. PlaceInv' /\ PairsAreReachable'
  BY <1>1, PlaceStep, ReachableStep
<1>4. CASE UNCHANGED vars
  BY <1>2, <1>3, <1>4, NothingHappens DEF PromiseInv
<1>5. ASSUME NEW t \in Threads, NEW c \in Calls, Step(t) \/ Invoke(t, c)
      PROVE  (\A u \in Threads : ThreadInv(u)') /\ (Promise!Next \/ UNCHANGED Promise!mvars)
  <2>1. Keeps(t)
    BY <1>2, <1>5, StepKeeps
  <2>2. \A u \in Threads \ {t} : ThreadInv(u)'
    BY <1>1, <1>2, <1>5, OthersKeep DEF PromiseInv
  <2>. QED
    BY <2>1, <2>2 DEF Keeps
<1>6. CASE Next
  <2>1. PICK t \in Threads : Step(t) \/ \E c \in Calls : Invoke(t, c)
    BY <1>6 DEF Next
  <2>2. \E c \in Calls : Step(t) \/ Invoke(t, c)
    <3>1. [op |-> "size"] \in Calls
      BY DEF Calls, PlainCalls
    <3>. QED
      BY <2>1, <3>1
  <2>3. (\A u \in Threads : ThreadInv(u)') /\ (Promise!Next \/ UNCHANGED Promise!mvars)
    BY <1>5, <2>2
  <2>. QED
    BY <1>2, <1>3, <2>3 DEF PromiseInv
<1>. QED
  BY <1>4, <1>6

\* HashMap does what Multimap promises: seen from outside, its operations take
\* effect one at a time, each at one moment between its call and its return,
\* however the turns of the loops of several threads interleave.
THEOREM MultimapImplemented ==
    ASSUME HashInRange, PositionsDoNotWrap
    PROVE  Spec /\ []ProbesDoNotRepeat => ImplementsMultimap
<1>1. Init => PromiseInv /\ Promise!Init
  BY PromiseInitially
<1>2. PromiseInv /\ ProbesDoNotRepeat /\ [Next]_vars
         => PromiseInv' /\ [Promise!Next]_(Promise!mvars)
  BY PromiseStep
<1>. QED
  BY <1>1, <1>2, PTL DEF Spec, ImplementsMultimap, Promise!Spec
=============================================================================
