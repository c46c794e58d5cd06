---------------------------- MODULE HashMapProofs ----------------------------
(***************************************************************************)
(* Proofs about HashMap, for any number of threads, any keys, any bounds   *)
(* and any hash function that stays inside the table (HashInRange).        *)
(***************************************************************************)
EXTENDS HashMapProperties, TLAPS

(***************************************************************************)
(* The inductive invariant: the types, what the program counter says of    *)
(* the call and its locals, and what it says of the lock.                  *)
(***************************************************************************)
ProbeOps == {"find", "equalRange", "operator[]", "insert", "remove"}

PCInv ==
    \A t \in Threads :
        /\ pc[t] # "idle" => call[t] \in Calls
        /\ pc[t] \in {"rdlock", "scan", "read"} => call[t].op \in ReadOps
        /\ pc[t] = "rdlock2" => call[t].op = "find"
        /\ pc[t] = "probe" => call[t].op \in ProbeOps
        /\ pc[t] \in {"wrlock", "clear"} => call[t].op \in WriteOps
        /\ pc[t] \in {"extend", "rehash", "move"} => call[t].op \in {"insert", "extend"}
        /\ pc[t] = "move" => tMoved[t] \in Keys
        /\ Extending(t) => nNewCapacity[t] # 0

\* From the acquisition of its (last) lock to the release.
Inside(t) == InBody(t) \/ pc[t] = "unlock"

LockInv ==
    /\ \A t \in Threads :
          t \in m_mSharedMutex.writer <=> Inside(t) /\ call[t].op \in WriteOps
    /\ \A t, u \in m_mSharedMutex.writer : t = u
    /\ m_mSharedMutex.writer # {} => \A t \in Threads : m_mSharedMutex.readers[t] = 0
    /\ \A t \in Threads :
          pc[t] = "rdlock2" \/ (Inside(t) /\ call[t].op \in ReadOps)
            => m_mSharedMutex.readers[t] > 0

IInv == TypeOK /\ PCInv /\ LockInv
-----------------------------------------------------------------------------
\* The operation, and the arguments, of every call.
LEMMA CallShapes ==
    ASSUME NEW c \in Calls
    PROVE  /\ c.op \in AllOps
           /\ c # NoCall
           /\ c \in InsertCalls <=> c.op = "insert"
           /\ c.op \in ProbeOps => c.tKey \in Keys
           /\ c.op \in {"find", "equalRange", "remove"} => c.iPos \in Nat
           /\ c.op = "extend" => c.nNewCapacity \in Nat
<1> USE DEF Calls, FindCalls, RangeCalls, SubscriptCalls, InsertCalls, RemoveCalls,
            ExtendCalls, PlainCalls
<1>1. c.op \in AllOps
  BY DEF AllOps, ReadOps, WriteOps
<1>2. c # NoCall
  BY DEF NoCall
<1>3. c \in InsertCalls <=> c.op = "insert"
  OBVIOUS
<1>4. ASSUME c.op \in ProbeOps
      PROVE  c.tKey \in Keys
  BY <1>4 DEF ProbeOps
<1>5. ASSUME c.op \in {"find", "equalRange", "remove"}
      PROVE  c.iPos \in Nat
  BY <1>5, InterfaceAssumption
<1>6. ASSUME c.op = "extend"
      PROVE  c.nNewCapacity \in Nat
  BY <1>6, InterfaceAssumption
<1>7. QED
  BY <1>1, <1>2, <1>3, <1>4, <1>5, <1>6

\* The cell of a step of a probe is a cell of the table.
LEMMA CellInTable ==
    ASSUME HashInRange, TypeOK, PCInv, NEW t \in Threads, Probing(t)
    PROVE  /\ CellNo(t) \in 0 .. m_nCapacity - 1
           /\ Cell(t) \in Cells
           /\ call[t].tKey \in Keys
           /\ Matches(t) => Cell(t) \in Pairs
<1>1. call[t] \in Calls /\ call[t].op \in ProbeOps
  BY DEF PCInv, Probing
<1>2. call[t].tKey \in Keys
  BY <1>1, CallShapes
<1>3. CellNo(t) \in 0 .. m_nCapacity - 1
  BY <1>2 DEF TypeOK, CellNo, HashInRange
<1>4. Cell(t) \in Cells
  BY <1>3 DEF TypeOK, Cell
<1>5. QED
  BY <1>2, <1>3, <1>4 DEF Matches, Cells

THEOREM Initially == Init => IInv
<1> SUFFICES ASSUME Init PROVE IInv
  OBVIOUS
<1>1. TypeOK
  BY InterfaceAssumption
     DEF Init, TypeOK, NewTable, NoTable, Unlocked, Cells, PCs, Extending
<1>2. PCInv
  BY DEF Init, PCInv, Extending
<1>3. LockInv
  BY DEF Init, LockInv, Unlocked, Inside, InBody
<1>4. QED
  BY <1>1, <1>2, <1>3 DEF IInv
-----------------------------------------------------------------------------
(***************************************************************************)
(* The locals of the loops, whichever way a turn ends.                     *)
(***************************************************************************)
LEMMA LeaveTypes ==
    ASSUME TypeOK, NEW t \in Threads, NEW r \in Results, Leave(t, r)
    PROVE  /\ pc' \in [Threads -> PCs]
           /\ ret' \in [Threads -> Results \cup {NoRet}]
           /\ ik' \in [Threads -> Nat]
           /\ iHits' \in [Threads -> Nat]
           /\ lOut' \in [Threads -> Seq(Pairs)]
  BY DEF TypeOK, Leave, PCs

LEMMA NextTurnTypes ==
    ASSUME TypeOK, NEW t \in Threads, NEW hits \in Nat, NEW out \in Seq(Pairs),
           NextTurn(t, hits, out)
    PROVE  /\ pc' \in [Threads -> PCs]
           /\ ret' \in [Threads -> Results \cup {NoRet}]
           /\ ik' \in [Threads -> Nat]
           /\ iHits' \in [Threads -> Nat]
           /\ lOut' \in [Threads -> Seq(Pairs)]
  BY DEF TypeOK, NextTurn

LEMMA ResultTypes ==
    /\ \A s \in Seq(Pairs) : Range_(s) \in Results
    /\ \A n \in Nat : Number(n) \in Results
    /\ \A b \in BOOLEAN : Truth(b) \in Results
    /\ Void \in Results
  BY DEF Results, Range_, Number, Truth, Void

\* What a turn of a reader's loop does to its locals.
LEMMA ReaderTypes ==
    ASSUME HashInRange, TypeOK, PCInv, NEW t \in Threads,
           \/ Find(t) \/ EqualRange(t) \/ EqualRangeForPos(t)
           \/ Size(t) \/ Empty(t) \/ Capacity(t)
    PROVE  /\ pc' \in [Threads -> PCs]
           /\ ret' \in [Threads -> Results \cup {NoRet}]
           /\ ik' \in [Threads -> Nat]
           /\ iHits' \in [Threads -> Nat]
           /\ lOut' \in [Threads -> Seq(Pairs)]
<1>1. /\ iHits[t] \in Nat /\ iHits[t] + 1 \in Nat /\ lOut[t] \in Seq(Pairs)
      /\ <<>> \in Seq(Pairs) /\ m_nCapacity \in Nat
  BY DEF TypeOK
<1>2. Probing(t) /\ Matches(t) => /\ Append(lOut[t], Cell(t)) \in Seq(Pairs)
                                 /\ <<Cell(t)>> \in Seq(Pairs)
  BY <1>1, CellInTable
<1>3. \/ \E r \in Results : Leave(t, r)
      \/ \E hits \in Nat, out \in Seq(Pairs) : NextTurn(t, hits, out)
  <2>1. CASE Find(t)
    BY <2>1, <1>1, <1>2, ResultTypes DEF Find
  <2>2. CASE EqualRange(t)
    BY <2>2, <1>1, <1>2, ResultTypes DEF EqualRange
  <2>3. CASE EqualRangeForPos(t)
    BY <2>3, <1>1, <1>2, ResultTypes DEF EqualRangeForPos
  <2>4. CASE Size(t)
    BY <2>4, <1>1, ResultTypes DEF Size
  <2>5. CASE Empty(t)
    BY <2>5, <1>1, ResultTypes DEF Empty
  <2>6. CASE Capacity(t)
    BY <2>6, <1>1, ResultTypes DEF Capacity
  <2>7. QED
    BY <2>1, <2>2, <2>3, <2>4, <2>5, <2>6
<1>4. QED
  BY <1>3, LeaveTypes, NextTurnTypes

Reader(t) == \/ Find(t) \/ EqualRange(t) \/ EqualRangeForPos(t)
             \/ Size(t) \/ Empty(t) \/ Capacity(t)

\* A turn of a reader's loop writes its locals only.
LEMMA ReaderFrame ==
    ASSUME NEW t \in Threads, Reader(t)
    PROVE  /\ pc[t] \in {"probe", "scan", "read"}
           /\ call[t].op \in ReadOps
           /\ pc' = pc \/ pc' = [pc EXCEPT ![t] = "unlock"]
           /\ UNCHANGED <<tableVars, m_mSharedMutex, call, extendVars>>
<1> USE DEF LookupOnly, ReadOps
<1>1. CASE Find(t)
  BY <1>1 DEF Find, Probing, Leave, NextTurn
<1>2. CASE EqualRange(t)
  BY <1>2 DEF EqualRange, WholeRange, Probing, Leave, NextTurn
<1>3. CASE EqualRangeForPos(t)
  BY <1>3 DEF EqualRangeForPos, Probing, Leave, NextTurn
<1>4. CASE Size(t)
  BY <1>4 DEF Size, Leave, NextTurn
<1>5. CASE Empty(t)
  BY <1>5 DEF Empty, Leave, NextTurn
<1>6. CASE Capacity(t)
  BY <1>6 DEF Capacity, Leave
<1>7. QED
  BY <1>1, <1>2, <1>3, <1>4, <1>5, <1>6 DEF Reader

Mutexes == [writer : SUBSET Threads, readers : [Threads -> Nat]]

LEMMA MutexTypes ==
    ASSUME NEW m \in Mutexes, NEW t \in Threads
    PROVE  /\ Lock(m, t) \in Mutexes
           /\ Unlock(m, t) \in Mutexes
           /\ LockShared(m, t) \in Mutexes
           /\ m.readers[t] > 0 => UnlockShared(m, t) \in Mutexes
<1>1. [m.readers EXCEPT ![t] = @ + 1] \in [Threads -> Nat]
  BY DEF Mutexes
<1>2. m.readers[t] > 0 => [m.readers EXCEPT ![t] = @ - 1] \in [Threads -> Nat]
  BY DEF Mutexes
<1>3. QED
  BY <1>1, <1>2 DEF Mutexes, Lock, Unlock, LockShared, UnlockShared

\* The two ways back from extendImpl.
LEMMA ExtendReturnsTypes ==
    ASSUME TypeOK, NEW t \in Threads, ExtendReturns(t)
    PROVE  /\ pc' \in [Threads -> PCs]
           /\ ret' \in [Threads -> Results \cup {NoRet}]
           /\ ik' \in [Threads -> Nat]
           /\ iHits' \in [Threads -> Nat]
           /\ lOut' \in [Threads -> Seq(Pairs)]
<1>1. CASE Leave(t, Void)
  BY <1>1, LeaveTypes, ResultTypes
<1>2. CASE Goto(t, "probe") /\ ik' = [ik EXCEPT ![t] = 0] /\ UNCHANGED <<ret, iHits, lOut>>
  BY <1>2 DEF TypeOK, Goto, PCs
<1>3. QED
  BY <1>1, <1>2 DEF ExtendReturns

LEMMA ForgetExtendTypes ==
    ASSUME TypeOK, NEW t \in Threads, ExtendReturns(t), ForgetExtend(t)
    PROVE  /\ nNewCapacity' \in [Threads -> Nat]
           /\ tMoved' \in [Threads -> Keys \cup {nullptr}]
           /\ vNewHashTable' = [u \in Threads |-> vNewHashTable'[u]]
           /\ \A u \in Threads :
                 vNewHashTable'[u] \in
                   IF Extending(u)' THEN [0 .. nNewCapacity'[u] - 1 -> Cells]
                                    ELSE {NoTable}
<1>1. ~Extending(t)' /\ \A u \in Threads \ {t} : Extending(u)' <=> Extending(u)
  BY DEF ExtendReturns, Leave, Goto, TypeOK, Extending
<1>2. QED
  BY <1>1 DEF TypeOK, ForgetExtend

LEMMA TypeOKStep ==
    ASSUME HashInRange, IInv, [Next]_vars
    PROVE  TypeOK'
<1> USE DEF IInv
<1> DEFINE NewTables == /\ vNewHashTable = [t \in Threads |-> vNewHashTable[t]]
                        /\ \A t \in Threads :
                              vNewHashTable[t] \in
                                IF Extending(t) THEN [0 .. nNewCapacity[t] - 1 -> Cells]
                                                ELSE {NoTable}
<1> HIDE DEF NewTables
<1>1. ASSUME NEW t \in Threads, NEW c \in Calls, Invoke(t, c)
      PROVE  TypeOK'
  BY <1>1 DEF TypeOK, Invoke, Goto, PCs, Extending, tableVars, loopVars, extendVars
<1>2. ASSUME NEW t \in Threads, AcquireRead(t)
      PROVE  TypeOK'
  <2>1. call[t].op \in ReadOps
    BY <1>2 DEF AcquireRead, PCInv
  <2>2. Entry(call[t]) \in PCs \ {"rehash", "move"}
    BY <2>1 DEF Entry, ReadOps, PCs
  <2>3. m_mSharedMutex' \in Mutexes
    BY <1>2, MutexTypes DEF AcquireRead, TypeOK, Mutexes
  <2>4. pc' \in [Threads -> PCs]
    BY <1>2, <2>2 DEF AcquireRead, Goto, TypeOK, PCs
  <2>5. \A u \in Threads : Extending(u)' <=> Extending(u)
    BY <1>2, <2>2 DEF AcquireRead, Goto, TypeOK, PCs, Extending
  <2>6. QED
    BY <1>2, <2>3, <2>4, <2>5 DEF AcquireRead, TypeOK, Mutexes, tableVars, loopVars, extendVars
<1>3. ASSUME NEW t \in Threads, AcquireReadAgain(t)
      PROVE  TypeOK'
  <2>1. m_mSharedMutex' \in Mutexes
    BY <1>3, MutexTypes DEF AcquireReadAgain, TypeOK, Mutexes
  <2>2. QED
    BY <1>3, <2>1 DEF AcquireReadAgain, Goto, TypeOK, Mutexes, PCs, Extending,
                      tableVars, loopVars, extendVars
<1>4. ASSUME NEW t \in Threads, AcquireWrite(t)
      PROVE  TypeOK'
  <2>1. call[t] \in Calls /\ call[t].op \in WriteOps
    BY <1>4 DEF AcquireWrite, PCInv
  <2>2. Entry(call[t]) \in PCs \ {"rehash", "move"}
    BY <2>1 DEF Entry, WriteOps, PCs
  <2>3. m_mSharedMutex' \in Mutexes
    BY <1>4, MutexTypes DEF AcquireWrite, TypeOK, Mutexes
  <2>4. pc' \in [Threads -> PCs]
    BY <1>4, <2>2 DEF AcquireWrite, Goto, TypeOK, PCs
  <2>5. nNewCapacity' \in [Threads -> Nat]
    BY <1>4, <2>1, CallShapes DEF AcquireWrite, TypeOK
  <2>6. \A u \in Threads : /\ Extending(u)' <=> Extending(u)
                           /\ Extending(u) => nNewCapacity'[u] = nNewCapacity[u]
    BY <1>4, <2>2 DEF AcquireWrite, Goto, TypeOK, PCs, Extending
  <2>7. QED
    BY <1>4, <2>3, <2>4, <2>5, <2>6 DEF AcquireWrite, TypeOK, Mutexes, tableVars, loopVars
<1>5. ASSUME NEW t \in Threads, Release(t)
      PROVE  TypeOK'
  <2>1. m_mSharedMutex' \in Mutexes
    <3>1. CASE t \in m_mSharedMutex.writer
      <4>1. m_mSharedMutex \in Mutexes /\ m_mSharedMutex' = Unlock(m_mSharedMutex, t)
        BY <1>5, <3>1 DEF Release, TypeOK, Mutexes
      <4>2. QED
        BY <4>1, MutexTypes
    <3>2. CASE t \notin m_mSharedMutex.writer
      <4>1. call[t].op \in ReadOps
        BY <1>5, <3>2, CallShapes DEF Release, PCInv, LockInv, Inside, AllOps
      <4>2. m_mSharedMutex.readers[t] > 0
        BY <1>5, <4>1 DEF Release, LockInv, Inside
      <4>3. m_mSharedMutex' = UnlockShared(m_mSharedMutex, t)
        BY <1>5, <3>2 DEF Release
      <4>4. QED
        BY <4>2, <4>3, MutexTypes DEF TypeOK, Mutexes
    <3>3. QED
      BY <3>1, <3>2
  <2>2. QED
    BY <1>5, <2>1 DEF Release, Goto, TypeOK, Mutexes, PCs, Extending, tableVars, loopVars, extendVars
<1>6. ASSUME NEW t \in Threads, Reader(t)
      PROVE  TypeOK'
  <2>1. \A u \in Threads : Extending(u)' <=> Extending(u)
    BY <1>6, ReaderFrame DEF TypeOK, Extending
  <2>2. QED
    BY <1>6, <2>1, ReaderFrame, ReaderTypes DEF Reader, TypeOK, tableVars, extendVars
<1>7. ASSUME NEW t \in Threads, Insert(t)
      PROVE  TypeOK'
  <2>1. \A u \in Threads : Extending(u)' <=> Extending(u)
    BY <1>7 DEF Insert, Probing, NextTurn, Leave, Goto, TypeOK, Extending
  <2>2. CASE Probing(t) /\ Cell(t) = nullptr /\ Leave(t, Void)
             /\ nPairs' = nPairs + 1 /\ UNCHANGED <<m_nCapacity, extendVars>>
             /\ m_vHashTable' = [m_vHashTable EXCEPT ![CellNo(t)] =
                                   [key |-> call[t].tKey, val |-> nPairs']]
    <3>1. [key |-> call[t].tKey, val |-> nPairs'] \in Cells /\ nPairs' \in Nat
      <4>1. nPairs' \in Nat /\ call[t].tKey \in Keys
        BY <2>2, CellInTable DEF TypeOK
      <4>2. QED
        BY <4>1 DEF Cells, Pairs
    <3>2. m_vHashTable' \in [0 .. m_nCapacity' - 1 -> Cells]
      BY <2>2, <3>1 DEF TypeOK, extendVars
    <3>3. QED
      BY <1>7, <2>1, <2>2, <3>1, <3>2, LeaveTypes, ResultTypes
         DEF Insert, TypeOK, extendVars
  <2>3. CASE NextTurn(t, iHits[t], lOut[t]) /\ UNCHANGED <<tableVars, extendVars>>
    BY <1>7, <2>1, <2>3 DEF Insert, NextTurn, TypeOK, tableVars, extendVars
  <2>4. CASE /\ pc[t] = "probe"
             /\ Goto(t, "extend")
             /\ nNewCapacity' = [nNewCapacity EXCEPT ![t] = GrownCapacity]
             /\ UNCHANGED <<tableVars, ret, loopVars, vNewHashTable, tMoved>>
    <3>1. GrownCapacity \in Nat
      BY InterfaceAssumption DEF GrownCapacity, TypeOK
    <3>2. nNewCapacity' \in [Threads -> Nat]
      BY <2>4, <3>1 DEF TypeOK
    <3>3. \A u \in Threads : Extending(u) => nNewCapacity'[u] = nNewCapacity[u]
      BY <2>4 DEF TypeOK, Extending
    <3>4. pc' \in [Threads -> PCs]
      BY <2>4 DEF Goto, TypeOK, PCs
    <3>5. QED
      BY <1>7, <2>1, <2>4, <3>2, <3>3, <3>4 DEF Insert, TypeOK, tableVars, loopVars
  <2>5. QED
    BY <1>7, <2>2, <2>3, <2>4 DEF Insert
<1>8. ASSUME NEW t \in Threads, Remove(t)
      PROVE  TypeOK'
  <2>1. \A u \in Threads : Extending(u)' <=> Extending(u)
    BY <1>8 DEF Remove, Probing, NextTurn, Leave, TypeOK, Extending
  <2>2. m_vHashTable' \in [0 .. m_nCapacity' - 1 -> Cells]
    BY <1>8 DEF Remove, Emptied, TypeOK, Cells
  <2>3. /\ pc' \in [Threads -> PCs]
        /\ ret' \in [Threads -> Results \cup {NoRet}]
        /\ ik' \in [Threads -> Nat]
        /\ iHits' \in [Threads -> Nat]
        /\ lOut' \in [Threads -> Seq(Pairs)]
    <3>1. iHits[t] \in Nat /\ iHits[t] + 1 \in Nat /\ lOut[t] \in Seq(Pairs)
      BY DEF TypeOK
    <3>2. Probing(t) /\ Matches(t) => Append(lOut[t], Cell(t)) \in Seq(Pairs)
      BY <3>1, CellInTable
    <3>3. \/ \E r \in Results : Leave(t, r)
          \/ \E hits \in Nat, out \in Seq(Pairs) : NextTurn(t, hits, out)
      BY <1>8, <3>1, <3>2, ResultTypes DEF Remove
    <3>4. QED
      BY <3>3, LeaveTypes, NextTurnTypes
  <2>4. QED
    BY <1>8, <2>1, <2>2, <2>3 DEF Remove, TypeOK, extendVars
<1>9. ASSUME NEW t \in Threads, Clear(t)
      PROVE  TypeOK'
  <2>1. m_vHashTable' \in [0 .. m_nCapacity' - 1 -> Cells] /\ m_nCapacity' \in Nat \ {0}
    BY <1>9, InterfaceAssumption DEF Clear, NewTable, Cells
  <2>2. \A u \in Threads : Extending(u)' <=> Extending(u)
    BY <1>9 DEF Clear, Leave, TypeOK, Extending
  <2>3. QED
    BY <1>9, <2>1, <2>2, LeaveTypes, ResultTypes DEF Clear, TypeOK, extendVars
<1>10. ASSUME NEW t \in Threads, ExtendBegin(t)
       PROVE  TypeOK'
  <2>1. CASE /\ nNewCapacity[t] <= m_nCapacity /\ ExtendReturns(t) /\ ForgetExtend(t)
    BY <1>10, <2>1, ExtendReturnsTypes, ForgetExtendTypes
       DEF ExtendBegin, TypeOK, tableVars, Extending
  <2>2. CASE /\ vNewHashTable' = [vNewHashTable EXCEPT ![t] = NewTable(nNewCapacity[t])]
             /\ Goto(t, "rehash")
             /\ UNCHANGED <<ret, loopVars, nNewCapacity, tMoved>>
    <3>1. NewTable(nNewCapacity[t]) \in [0 .. nNewCapacity[t] - 1 -> Cells]
      BY DEF NewTable, Cells
    <3>2. /\ \A u \in Threads \ {t} : Extending(u)' <=> Extending(u)
          /\ Extending(t)'
          /\ pc' \in [Threads -> PCs]
      BY <2>2 DEF Goto, TypeOK, PCs, Extending
    <3>3. NewTables'
      BY <2>2, <3>1, <3>2 DEF TypeOK, NewTables
    <3>4. QED
      BY <1>10, <2>2, <3>2, <3>3 DEF ExtendBegin, TypeOK, NewTables, tableVars, loopVars
  <2>3. QED
    BY <1>10, <2>1, <2>2 DEF ExtendBegin
<1>11. ASSUME NEW t \in Threads, Rehash(t)
       PROVE  TypeOK'
  <2>1. ASSUME NEW i \in 0 .. m_nCapacity - 1, IsFirstBusy(i),
               tMoved' = [tMoved EXCEPT ![t] = m_vHashTable[i].key],
               ik' = [ik EXCEPT ![t] = 0],
               Goto(t, "move"),
               UNCHANGED <<tableVars, ret, iHits, lOut, nNewCapacity, vNewHashTable>>
        PROVE  TypeOK'
    <3>1. m_vHashTable[i] \in Pairs
      BY <2>1 DEF IsFirstBusy, TypeOK, Cells
    <3>2. tMoved' \in [Threads -> Keys \cup {nullptr}]
      BY <2>1, <3>1 DEF TypeOK, Pairs
    <3>3. \A u \in Threads : Extending(u)' <=> Extending(u)
      BY <1>11, <2>1 DEF Rehash, Goto, TypeOK, Extending
    <3>4. QED
      BY <1>11, <2>1, <3>2, <3>3 DEF Rehash, Goto, TypeOK, PCs, tableVars
  <2>2. CASE /\ m_vHashTable' = vNewHashTable[t] /\ m_nCapacity' = nNewCapacity[t]
             /\ ExtendReturns(t) /\ ForgetExtend(t) /\ UNCHANGED nPairs
    <3>1. m_nCapacity' \in Nat \ {0} /\ m_vHashTable' \in [0 .. m_nCapacity' - 1 -> Cells]
      BY <1>11, <2>2 DEF Rehash, TypeOK, PCInv, Extending
    <3>2. QED
      BY <1>11, <2>2, <3>1, ExtendReturnsTypes, ForgetExtendTypes DEF Rehash, TypeOK
  <2>3. QED
    BY <1>11, <2>1, <2>2 DEF Rehash
<1>12. ASSUME NEW t \in Threads, Move(t)
       PROVE  TypeOK'
  <2>1. \A u \in Threads : Extending(u)' <=> Extending(u)
    BY <1>12 DEF Move, Goto, TypeOK, Extending
  <2>2. m_vHashTable' \in [0 .. m_nCapacity - 1 -> Cells]
    BY <1>12 DEF Move, Emptied, TypeOK, Cells
  <2>3. NewTables'
    <3>1. CASE vNewHashTable' = vNewHashTable
      BY <1>12, <2>1, <3>1 DEF Move, TypeOK, NewTables
    <3>2. hashFunction(m_nCapacity, tMoved[t], ik[t]) \in 0 .. m_nCapacity - 1
      BY <1>12 DEF Move, PCInv, TypeOK, HashInRange
    <3>3. PICK p \in Cells :
             p = m_vHashTable[hashFunction(m_nCapacity, tMoved[t], ik[t])]
      BY <3>2 DEF TypeOK
    <3>4. CASE \E j : vNewHashTable' = [vNewHashTable EXCEPT ![t][NewCellNo(t, j)] = p]
      <4>1. PICK j : vNewHashTable' = [vNewHashTable EXCEPT ![t][NewCellNo(t, j)] = p]
        BY <3>4
      <4>2. QED
        BY <1>12, <2>1, <4>1 DEF Move, TypeOK, Extending, NewTables
    <3>5. \/ vNewHashTable' = vNewHashTable
          \/ \E j : vNewHashTable' = [vNewHashTable EXCEPT ![t][NewCellNo(t, j)] = p]
      BY <1>12, <3>3 DEF Move
    <3>6. QED
      BY <3>1, <3>4, <3>5
  <2>4. pc' \in [Threads -> PCs] /\ ik' \in [Threads -> Nat]
    <3>1. /\ pc' = pc \/ pc' = [pc EXCEPT ![t] = "rehash"]
          /\ ik' = ik \/ ik' = [ik EXCEPT ![t] = @ + 1]
      BY <1>12 DEF Move, Goto
    <3>2. pc' \in [Threads -> PCs]
      BY <3>1 DEF TypeOK, PCs
    <3>3. ik' \in [Threads -> Nat]
      <4>1. ik \in [Threads -> Nat]
        BY DEF TypeOK
      <4>2. QED
        BY <3>1, <4>1
    <3>4. QED
      BY <3>2, <3>3
  <2>5. QED
    BY <1>12, <2>1, <2>2, <2>3, <2>4 DEF Move, TypeOK, NewTables
<1>13. CASE UNCHANGED vars
  BY <1>13 DEF vars, tableVars, loopVars, extendVars, TypeOK, Extending
<1>14. QED
  BY <1>1, <1>2, <1>3, <1>4, <1>5, <1>6, <1>7, <1>8, <1>9, <1>10, <1>11, <1>12, <1>13
     DEF Next, Step, Reader

LEMMA ExtendReturnsPC ==
    ASSUME TypeOK, PCInv, NEW t \in Threads, pc[t] \in {"extend", "rehash"},
           ExtendReturns(t), ForgetExtend(t), UNCHANGED call
    PROVE  PCInv'
<1>1. \/ pc' = [pc EXCEPT ![t] = "probe"] /\ call[t].op \in ProbeOps
      \/ pc' = [pc EXCEPT ![t] = "unlock"]
  BY DEF ExtendReturns, Goto, Leave, ProbeOps
<1>2. QED
  BY <1>1 DEF TypeOK, PCInv, ForgetExtend, Extending

LEMMA PCInvStep ==
    ASSUME HashInRange, IInv, [Next]_vars
    PROVE  PCInv'
<1> USE DEF IInv
<1>1. ASSUME NEW t \in Threads, NEW c \in Calls, Invoke(t, c)
      PROVE  PCInv'
  BY <1>1, CallShapes DEF TypeOK, PCInv, Invoke, Goto, Extending, AllOps, extendVars
<1>2. ASSUME NEW t \in Threads, AcquireRead(t)
      PROVE  PCInv'
  <2>1. call[t].op \in ReadOps
    BY <1>2 DEF AcquireRead, PCInv
  <2>2. \/ Entry(call[t]) = "probe" /\ call[t].op \in ProbeOps
        \/ Entry(call[t]) \in {"scan", "read"}
    BY <2>1 DEF Entry, ReadOps, ProbeOps
  <2>3. QED
    BY <1>2, <2>1, <2>2 DEF TypeOK, PCInv, AcquireRead, Goto, Extending, extendVars
<1>3. ASSUME NEW t \in Threads, AcquireReadAgain(t)
      PROVE  PCInv'
  BY <1>3 DEF TypeOK, PCInv, AcquireReadAgain, Goto, Extending, ProbeOps, extendVars
<1>4. ASSUME NEW t \in Threads, AcquireWrite(t)
      PROVE  PCInv'
  <2>1. call[t].op \in WriteOps
    BY <1>4 DEF AcquireWrite, PCInv
  <2>2. \/ Entry(call[t]) = "probe" /\ call[t].op \in ProbeOps
        \/ Entry(call[t]) = "clear" /\ call[t].op = "clear"
        \/ Entry(call[t]) = "extend" /\ call[t].op = "extend"
    BY <2>1 DEF Entry, WriteOps, ProbeOps
  <2>3. QED
    BY <1>4, <2>1, <2>2 DEF TypeOK, PCInv, AcquireWrite, Goto, Extending
<1>5. ASSUME NEW t \in Threads, Release(t)
      PROVE  PCInv'
  BY <1>5 DEF TypeOK, PCInv, Release, Goto, Extending, extendVars
<1>6. ASSUME NEW t \in Threads, Reader(t)
      PROVE  PCInv'
  BY <1>6, ReaderFrame, ZenonT(30) DEF TypeOK, PCInv, Extending, extendVars
<1>7. ASSUME NEW t \in Threads, Insert(t)
      PROVE  PCInv'
  <2>1. /\ pc[t] = "probe" /\ call[t].op = "insert" /\ UNCHANGED <<call, tMoved>>
        /\ \/ pc' = pc
           \/ pc' = [pc EXCEPT ![t] = "unlock"]
           \/ pc' = [pc EXCEPT ![t] = "extend"]
        /\ nNewCapacity' = nNewCapacity
             \/ nNewCapacity' = [nNewCapacity EXCEPT ![t] = GrownCapacity]
    BY <1>7 DEF Insert, Probing, NextTurn, Leave, Goto, extendVars
  <2>2. QED
    BY <2>1 DEF TypeOK, PCInv, Extending
<1>8. ASSUME NEW t \in Threads, Remove(t)
      PROVE  PCInv'
  <2>1. /\ pc[t] = "probe" /\ UNCHANGED <<call, tMoved, nNewCapacity>>
        /\ pc' = pc \/ pc' = [pc EXCEPT ![t] = "unlock"]
    BY <1>8 DEF Remove, Probing, NextTurn, Leave, extendVars
  <2>2. QED
    BY <2>1 DEF TypeOK, PCInv, Extending
<1>9. ASSUME NEW t \in Threads, Clear(t)
      PROVE  PCInv'
  BY <1>9 DEF TypeOK, PCInv, Clear, Leave, Extending, extendVars
<1>10. ASSUME NEW t \in Threads, ExtendBegin(t)
       PROVE  PCInv'
  <2>1. nNewCapacity[t] > m_nCapacity => nNewCapacity[t] # 0
    BY DEF TypeOK
  <2>2. CASE ExtendReturns(t) /\ ForgetExtend(t)
    BY <1>10, <2>2, ExtendReturnsPC DEF ExtendBegin
  <2>3. CASE nNewCapacity[t] > m_nCapacity /\ Goto(t, "rehash")
               /\ UNCHANGED <<ret, loopVars, nNewCapacity, tMoved>>
    BY <1>10, <2>1, <2>3 DEF TypeOK, PCInv, ExtendBegin, Goto, Extending
  <2>4. QED
    BY <1>10, <2>2, <2>3 DEF ExtendBegin
<1>11. ASSUME NEW t \in Threads, Rehash(t)
       PROVE  PCInv'
  <2>1. ASSUME NEW i \in 0 .. m_nCapacity - 1, IsFirstBusy(i),
               tMoved' = [tMoved EXCEPT ![t] = m_vHashTable[i].key],
               Goto(t, "move"), UNCHANGED nNewCapacity
        PROVE  PCInv'
    <3>1. m_vHashTable[i].key \in Keys
      BY <2>1 DEF IsFirstBusy, TypeOK, Cells, Pairs
    <3>2. QED
      BY <1>11, <2>1, <3>1 DEF TypeOK, PCInv, Rehash, Goto, Extending
  <2>2. CASE ExtendReturns(t) /\ ForgetExtend(t)
    BY <1>11, <2>2, ExtendReturnsPC DEF Rehash
  <2>3. QED
    BY <1>11, <2>1, <2>2 DEF Rehash
<1>12. ASSUME NEW t \in Threads, Move(t)
       PROVE  PCInv'
  <2>1. /\ pc[t] = "move" /\ UNCHANGED <<call, tMoved, nNewCapacity>>
        /\ pc' = pc \/ pc' = [pc EXCEPT ![t] = "rehash"]
    BY <1>12 DEF Move, Goto
  <2>2. QED
    BY <2>1 DEF TypeOK, PCInv, Extending
<1>13. CASE UNCHANGED vars
  BY <1>13 DEF vars, PCInv, Extending, extendVars
<1>14. QED
  BY <1>1, <1>2, <1>3, <1>4, <1>5, <1>6, <1>7, <1>8, <1>9, <1>10, <1>11, <1>12, <1>13
     DEF Next, Step, Reader

Body(t) == \/ Reader(t) \/ Insert(t) \/ Remove(t) \/ Clear(t)
           \/ ExtendBegin(t) \/ Rehash(t) \/ Move(t)

InsidePCs == {"probe", "scan", "read", "clear", "extend", "rehash", "move", "unlock"}

\* The body of a call starts and ends with the lock held, and leaves it alone.
LEMMA BodyFrame ==
    ASSUME TypeOK, NEW t \in Threads, Body(t)
    PROVE  /\ InBody(t)
           /\ UNCHANGED <<call, m_mSharedMutex>>
           /\ \E l \in InsidePCs : pc' = [pc EXCEPT ![t] = l]
<1> USE DEF InBody, InsidePCs
<1>1. pc' = pc => pc' = [pc EXCEPT ![t] = pc[t]]
  BY DEF TypeOK
<1>2. CASE Reader(t)
  BY <1>1, <1>2, ReaderFrame
<1>3. CASE Insert(t)
  <2>1. \/ pc' = pc
        \/ pc' = [pc EXCEPT ![t] = "unlock"]
        \/ pc' = [pc EXCEPT ![t] = "extend"]
    BY <1>3 DEF Insert, NextTurn, Leave, Goto
  <2>2. QED
    BY <1>1, <1>3, <2>1 DEF Insert, Probing
<1>4. CASE Remove(t)
  <2>1. pc' = pc \/ pc' = [pc EXCEPT ![t] = "unlock"]
    BY <1>4 DEF Remove, NextTurn, Leave
  <2>2. QED
    BY <1>1, <1>4, <2>1 DEF Remove, Probing
<1>5. CASE Clear(t)
  BY <1>5 DEF Clear, Leave
<1>6. CASE ExtendBegin(t)
  <2>1. \/ pc' = [pc EXCEPT ![t] = "unlock"]
        \/ pc' = [pc EXCEPT ![t] = "probe"]
        \/ pc' = [pc EXCEPT ![t] = "rehash"]
    BY <1>6 DEF ExtendBegin, ExtendReturns, Leave, Goto
  <2>2. QED
    BY <1>6, <2>1 DEF ExtendBegin
<1>7. CASE Rehash(t)
  <2>1. \/ pc' = [pc EXCEPT ![t] = "unlock"]
        \/ pc' = [pc EXCEPT ![t] = "probe"]
        \/ pc' = [pc EXCEPT ![t] = "move"]
    BY <1>7 DEF Rehash, ExtendReturns, Leave, Goto
  <2>2. QED
    BY <1>7, <2>1 DEF Rehash
<1>8. CASE Move(t)
  <2>1. pc' = pc \/ pc' = [pc EXCEPT ![t] = "rehash"]
    BY <1>8 DEF Move, Goto
  <2>2. QED
    BY <1>1, <1>8, <2>1 DEF Move
<1>9. QED
  BY <1>2, <1>3, <1>4, <1>5, <1>6, <1>7, <1>8 DEF Body

\* Where a call goes once it has its lock.
LEMMA EntryInside ==
    ASSUME NEW c, c.op \in ReadOps \cup WriteOps
    PROVE  Entry(c) \in InsidePCs \ {"unlock"}
  BY DEF Entry, InsidePCs, ReadOps, WriteOps

LEMMA LockInvStep ==
    ASSUME IInv, [Next]_vars
    PROVE  LockInv'
<1> USE DEF IInv, Inside, InBody
<1>0. ReadOps \cap WriteOps = {} /\ "find" \in ReadOps
  BY DEF ReadOps, WriteOps
<1>1. ASSUME NEW t \in Threads, NEW c \in Calls, Invoke(t, c)
      PROVE  LockInv'
  BY <1>1 DEF TypeOK, LockInv, Invoke, Goto
<1>2. ASSUME NEW t \in Threads, AcquireRead(t)
      PROVE  LockInv'
  <2>1. /\ call[t].op \in ReadOps
        /\ Entry(call[t]) \in InsidePCs
        /\ m_mSharedMutex.writer = {}
    BY <1>2, EntryInside DEF AcquireRead, PCInv, CanLockShared
  <2>2. /\ m_mSharedMutex'.writer = {}
        /\ m_mSharedMutex'.readers =
              [m_mSharedMutex.readers EXCEPT ![t] = m_mSharedMutex.readers[t] + 1]
    BY <1>2, <2>1 DEF AcquireRead, LockShared, TypeOK
  <2>3. m_mSharedMutex.readers \in [Threads -> Nat]
    BY DEF TypeOK
  <2>4. /\ call' = call
        /\ pc'[t] \in InsidePCs \cup {"rdlock2"}
        /\ \A u \in Threads \ {t} : pc'[u] = pc[u]
        /\ pc[t] = "rdlock"
    BY <1>2, <2>1 DEF AcquireRead, Goto, TypeOK
  <2>5. /\ m_mSharedMutex'.readers[t] > 0
        /\ \A u \in Threads \ {t} :
              m_mSharedMutex'.readers[u] = m_mSharedMutex.readers[u]
    BY <2>2, <2>3
  <2>6. \A u \in Threads :
           u \in m_mSharedMutex'.writer <=> Inside(u)' /\ call'[u].op \in WriteOps
    BY <1>0, <2>1, <2>2, <2>4 DEF LockInv
  <2>7. \A u \in Threads :
           pc'[u] = "rdlock2" \/ (Inside(u)' /\ call'[u].op \in ReadOps)
             => m_mSharedMutex'.readers[u] > 0
    BY <2>4, <2>5 DEF LockInv
  <2>8. QED
    BY <2>2, <2>6, <2>7 DEF LockInv
<1>3. ASSUME NEW t \in Threads, AcquireReadAgain(t)
      PROVE  LockInv'
  <2>1. /\ call[t].op \in ReadOps
        /\ m_mSharedMutex.writer = {}
    BY <1>0, <1>3 DEF AcquireReadAgain, PCInv, CanLockShared
  <2>2. /\ m_mSharedMutex'.writer = {}
        /\ m_mSharedMutex'.readers =
              [m_mSharedMutex.readers EXCEPT ![t] = m_mSharedMutex.readers[t] + 1]
    BY <1>3, <2>1 DEF AcquireReadAgain, LockShared, TypeOK
  <2>3. m_mSharedMutex.readers \in [Threads -> Nat]
    BY DEF TypeOK
  <2>4. QED
    BY <1>0, <1>3, <2>1, <2>2, <2>3 DEF AcquireReadAgain, Goto, TypeOK, LockInv
<1>4. ASSUME NEW t \in Threads, AcquireWrite(t)
      PROVE  LockInv'
  <2>1. /\ call[t].op \in WriteOps
        /\ Entry(call[t]) \in InsidePCs
        /\ m_mSharedMutex.writer = {}
        /\ \A u \in Threads : m_mSharedMutex.readers[u] = 0
    BY <1>4, EntryInside DEF AcquireWrite, PCInv, CanLock, TypeOK
  <2>2. /\ m_mSharedMutex'.writer = {t}
        /\ m_mSharedMutex'.readers = m_mSharedMutex.readers
    BY <1>4, <2>1 DEF AcquireWrite, Lock, TypeOK
  <2>3. QED
    BY <1>0, <1>4, <2>1, <2>2 DEF AcquireWrite, Goto, TypeOK, LockInv, InsidePCs
<1>5. ASSUME NEW t \in Threads, Release(t)
      PROVE  LockInv'
  <2>1. pc[t] = "unlock" /\ call[t].op \in AllOps
    BY <1>5, CallShapes DEF Release, PCInv
  <2>2. CASE t \in m_mSharedMutex.writer
    <3>1. /\ m_mSharedMutex'.writer = {}
          /\ m_mSharedMutex'.readers = m_mSharedMutex.readers
          /\ pc' = [pc EXCEPT ![t] = "idle"]
          /\ call' = [call EXCEPT ![t] = NoCall]
      BY <1>5, <2>2 DEF Release, Unlock, TypeOK, LockInv, Goto
    <3>2. QED
      BY <2>1, <2>2, <3>1 DEF TypeOK, LockInv
  <2>3. CASE t \notin m_mSharedMutex.writer
    <3>1. call[t].op \in ReadOps /\ m_mSharedMutex.readers[t] > 0
      BY <2>1, <2>3 DEF LockInv, AllOps
    <3>2. /\ m_mSharedMutex'.writer = m_mSharedMutex.writer
          /\ m_mSharedMutex'.readers =
                [m_mSharedMutex.readers EXCEPT ![t] = m_mSharedMutex.readers[t] - 1]
      BY <1>5, <2>3 DEF Release, UnlockShared, TypeOK
    <3>3. m_mSharedMutex.writer = {}
      BY <3>1 DEF LockInv
    <3>4. m_mSharedMutex.readers \in [Threads -> Nat]
      BY DEF TypeOK
    <3>5. CASE m_mSharedMutex'.readers[t] = 0
      <4>1. pc' = [pc EXCEPT ![t] = "idle"] /\ call' = [call EXCEPT ![t] = NoCall]
        BY <1>5, <3>5 DEF Release, Goto
      <4>2. QED
        BY <1>0, <2>1, <3>1, <3>2, <3>3, <3>4, <4>1 DEF TypeOK, LockInv
    <3>6. CASE m_mSharedMutex'.readers[t] # 0
      <4>1. UNCHANGED <<pc, call>>
        BY <1>5, <3>6 DEF Release
      <4>2. QED
        BY <1>0, <2>1, <3>1, <3>2, <3>3, <3>4, <3>6, <4>1 DEF TypeOK, LockInv
    <3>7. QED
      BY <3>5, <3>6
  <2>4. QED
    BY <2>2, <2>3
<1>6. ASSUME NEW t \in Threads, Body(t)
      PROVE  LockInv'
  <2>1. PICK l \in InsidePCs : pc' = [pc EXCEPT ![t] = l]
    BY <1>6, BodyFrame
  <2>2. InBody(t) /\ UNCHANGED <<call, m_mSharedMutex>>
    BY <1>6, BodyFrame
  <2>3. QED
    BY <2>1, <2>2 DEF TypeOK, LockInv, InsidePCs
<1>7. CASE UNCHANGED vars
  BY <1>7 DEF vars, LockInv
<1>8. QED
  BY <1>1, <1>2, <1>3, <1>4, <1>5, <1>6, <1>7 DEF Next, Step, Body, Reader
-----------------------------------------------------------------------------
\* The inductive invariant holds.
THEOREM Invariant ==
    ASSUME HashInRange
    PROVE  Spec => []IInv
<1>1. Init => IInv
  BY Initially
<1>2. IInv /\ [Next]_vars => IInv'
  BY TypeOKStep, PCInvStep, LockInvStep DEF IInv
<1>3. QED
  BY <1>1, <1>2, PTL DEF Spec

\* Every variable keeps its type, whatever the threads do: in particular every
\* cell an operation writes is a cell of the table it writes to.
THEOREM TypeCorrect ==
    ASSUME HashInRange
    PROVE  Spec => []TypeOK
<1>1. IInv => TypeOK
  BY DEF IInv
<1>2. QED
  BY <1>1, Invariant, PTL

\* No two threads race on the table: the shared mutex is taken, in the right
\* mode and for long enough, by every operation.
THEOREM RaceFree ==
    ASSUME HashInRange
    PROVE  Spec => []NoDataRace
<1>1. IInv => NoDataRace
  <2> SUFFICES ASSUME IInv, NEW t \in Threads, NEW u \in Threads, t # u,
                      Writing(t), InBody(u)
               PROVE  FALSE
    BY DEF NoDataRace
  <2>1. t \in m_mSharedMutex.writer
    BY DEF IInv, LockInv, Writing, Inside
  <2>2. u \notin m_mSharedMutex.writer /\ ~(m_mSharedMutex.readers[u] > 0)
    BY <2>1 DEF IInv, LockInv, TypeOK
  <2>3. call[u].op \in AllOps
    BY CallShapes DEF IInv, PCInv, InBody
  <2>4. QED
    BY <2>2, <2>3 DEF IInv, LockInv, Inside, AllOps
<1>2. QED
  BY <1>1, Invariant, PTL
-----------------------------------------------------------------------------
(***************************************************************************)
(* The pairs HashMap keeps: no operation, and no interleaving of operations, *)
(* loses one, duplicates one, or puts one where its key is not looked for. *)
(* This holds for every hash function that stays inside the table, also for *)
(* one whose probes repeat or miss cells.                                  *)
(***************************************************************************)

(***************************************************************************)
(* One table.                                                              *)
(***************************************************************************)
LEMMA EmptyTable ==
    ASSUME NEW m \in Nat
    PROVE  PairsIn(NewTable(m)) = {} /\ OnceIn(NewTable(m))
  BY DEF PairsIn, OnceIn, NewTable

LEMMA PutPair ==
    ASSUME NEW m \in Nat, NEW tab \in [0 .. m - 1 -> Cells], NEW i \in 0 .. m - 1,
           NEW p \in Cells, p # nullptr, tab[i] = nullptr,
           OnceIn(tab), p \notin PairsIn(tab)
    PROVE  /\ PairsIn([tab EXCEPT ![i] = p]) = PairsIn(tab) \cup {p}
           /\ OnceIn([tab EXCEPT ![i] = p])
<1> DEFINE new == [tab EXCEPT ![i] = p]
<1>1. /\ new \in [0 .. m - 1 -> Cells] /\ new[i] = p
      /\ \A j \in 0 .. m - 1 : j # i => new[j] = tab[j]
  OBVIOUS
<1>2. PairsIn(new) = PairsIn(tab) \cup {p}
  BY <1>1 DEF PairsIn
<1>3. OnceIn(new)
  BY <1>1 DEF PairsIn, OnceIn
<1>4. QED
  BY <1>2, <1>3

LEMMA TakePair ==
    ASSUME NEW m \in Nat, NEW tab \in [0 .. m - 1 -> Cells], NEW i \in 0 .. m - 1,
           OnceIn(tab)
    PROVE  /\ PairsIn(Emptied(tab, i)) = PairsIn(tab) \ {tab[i]}
           /\ OnceIn(Emptied(tab, i))
<1> DEFINE new == Emptied(tab, i)
<1>1. /\ new \in [0 .. m - 1 -> Cells \cup {nullptr}] /\ new[i] = nullptr
      /\ \A j \in 0 .. m - 1 : j # i => new[j] = tab[j]
  BY DEF Emptied
<1>2. PairsIn(new) = PairsIn(tab) \ {tab[i]}
  BY <1>1 DEF PairsIn, OnceIn
<1>3. OnceIn(new)
  BY <1>1 DEF OnceIn
<1>4. QED
  BY <1>2, <1>3
-----------------------------------------------------------------------------
(***************************************************************************)
(* The lock at work.                                                       *)
(***************************************************************************)
\* A thread in the body of a writing operation owns the lock, and no other
\* thread is filling a table.
LEMMA WriterAlone ==
    ASSUME IInv, NEW t \in Threads, InBody(t), call[t].op \in WriteOps
    PROVE  /\ t \in m_mSharedMutex.writer
           /\ \A u \in Threads \ {t} : ~Extending(u) /\ vNewHashTable[u] = NoTable
<1>1. t \in m_mSharedMutex.writer
  BY DEF IInv, LockInv, Inside
<1>2. ASSUME NEW u \in Threads \ {t}, Extending(u)
      PROVE  FALSE
  <2>1. call[u].op \in WriteOps /\ Inside(u)
    BY <1>2 DEF IInv, PCInv, Extending, WriteOps, Inside, InBody
  <2>2. u \in m_mSharedMutex.writer
    BY <2>1 DEF IInv, LockInv
  <2>3. QED
    BY <1>1, <2>2 DEF IInv, LockInv
<1>3. QED
  BY <1>1, <1>2 DEF IInv, TypeOK

\* Only a thread that owns the lock exclusively changes the table.
LEMMA TableFrame ==
    ASSUME IInv, [Next]_vars
    PROVE  \/ UNCHANGED <<m_vHashTable, m_nCapacity>>
           \/ \E t \in Threads : t \in m_mSharedMutex.writer
<1> USE DEF tableVars
<1>1. ASSUME NEW t \in Threads,
             Insert(t) \/ Remove(t) \/ Clear(t) \/ Rehash(t) \/ Move(t)
      PROVE  \/ UNCHANGED <<m_vHashTable, m_nCapacity>>
             \/ t \in m_mSharedMutex.writer
  <2>1. CASE Insert(t) \/ Remove(t) \/ Clear(t)
    <3>1. call[t].op \in WriteOps
      BY <2>1 DEF Insert, Remove, Clear, WriteOps
    <3>2. InBody(t)
      BY <2>1, BodyFrame DEF Body, IInv
    <3>3. QED
      BY <3>1, <3>2, WriterAlone
  <2>2. CASE Rehash(t) \/ Move(t)
    <3>1. pc[t] \in {"rehash", "move"}
      BY <2>2 DEF Rehash, Move
    <3>2. InBody(t) /\ call[t].op \in WriteOps
      BY <3>1 DEF InBody, IInv, PCInv, WriteOps
    <3>3. QED
      BY <3>2, WriterAlone
  <2>3. QED
    BY <1>1, <2>1, <2>2
<1>2. ASSUME NEW t \in Threads, Reader(t)
      PROVE  UNCHANGED <<m_vHashTable, m_nCapacity>>
  BY <1>2, ReaderFrame
<1>3. QED
  BY <1>1, <1>2
     DEF Next, Step, Reader, Invoke, AcquireRead, AcquireReadAgain, AcquireWrite,
         Release, ExtendBegin, vars

\* A reader's loop runs over one table: nothing changes the cells or the
\* capacity between its lock_shared and its unlock_shared.
THEOREM ReadersUndisturbed ==
    ASSUME HashInRange
    PROVE  Spec => ReadersSeeOneTable
<1>1. ASSUME IInv, [Next]_vars
      PROVE  (\E t \in Threads : m_mSharedMutex.readers[t] > 0)
                => UNCHANGED <<m_vHashTable, m_nCapacity>>
  <2>1. ASSUME NEW t \in Threads, t \in m_mSharedMutex.writer
        PROVE  \A u \in Threads : m_mSharedMutex.readers[u] = 0
    BY <1>1, <2>1 DEF IInv, LockInv
  <2>2. QED
    BY <1>1, <2>1, TableFrame
<1>2. QED
  BY <1>1, Invariant, PTL DEF Spec, ReadersSeeOneTable
-----------------------------------------------------------------------------
(***************************************************************************)
(* The table and the one table a thread may be filling.                    *)
(***************************************************************************)
StoredIn(tab, news) == PairsIn(tab) \cup UNION {PairsIn(news[t]) : t \in Threads}

OnePlace(tab, news) ==
    /\ OnceIn(tab)
    /\ \A t \in Threads : OnceIn(news[t]) /\ PairsIn(tab) \cap PairsIn(news[t]) = {}

LEMMA OnlyTable ==
    ASSUME NEW tab, NEW news, \A u \in Threads : news[u] = NoTable
    PROVE  /\ StoredIn(tab, news) = PairsIn(tab)
           /\ OnePlace(tab, news) <=> OnceIn(tab)
<1>1. PairsIn(NoTable) = {} /\ OnceIn(NoTable)
  BY EmptyTable DEF NoTable
<1>2. QED
  BY <1>1 DEF StoredIn, OnePlace

LEMMA TwoTables ==
    ASSUME NEW tab, NEW news, NEW t \in Threads,
           \A u \in Threads \ {t} : news[u] = NoTable
    PROVE  /\ StoredIn(tab, news) = PairsIn(tab) \cup PairsIn(news[t])
           /\ OnePlace(tab, news) <=> /\ OnceIn(tab) /\ OnceIn(news[t])
                                     /\ PairsIn(tab) \cap PairsIn(news[t]) = {}
<1>1. PairsIn(NoTable) = {} /\ OnceIn(NoTable)
  BY EmptyTable DEF NoTable
<1>2. QED
  BY <1>1 DEF StoredIn, OnePlace

\* The numbers of the pairs are those given out so far, so a new pair is new.
PlaceInv == OnePlacePerPair /\ \A p \in Stored : p.val <= nPairs

\* What a step does to the pairs: see PairsLeaveByRemoveOrClear.
PairsStep ==
    /\ \A p \in Stored \ Stored' : \E t \in Threads :
          \/ call[t].op = "clear"
          \/ call[t].op = "remove" /\ lOut'[t] = Append(lOut[t], p)
    /\ \A p \in Stored' \ Stored : p.val > nPairs

LEMMA PairsKept ==
    ASSUME PlaceInv, OnePlacePerPair', Stored' = Stored, nPairs' = nPairs
    PROVE  PlaceInv' /\ PairsStep
  BY DEF PlaceInv, PairsStep

LEMMA InsertPairs ==
    ASSUME HashInRange, IInv, PlaceInv, NEW t \in Threads, Insert(t)
    PROVE  PlaceInv' /\ PairsStep
<1> DEFINE p == [key |-> call[t].tKey, val |-> nPairs + 1]
<1> HIDE DEF p
<1> USE DEF IInv
<1>1. CASE UNCHANGED <<m_vHashTable, vNewHashTable, nPairs>>
  <2>1. OnePlacePerPair' /\ Stored' = Stored
    BY <1>1 DEF PlaceInv, OnePlacePerPair, Stored
  <2>2. QED
    BY <1>1, <2>1, PairsKept
<1>2. CASE /\ Probing(t) /\ Cell(t) = nullptr
           /\ nPairs' = nPairs + 1 /\ UNCHANGED vNewHashTable
           /\ m_vHashTable' = [m_vHashTable EXCEPT ![CellNo(t)] = p]
  <2>1. \A u \in Threads : vNewHashTable[u] = NoTable
    <3>1. call[t].op \in WriteOps /\ InBody(t) /\ ~Extending(t)
      BY <1>2 DEF Insert, Probing, WriteOps, InBody, Extending
    <3>2. QED
      BY <3>1, WriterAlone DEF TypeOK
  <2>2. /\ p \in Cells /\ p # nullptr
        /\ CellNo(t) \in 0 .. m_nCapacity - 1
    <3>1. nPairs + 1 \in Nat /\ call[t].tKey \in Keys
      BY <1>2, CellInTable DEF TypeOK
    <3>2. p \in Pairs
      BY <3>1 DEF Pairs, p
    <3>3. QED
      BY <1>2, <3>2, CellInTable, HashMapAssumption DEF Cells
  <2>3. Stored = PairsIn(m_vHashTable) /\ OnceIn(m_vHashTable)
    BY <2>1, OnlyTable DEF PlaceInv, OnePlacePerPair, OnePlace, Stored, StoredIn
  <2>4. p \notin PairsIn(m_vHashTable)
    BY <2>3 DEF PlaceInv, TypeOK, p
  <2>5. /\ PairsIn(m_vHashTable') = PairsIn(m_vHashTable) \cup {p}
        /\ OnceIn(m_vHashTable')
    <3>1. m_vHashTable[CellNo(t)] = nullptr
      BY <1>2 DEF Cell
    <3>2. m_nCapacity \in Nat /\ m_vHashTable \in [0 .. m_nCapacity - 1 -> Cells]
      BY DEF TypeOK
    <3>3. OnceIn(m_vHashTable)
      BY <2>3
    <3>4. /\ PairsIn([m_vHashTable EXCEPT ![CellNo(t)] = p])
                = PairsIn(m_vHashTable) \cup {p}
          /\ OnceIn([m_vHashTable EXCEPT ![CellNo(t)] = p])
      BY <2>2, <2>4, <3>1, <3>2, <3>3, PutPair
    <3>5. QED
      BY <1>2, <3>4
  <2>6. Stored' = Stored \cup {p} /\ OnePlacePerPair'
    <3>1. \A u \in Threads : vNewHashTable'[u] = NoTable
      BY <1>2, <2>1
    <3>2. /\ StoredIn(m_vHashTable', vNewHashTable') = PairsIn(m_vHashTable')
          /\ OnePlace(m_vHashTable', vNewHashTable')
      BY <2>5, <3>1, OnlyTable
    <3>3. QED
      BY <2>3, <2>5, <3>2 DEF OnePlacePerPair, OnePlace, Stored, StoredIn
  <2>7. \A q \in Stored : q.val \in Nat
    BY <2>3 DEF TypeOK, PairsIn, Cells, Pairs
  <2>8. QED
    BY <1>2, <2>6, <2>7 DEF PlaceInv, PairsStep, TypeOK, p
<1>3. QED
  BY <1>1, <1>2 DEF Insert, tableVars, extendVars, p

LEMMA RemovePairs ==
    ASSUME HashInRange, IInv, PlaceInv, NEW t \in Threads, Remove(t)
    PROVE  PlaceInv' /\ PairsStep
<1> USE DEF IInv
<1>1. CASE UNCHANGED m_vHashTable
  <2>1. UNCHANGED <<vNewHashTable, nPairs>>
    BY DEF Remove, extendVars
  <2>2. OnePlacePerPair' /\ Stored' = Stored
    BY <1>1, <2>1 DEF PlaceInv, OnePlacePerPair, Stored
  <2>3. QED
    BY <2>1, <2>2, PairsKept
<1>2. CASE /\ Probing(t) /\ Matches(t)
           /\ lOut' = [lOut EXCEPT ![t] = Append(lOut[t], Cell(t))]
           /\ m_vHashTable' = Emptied(m_vHashTable, CellNo(t))
  <2>1. \A u \in Threads : vNewHashTable[u] = NoTable /\ vNewHashTable'[u] = NoTable
    <3>1. /\ call[t].op \in WriteOps /\ InBody(t) /\ ~Extending(t)
          /\ vNewHashTable' = vNewHashTable
      BY <1>2 DEF Remove, Probing, WriteOps, InBody, Extending, extendVars
    <3>2. QED
      BY <3>1, WriterAlone DEF TypeOK
  <2>2. Stored = PairsIn(m_vHashTable) /\ OnceIn(m_vHashTable)
    BY <2>1, OnlyTable DEF PlaceInv, OnePlacePerPair, OnePlace, Stored, StoredIn
  <2>3. CellNo(t) \in 0 .. m_nCapacity - 1
    BY <1>2, CellInTable
  <2>4. /\ PairsIn(m_vHashTable') = PairsIn(m_vHashTable) \ {Cell(t)}
        /\ OnceIn(m_vHashTable')
    <3>1. m_nCapacity \in Nat /\ m_vHashTable \in [0 .. m_nCapacity - 1 -> Cells]
      BY DEF TypeOK
    <3>2. QED
      BY <1>2, <2>2, <2>3, <3>1, TakePair DEF Cell
  <2>5. /\ StoredIn(m_vHashTable', vNewHashTable') = PairsIn(m_vHashTable')
        /\ OnePlace(m_vHashTable', vNewHashTable')
    BY <2>1, <2>4, OnlyTable
  <2>6. Stored' = Stored \ {Cell(t)} /\ OnePlacePerPair'
    BY <2>2, <2>4, <2>5 DEF OnePlacePerPair, OnePlace, Stored, StoredIn
  <2>7. call[t].op = "remove" /\ lOut'[t] = Append(lOut[t], Cell(t)) /\ nPairs' = nPairs
    BY <1>2 DEF Remove, TypeOK
  <2>8. QED
    BY <2>6, <2>7 DEF PlaceInv, PairsStep
<1>3. QED
  BY <1>1, <1>2 DEF Remove, NextTurn

LEMMA ClearPairs ==
    ASSUME IInv, PlaceInv, NEW t \in Threads, Clear(t)
    PROVE  PlaceInv' /\ PairsStep
<1> USE DEF IInv
<1>1. \A u \in Threads : vNewHashTable'[u] = NoTable
  <2>1. /\ call[t].op \in WriteOps /\ InBody(t) /\ ~Extending(t)
        /\ vNewHashTable' = vNewHashTable
    BY DEF Clear, WriteOps, InBody, Extending, extendVars
  <2>2. QED
    BY <2>1, WriterAlone DEF TypeOK
<1>2. PairsIn(m_vHashTable') = {} /\ OnceIn(m_vHashTable')
  BY EmptyTable, InterfaceAssumption DEF Clear
<1>3. Stored' = {} /\ OnePlacePerPair'
  BY <1>1, <1>2, OnlyTable DEF OnePlacePerPair, OnePlace, Stored, StoredIn
<1>4. call[t].op = "clear"
  BY DEF Clear
<1>5. QED
  BY <1>3, <1>4 DEF PlaceInv, PairsStep

LEMMA ExtendBeginPairs ==
    ASSUME IInv, PlaceInv, NEW t \in Threads, ExtendBegin(t)
    PROVE  PlaceInv' /\ PairsStep
<1> USE DEF IInv
<1>1. /\ pc[t] = "extend" /\ UNCHANGED <<m_vHashTable, nPairs>>
      /\ \/ vNewHashTable' = [vNewHashTable EXCEPT ![t] = NoTable]
         \/ vNewHashTable' = [vNewHashTable EXCEPT ![t] = NewTable(nNewCapacity[t])]
  BY DEF ExtendBegin, ForgetExtend, tableVars
<1>2. \A u \in Threads : vNewHashTable[u] = NoTable
  <2>1. call[t].op \in WriteOps /\ InBody(t) /\ ~Extending(t)
    BY <1>1 DEF PCInv, WriteOps, InBody, Extending
  <2>2. QED
    BY <2>1, WriterAlone DEF TypeOK
<1>3. PairsIn(vNewHashTable'[t]) = {} /\ OnceIn(vNewHashTable'[t])
  <2>1. nNewCapacity[t] \in Nat /\ vNewHashTable = [u \in Threads |-> vNewHashTable[u]]
    BY DEF TypeOK
  <2>2. vNewHashTable'[t] = NewTable(0) \/ vNewHashTable'[t] = NewTable(nNewCapacity[t])
    BY <1>1, <2>1 DEF NoTable
  <2>3. /\ PairsIn(NewTable(0)) = {} /\ OnceIn(NewTable(0))
        /\ PairsIn(NewTable(nNewCapacity[t])) = {} /\ OnceIn(NewTable(nNewCapacity[t]))
    BY <2>1, EmptyTable
  <2>4. QED
    BY <2>2, <2>3
<1>4. \A u \in Threads \ {t} : vNewHashTable'[u] = NoTable
  BY <1>1, <1>2 DEF TypeOK
<1>5. Stored = PairsIn(m_vHashTable) /\ OnceIn(m_vHashTable)
  BY <1>2, OnlyTable DEF PlaceInv, OnePlacePerPair, OnePlace, Stored, StoredIn
<1>6. /\ StoredIn(m_vHashTable', vNewHashTable') = PairsIn(m_vHashTable')
      /\ OnePlace(m_vHashTable', vNewHashTable')
  <2>1. /\ StoredIn(m_vHashTable', vNewHashTable')
              = PairsIn(m_vHashTable') \cup PairsIn(vNewHashTable'[t])
        /\ OnePlace(m_vHashTable', vNewHashTable')
              <=> /\ OnceIn(m_vHashTable') /\ OnceIn(vNewHashTable'[t])
                  /\ PairsIn(m_vHashTable') \cap PairsIn(vNewHashTable'[t]) = {}
    BY <1>4, TwoTables
  <2>2. OnceIn(m_vHashTable')
    BY <1>1, <1>5
  <2>3. QED
    BY <1>3, <2>1, <2>2
<1>7. Stored' = Stored /\ OnePlacePerPair'
  BY <1>1, <1>5, <1>6 DEF OnePlacePerPair, OnePlace, Stored, StoredIn
<1>8. QED
  BY <1>1, <1>7, PairsKept

LEMMA RehashPairs ==
    ASSUME IInv, PlaceInv, NEW t \in Threads, Rehash(t)
    PROVE  PlaceInv' /\ PairsStep
<1> USE DEF IInv
<1>1. CASE UNCHANGED <<m_vHashTable, vNewHashTable, nPairs>>
  <2>1. OnePlacePerPair' /\ Stored' = Stored
    BY <1>1 DEF PlaceInv, OnePlacePerPair, Stored
  <2>2. QED
    BY <1>1, <2>1, PairsKept
<1>2. CASE /\ NoneBusy
           /\ m_vHashTable' = vNewHashTable[t]
           /\ vNewHashTable' = [vNewHashTable EXCEPT ![t] = NoTable]
           /\ nPairs' = nPairs
  <2>1. \A u \in Threads \ {t} : vNewHashTable[u] = NoTable
    <3>1. call[t].op \in WriteOps /\ InBody(t)
      BY DEF Rehash, PCInv, WriteOps, InBody
    <3>2. QED
      BY <3>1, WriterAlone
  <2>2. PairsIn(m_vHashTable) = {}
    BY <1>2 DEF NoneBusy, PairsIn, TypeOK
  <2>3. Stored = PairsIn(vNewHashTable[t]) /\ OnceIn(vNewHashTable[t])
    <3>1. StoredIn(m_vHashTable, vNewHashTable)
            = PairsIn(m_vHashTable) \cup PairsIn(vNewHashTable[t])
      BY <2>1, TwoTables
    <3>2. Stored = StoredIn(m_vHashTable, vNewHashTable)
      BY DEF Stored, StoredIn
    <3>3. OnceIn(vNewHashTable[t])
      BY DEF PlaceInv, OnePlacePerPair
    <3>. QED
      BY <2>2, <3>1, <3>2, <3>3
  <2>4. \A u \in Threads : vNewHashTable'[u] = NoTable
    BY <1>2, <2>1 DEF TypeOK
  <2>5. /\ StoredIn(m_vHashTable', vNewHashTable') = PairsIn(m_vHashTable')
        /\ OnePlace(m_vHashTable', vNewHashTable')
    BY <1>2, <2>3, <2>4, OnlyTable
  <2>6. Stored' = Stored /\ OnePlacePerPair'
    BY <1>2, <2>3, <2>5 DEF OnePlacePerPair, OnePlace, Stored, StoredIn
  <2>7. QED
    BY <1>2, <2>6, PairsKept
<1>3. QED
  BY <1>1, <1>2 DEF Rehash, ForgetExtend, tableVars

LEMMA MovePairs ==
    ASSUME HashInRange, IInv, PlaceInv, NEW t \in Threads, Move(t)
    PROVE  PlaceInv' /\ PairsStep
<1> DEFINE from == hashFunction(m_nCapacity, tMoved[t], ik[t])
<1> HIDE DEF from
<1> USE DEF IInv
<1>1. CASE UNCHANGED <<m_vHashTable, vNewHashTable, nPairs>>
  <2>1. OnePlacePerPair' /\ Stored' = Stored
    BY <1>1 DEF PlaceInv, OnePlacePerPair, Stored
  <2>2. QED
    BY <1>1, <2>1, PairsKept
<1>2. ASSUME NEW j, IsFreeStep(t, j), m_vHashTable[from] # nullptr,
             vNewHashTable' =
                [vNewHashTable EXCEPT ![t][NewCellNo(t, j)] = m_vHashTable[from]],
             m_vHashTable' = Emptied(m_vHashTable, from),
             nPairs' = nPairs
      PROVE  PlaceInv' /\ PairsStep
  <2> DEFINE to == NewCellNo(t, j)
             p  == m_vHashTable[from]
  <2> HIDE DEF to, p
  <2>1. /\ pc[t] = "move" /\ tMoved[t] \in Keys /\ ik[t] \in Nat
        /\ m_nCapacity \in Nat \ {0} /\ nNewCapacity[t] \in Nat \ {0}
        /\ m_vHashTable \in [0 .. m_nCapacity - 1 -> Cells]
        /\ vNewHashTable[t] \in [0 .. nNewCapacity[t] - 1 -> Cells]
    BY DEF Move, PCInv, TypeOK, Extending
  <2>2. from \in 0 .. m_nCapacity - 1
    BY <2>1 DEF HashInRange, from
  <2>3. to \in 0 .. nNewCapacity[t] - 1 /\ vNewHashTable[t][to] = nullptr
    BY <1>2, <2>1 DEF HashInRange, IsFreeStep, NewCellNo, to
  <2>4. p \in Cells /\ p # nullptr /\ p \in PairsIn(m_vHashTable)
    BY <1>2, <2>1, <2>2 DEF p, PairsIn
  <2>5. \A u \in Threads \ {t} : vNewHashTable[u] = NoTable
    <3>1. call[t].op \in WriteOps /\ InBody(t)
      BY <2>1 DEF PCInv, WriteOps, InBody
    <3>2. QED
      BY <3>1, WriterAlone
  <2>6. /\ Stored = PairsIn(m_vHashTable) \cup PairsIn(vNewHashTable[t])
        /\ OnceIn(m_vHashTable) /\ OnceIn(vNewHashTable[t])
        /\ PairsIn(m_vHashTable) \cap PairsIn(vNewHashTable[t]) = {}
    BY <2>5, TwoTables DEF PlaceInv, OnePlacePerPair, OnePlace, Stored, StoredIn
  <2>7. /\ vNewHashTable'[t] = [vNewHashTable[t] EXCEPT ![to] = p]
        /\ \A u \in Threads \ {t} : vNewHashTable'[u] = NoTable
    BY <1>2, <2>5 DEF TypeOK, to, p
  <2>8. /\ PairsIn(m_vHashTable') = PairsIn(m_vHashTable) \ {p}
        /\ OnceIn(m_vHashTable')
    <3>1. /\ PairsIn(Emptied(m_vHashTable, from))
                = PairsIn(m_vHashTable) \ {m_vHashTable[from]}
          /\ OnceIn(Emptied(m_vHashTable, from))
      BY <2>1, <2>2, <2>6, TakePair
    <3>2. QED
      BY <1>2, <3>1 DEF p
  <2>9. /\ PairsIn(vNewHashTable'[t]) = PairsIn(vNewHashTable[t]) \cup {p}
        /\ OnceIn(vNewHashTable'[t])
    <3>1. p \notin PairsIn(vNewHashTable[t])
      BY <2>4, <2>6
    <3>2. /\ PairsIn([vNewHashTable[t] EXCEPT ![to] = p])
                = PairsIn(vNewHashTable[t]) \cup {p}
          /\ OnceIn([vNewHashTable[t] EXCEPT ![to] = p])
      BY <2>1, <2>3, <2>4, <2>6, <3>1, PutPair
    <3>3. QED
      BY <2>7, <3>2
  <2>10. /\ StoredIn(m_vHashTable', vNewHashTable') = Stored
         /\ OnePlace(m_vHashTable', vNewHashTable')
    <3>1. /\ StoredIn(m_vHashTable', vNewHashTable')
                = PairsIn(m_vHashTable') \cup PairsIn(vNewHashTable'[t])
          /\ OnePlace(m_vHashTable', vNewHashTable')
                <=> /\ OnceIn(m_vHashTable') /\ OnceIn(vNewHashTable'[t])
                    /\ PairsIn(m_vHashTable') \cap PairsIn(vNewHashTable'[t]) = {}
      BY <2>7, TwoTables
    <3>2. QED
      BY <2>4, <2>6, <2>8, <2>9, <3>1
  <2>11. Stored' = Stored /\ OnePlacePerPair'
    BY <2>10 DEF OnePlacePerPair, OnePlace, Stored, StoredIn
  <2>12. QED
    BY <1>2, <2>11, PairsKept
<1>3. QED
  <2>1. \/ UNCHANGED <<m_vHashTable, vNewHashTable>>
        \/ \E j : /\ IsFreeStep(t, j) /\ m_vHashTable[from] # nullptr
                  /\ vNewHashTable' =
                       [vNewHashTable EXCEPT ![t][NewCellNo(t, j)] = m_vHashTable[from]]
                  /\ m_vHashTable' = Emptied(m_vHashTable, from)
    BY DEF Move, IsFirstFreeStep, from
  <2>2. nPairs' = nPairs
    BY DEF Move
  <2>3. QED
    BY <1>1, <1>2, <2>1, <2>2

LEMMA PlaceStep ==
    ASSUME HashInRange, IInv, PlaceInv, [Next]_vars
    PROVE  PlaceInv' /\ PairsStep
<1>1. CASE UNCHANGED <<m_vHashTable, vNewHashTable, nPairs>>
  <2>1. OnePlacePerPair' /\ Stored' = Stored
    BY <1>1 DEF PlaceInv, OnePlacePerPair, Stored
  <2>2. QED
    BY <1>1, <2>1, PairsKept
<1>2. ASSUME NEW t \in Threads, Reader(t)
      PROVE  UNCHANGED <<m_vHashTable, vNewHashTable, nPairs>>
  BY <1>2, ReaderFrame DEF tableVars, extendVars
<1>3. QED
  BY <1>1, <1>2, InsertPairs, RemovePairs, ClearPairs, ExtendBeginPairs, RehashPairs,
     MovePairs
     DEF Next, Step, Reader, Invoke, AcquireRead, AcquireReadAgain, AcquireWrite,
         Release, vars, tableVars, extendVars

LEMMA PlaceInitially == Init => PlaceInv
<1> SUFFICES ASSUME Init PROVE PlaceInv
  OBVIOUS
<1>1. PairsIn(m_vHashTable) = {} /\ OnceIn(m_vHashTable)
  BY EmptyTable, InterfaceAssumption DEF Init
<1>2. \A u \in Threads : vNewHashTable[u] = NoTable
  BY DEF Init
<1>3. Stored = {} /\ OnePlacePerPair
  BY <1>1, <1>2, OnlyTable DEF OnePlacePerPair, OnePlace, Stored, StoredIn
<1>4. QED
  BY <1>3 DEF PlaceInv

\* No pair is ever in two cells, in the table or in the one extendImpl fills.
THEOREM PairsInOnePlace ==
    ASSUME HashInRange
    PROVE  Spec => []OnePlacePerPair
<1>1. Init => IInv /\ PlaceInv
  BY Initially, PlaceInitially
<1>2. (IInv /\ PlaceInv) /\ [Next]_vars => (IInv /\ PlaceInv)'
  BY TypeOKStep, PCInvStep, LockInvStep, PlaceStep DEF IInv
<1>3. PlaceInv => OnePlacePerPair
  BY DEF PlaceInv
<1>4. QED
  BY <1>1, <1>2, <1>3, PTL DEF Spec

\* A pair leaves the map only in the list remove returns, or by clear: neither
\* extend nor an insertion that grows the table loses or doubles one.
THEOREM PairsSurvive ==
    ASSUME HashInRange
    PROVE  Spec => PairsLeaveByRemoveOrClear
<1>1. Init => IInv /\ PlaceInv
  BY Initially, PlaceInitially
<1>2. (IInv /\ PlaceInv) /\ [Next]_vars => (IInv /\ PlaceInv)'
  BY TypeOKStep, PCInvStep, LockInvStep, PlaceStep DEF IInv
<1>3. (IInv /\ PlaceInv) /\ [Next]_vars => PairsStep
  BY PlaceStep
<1>4. PairsStep => /\ \A p \in Stored \ Stored' : \E t \in Threads :
                          \/ call[t].op = "clear"
                          \/ call[t].op = "remove" /\ lOut'[t] = Append(lOut[t], p)
                   /\ \A p \in Stored' \ Stored : p.val > nPairs
  BY DEF PairsStep
<1>5. QED
  BY <1>1, <1>2, <1>3, <1>4, PTL DEF Spec, PairsLeaveByRemoveOrClear
-----------------------------------------------------------------------------
(***************************************************************************)
(* Every pair sits where a probe of its key comes by.                      *)
(***************************************************************************)

\* PairsAreReachable for one table of m cells.
Reachable(tab, m) ==
    \A i \in DOMAIN tab : tab[i] # nullptr =>
        \E j \in 0 .. m - 1 : hashFunction(m, tab[i].key, j) = i

LEMMA EmptyReachable ==
    ASSUME NEW m \in Nat, NEW n
    PROVE  Reachable(NewTable(m), n)
  BY DEF Reachable, NewTable

\* A pair put where its key's probe comes by.
LEMMA PutReachable ==
    ASSUME NEW m \in Nat, NEW tab \in [0 .. m - 1 -> Cells], Reachable(tab, m),
           NEW i, NEW p, NEW j \in 0 .. m - 1, hashFunction(m, p.key, j) = i
    PROVE  Reachable([tab EXCEPT ![i] = p], m)
<1> DEFINE new == [tab EXCEPT ![i] = p]
<1>1. /\ DOMAIN new = DOMAIN tab
      /\ \A n \in DOMAIN tab : new[n] = IF n = i THEN p ELSE tab[n]
  OBVIOUS
<1> HIDE DEF new
<1>2. Reachable(new, m)
  BY <1>1 DEF Reachable
<1>3. QED
  BY <1>2 DEF new

LEMMA TakeReachable ==
    ASSUME NEW m \in Nat, NEW tab \in [0 .. m - 1 -> Cells], Reachable(tab, m), NEW i
    PROVE  Reachable(Emptied(tab, i), m)
<1> DEFINE new == Emptied(tab, i)
<1>1. /\ DOMAIN new = DOMAIN tab
      /\ \A n \in DOMAIN tab : new[n] = IF n = i THEN nullptr ELSE tab[n]
  BY DEF Emptied
<1> HIDE DEF new
<1>2. Reachable(new, m)
  BY <1>1 DEF Reachable
<1>3. QED
  BY <1>2 DEF new
-----------------------------------------------------------------------------
TableReachable == Reachable(m_vHashTable, m_nCapacity)

NewTablesReachable ==
    \A t \in Threads : Reachable(vNewHashTable[t], nNewCapacity[t])

LEMMA BothReachable ==
    PairsAreReachable <=> TableReachable /\ NewTablesReachable
  BY DEF PairsAreReachable, TableReachable, NewTablesReachable, Reachable

\* Steps that keep the new tables and may change what nNewCapacity[t] holds
\* while thread t has no new table.
LEMMA NewTablesKept ==
    ASSUME IInv, NewTablesReachable, NEW t \in Threads, ~Extending(t), NEW n,
           vNewHashTable' = vNewHashTable \/ vNewHashTable' = [vNewHashTable EXCEPT ![t] = NoTable],
           nNewCapacity' = nNewCapacity \/ nNewCapacity' = [nNewCapacity EXCEPT ![t] = n]
    PROVE  NewTablesReachable'
<1>1. vNewHashTable'[t] = NoTable
  BY DEF IInv, TypeOK
<1>2. Reachable(NoTable, nNewCapacity'[t])
  BY EmptyReachable DEF NoTable
<1>3. \A u \in Threads \ {t} : /\ vNewHashTable'[u] = vNewHashTable[u]
                               /\ nNewCapacity'[u] = nNewCapacity[u]
  BY DEF IInv, TypeOK
<1>4. QED
  BY <1>1, <1>2, <1>3 DEF NewTablesReachable

LEMMA InsertReachable ==
    ASSUME HashInRange, IInv, PairsAreReachable, NEW t \in Threads, Insert(t)
    PROVE  PairsAreReachable'
<1>1. TableReachable /\ NewTablesReachable
  BY BothReachable
<1>2. NewTablesReachable'
  <2>1. ~Extending(t)
    BY DEF Insert, Probing, Extending
  <2>2. /\ vNewHashTable' = vNewHashTable
        /\ \/ nNewCapacity' = nNewCapacity
           \/ nNewCapacity' = [nNewCapacity EXCEPT ![t] = GrownCapacity]
    BY DEF Insert, extendVars
  <2>3. QED
    BY <1>1, <2>1, <2>2, NewTablesKept
<1>3. TableReachable'
  <2>1. CASE UNCHANGED <<m_vHashTable, m_nCapacity>>
    BY <1>1, <2>1 DEF TableReachable, Reachable
  <2>2. CASE /\ Probing(t) /\ m_nCapacity' = m_nCapacity
             /\ m_vHashTable' = [m_vHashTable EXCEPT ![CellNo(t)] =
                                   [key |-> call[t].tKey, val |-> nPairs + 1]]
    <3> DEFINE p == [key |-> call[t].tKey, val |-> nPairs + 1]
    <3>1. p.key = call[t].tKey
      OBVIOUS
    <3> HIDE DEF p
    <3>2. /\ m_nCapacity \in Nat /\ m_vHashTable \in [0 .. m_nCapacity - 1 -> Cells]
          /\ ik[t] \in 0 .. m_nCapacity - 1
      BY <2>2 DEF IInv, TypeOK, Probing
    <3>3. hashFunction(m_nCapacity, p.key, ik[t]) = CellNo(t)
      BY <3>1 DEF CellNo
    <3>4. Reachable(m_vHashTable, m_nCapacity)
      BY <1>1 DEF TableReachable
    <3>5. Reachable([m_vHashTable EXCEPT ![CellNo(t)] = p], m_nCapacity)
      BY <3>2, <3>3, <3>4, PutReachable
    <3>6. m_vHashTable' = [m_vHashTable EXCEPT ![CellNo(t)] = p]
      BY <2>2 DEF p
    <3>7. QED
      BY <2>2, <3>5, <3>6 DEF TableReachable
  <2>3. QED
    BY <2>1, <2>2 DEF Insert, tableVars
<1>4. QED
  BY <1>2, <1>3, BothReachable DEF PairsAreReachable, TableReachable,
     NewTablesReachable, Reachable

LEMMA RemoveReachable ==
    ASSUME IInv, PairsAreReachable, NEW t \in Threads, Remove(t)
    PROVE  PairsAreReachable'
<1>1. TableReachable /\ NewTablesReachable
  BY BothReachable
<1>2. /\ m_nCapacity' = m_nCapacity /\ UNCHANGED <<vNewHashTable, nNewCapacity>>
      /\ \/ m_vHashTable' = m_vHashTable
         \/ m_vHashTable' = Emptied(m_vHashTable, CellNo(t))
  BY DEF Remove, extendVars
<1>3. m_nCapacity \in Nat /\ m_vHashTable \in [0 .. m_nCapacity - 1 -> Cells]
  BY DEF IInv, TypeOK
<1>4. Reachable(Emptied(m_vHashTable, CellNo(t)), m_nCapacity)
  BY <1>1, <1>3, TakeReachable DEF TableReachable
<1>5. Reachable(m_vHashTable', m_nCapacity')
  BY <1>1, <1>2, <1>4 DEF TableReachable
<1>6. QED
  BY <1>1, <1>2, <1>5 DEF PairsAreReachable, NewTablesReachable, Reachable

LEMMA ClearReachable ==
    ASSUME PairsAreReachable, NEW t \in Threads, Clear(t)
    PROVE  PairsAreReachable'
<1>1. Reachable(m_vHashTable', m_nCapacity')
  BY EmptyReachable, InterfaceAssumption DEF Clear
<1>2. UNCHANGED <<vNewHashTable, nNewCapacity>>
  BY DEF Clear, extendVars
<1>3. QED
  BY <1>1, <1>2 DEF PairsAreReachable, Reachable

LEMMA ExtendBeginReachable ==
    ASSUME IInv, PairsAreReachable, NEW t \in Threads, ExtendBegin(t)
    PROVE  PairsAreReachable'
<1>1. TableReachable /\ NewTablesReachable
  BY BothReachable
<1>2. UNCHANGED <<m_vHashTable, m_nCapacity>>
  BY DEF ExtendBegin, tableVars
<1>3. NewTablesReachable'
  <2>1. CASE ForgetExtend(t)
    BY <1>1, <2>1, NewTablesKept DEF ExtendBegin, ForgetExtend, Extending
  <2>2. CASE /\ vNewHashTable' = [vNewHashTable EXCEPT ![t] = NewTable(nNewCapacity[t])]
             /\ UNCHANGED nNewCapacity
    <3>1. nNewCapacity[t] \in Nat /\ vNewHashTable = [u \in Threads |-> vNewHashTable[u]]
      BY DEF IInv, TypeOK
    <3>2. Reachable(NewTable(nNewCapacity[t]), nNewCapacity[t])
      BY <3>1, EmptyReachable
    <3>3. /\ vNewHashTable'[t] = NewTable(nNewCapacity[t])
          /\ \A u \in Threads \ {t} : vNewHashTable'[u] = vNewHashTable[u]
      BY <2>2, <3>1
    <3>4. QED
      BY <1>1, <2>2, <3>2, <3>3 DEF NewTablesReachable
  <2>3. QED
    BY <2>1, <2>2 DEF ExtendBegin
<1>4. QED
  BY <1>1, <1>2, <1>3 DEF PairsAreReachable, TableReachable, NewTablesReachable, Reachable

LEMMA RehashReachable ==
    ASSUME IInv, PairsAreReachable, NEW t \in Threads, Rehash(t)
    PROVE  PairsAreReachable'
<1>1. TableReachable /\ NewTablesReachable
  BY BothReachable
<1>2. CASE UNCHANGED <<m_vHashTable, m_nCapacity, vNewHashTable, nNewCapacity>>
  BY <1>1, <1>2 DEF PairsAreReachable, TableReachable, NewTablesReachable, Reachable
<1>3. CASE /\ m_vHashTable' = vNewHashTable[t] /\ m_nCapacity' = nNewCapacity[t]
           /\ ForgetExtend(t)
  <2>1. Reachable(m_vHashTable', m_nCapacity')
    BY <1>1, <1>3 DEF NewTablesReachable
  <2>2. Reachable(NoTable, nNewCapacity'[t])
    BY EmptyReachable DEF NoTable
  <2>3. /\ vNewHashTable'[t] = NoTable
        /\ \A u \in Threads \ {t} : /\ vNewHashTable'[u] = vNewHashTable[u]
                                    /\ nNewCapacity'[u] = nNewCapacity[u]
    BY <1>3 DEF ForgetExtend, IInv, TypeOK
  <2>4. \A u \in Threads : Reachable(vNewHashTable'[u], nNewCapacity'[u])
    BY <1>1, <2>2, <2>3 DEF NewTablesReachable
  <2>5. QED
    BY <2>1, <2>4 DEF PairsAreReachable, Reachable
<1>4. QED
  BY <1>2, <1>3 DEF Rehash, tableVars

LEMMA MoveReachable ==
    ASSUME HashInRange, IInv, PairsAreReachable, NEW t \in Threads, Move(t)
    PROVE  PairsAreReachable'
<1> DEFINE from == hashFunction(m_nCapacity, tMoved[t], ik[t])
<1> HIDE DEF from
<1>1. TableReachable /\ NewTablesReachable
  BY BothReachable
<1>2. UNCHANGED <<m_nCapacity, nNewCapacity>>
  BY DEF Move
<1>3. CASE UNCHANGED <<m_vHashTable, vNewHashTable>>
  BY <1>1, <1>2, <1>3 DEF PairsAreReachable, TableReachable, NewTablesReachable, Reachable
<1>4. ASSUME NEW j, IsFreeStep(t, j), m_vHashTable[from].key = tMoved[t],
             vNewHashTable' =
                [vNewHashTable EXCEPT ![t][NewCellNo(t, j)] = m_vHashTable[from]],
             m_vHashTable' = Emptied(m_vHashTable, from)
      PROVE  PairsAreReachable'
  <2> DEFINE to == NewCellNo(t, j)
             p  == m_vHashTable[from]
  <2> HIDE DEF to, p
  <2>1. /\ m_nCapacity \in Nat /\ nNewCapacity[t] \in Nat
        /\ m_vHashTable \in [0 .. m_nCapacity - 1 -> Cells]
        /\ vNewHashTable[t] \in [0 .. nNewCapacity[t] - 1 -> Cells]
    BY DEF Move, IInv, TypeOK, Extending
  <2>2. Reachable(m_vHashTable', m_nCapacity')
    BY <1>1, <1>2, <1>4, <2>1, TakeReachable DEF TableReachable
  <2>3. j \in 0 .. nNewCapacity[t] - 1 /\ hashFunction(nNewCapacity[t], p.key, j) = to
    BY <1>4 DEF IsFreeStep, NewCellNo, p, to
  <2>4. Reachable([vNewHashTable[t] EXCEPT ![to] = p], nNewCapacity[t])
    <3>1. Reachable(vNewHashTable[t], nNewCapacity[t])
      BY <1>1 DEF NewTablesReachable
    <3>2. QED
      BY <2>1, <2>3, <3>1, PutReachable
  <2>5. /\ vNewHashTable'[t] = [vNewHashTable[t] EXCEPT ![to] = p]
        /\ \A u \in Threads \ {t} : vNewHashTable'[u] = vNewHashTable[u]
    BY <1>4 DEF IInv, TypeOK, to, p
  <2>6. \A u \in Threads : Reachable(vNewHashTable'[u], nNewCapacity'[u])
    BY <1>1, <1>2, <2>4, <2>5 DEF NewTablesReachable
  <2>7. QED
    BY <2>2, <2>6 DEF PairsAreReachable, Reachable
<1>5. QED
  <2>1. \/ UNCHANGED <<m_vHashTable, vNewHashTable>>
        \/ \E j : /\ IsFreeStep(t, j) /\ m_vHashTable[from].key = tMoved[t]
                  /\ vNewHashTable' =
                       [vNewHashTable EXCEPT ![t][NewCellNo(t, j)] = m_vHashTable[from]]
                  /\ m_vHashTable' = Emptied(m_vHashTable, from)
    BY DEF Move, IsFirstFreeStep, from
  <2>2. QED
    BY <1>3, <1>4, <2>1
-----------------------------------------------------------------------------
LEMMA ReachableStep ==
    ASSUME HashInRange, IInv, PairsAreReachable, [Next]_vars
    PROVE  PairsAreReachable'
<1>1. CASE UNCHANGED <<m_vHashTable, m_nCapacity, vNewHashTable, nNewCapacity>>
  BY <1>1 DEF PairsAreReachable
<1>2. ASSUME NEW t \in Threads, Reader(t)
      PROVE  UNCHANGED <<m_vHashTable, m_nCapacity, vNewHashTable, nNewCapacity>>
  BY <1>2, ReaderFrame DEF tableVars, extendVars
<1>3. ASSUME NEW t \in Threads, AcquireWrite(t)
      PROVE  PairsAreReachable'
  <2>1. /\ ~Extending(t) /\ UNCHANGED <<m_vHashTable, m_nCapacity, vNewHashTable>>
        /\ nNewCapacity' = [nNewCapacity EXCEPT ![t] =
                              IF call[t].op = "extend" THEN call[t].nNewCapacity ELSE 0]
    BY <1>3 DEF AcquireWrite, Extending, tableVars
  <2>2. TableReachable /\ NewTablesReachable
    BY BothReachable
  <2>3. NewTablesReachable'
    BY <2>1, <2>2, NewTablesKept
  <2>4. QED
    BY <2>1, <2>2, <2>3 DEF PairsAreReachable, TableReachable, NewTablesReachable, Reachable
<1>4. QED
  BY <1>1, <1>2, <1>3, InsertReachable, RemoveReachable, ClearReachable,
     ExtendBeginReachable, RehashReachable, MoveReachable
     DEF Next, Step, Reader, Invoke, AcquireRead, AcquireReadAgain, Release, vars,
         tableVars, extendVars

\* Every pair is on the probe of its key, in the table it is in: insert and
\* extendImpl put none where find, remove and the next extension would miss it.
THEOREM PairsStayReachable ==
    ASSUME HashInRange
    PROVE  Spec => []PairsAreReachable
<1>1. Init => PairsAreReachable
  BY InterfaceAssumption DEF Init, PairsAreReachable, NewTable, NoTable
<1>2. Init => IInv
  BY Initially
<1>3. (IInv /\ PairsAreReachable) /\ [Next]_vars => (IInv /\ PairsAreReachable)'
  BY TypeOKStep, PCInvStep, LockInvStep, ReachableStep DEF IInv
<1>4. QED
  BY <1>1, <1>2, <1>3, PTL DEF Spec
=============================================================================
