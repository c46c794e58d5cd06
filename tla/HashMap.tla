------------------------------- MODULE HashMap -------------------------------
(***************************************************************************)
(* The class HashMap of src/src/hashmap.h, used by several threads at      *)
(* once: an open-addressing table of shared pointers to pairs, probed with *)
(* hashFunction(capacity, key, ik) for ik = 0, 1, ..., guarded by one      *)
(* std::shared_mutex.                                                      *)
(*                                                                         *)
(* A step of a thread is one turn of one of the loops of the code, or one  *)
(* acquisition or release of the lock, so that the steps of the threads    *)
(* interleave wherever the lock lets them.  The locals of the running call *)
(* are the variables ik, iHits, lOut (every operation) and nNewCapacity,   *)
(* vNewHashTable, tMoved (extendImpl), one per thread.                     *)
(***************************************************************************)
EXTENDS HashMapInterface, SharedMutex, FiniteSets

CONSTANTS
    nullptr,              \* a free cell
    hashFunction(_, _, _),\* the template parameter: (divider, key, step) -> cell
    WriterPriority,       \* does lock_shared wait behind a blocked lock()?
    MaxPairs              \* bound: pairs ever inserted

ASSUME HashMapAssumption ==
    /\ WriterPriority \in BOOLEAN
    /\ MaxPairs \in Nat
    /\ nullptr \notin Pairs
    /\ nullptr \notin Keys

(***************************************************************************)
(* What the code needs of a hash function to stay inside the table.  It    *)
(* ranges over all capacities, so it is a hypothesis of the theorems and   *)
(* not an ASSUME; HashFunctionsProofs proves it of the functions of        *)
(* src/src/hash_functions.cpp.                                             *)
(***************************************************************************)
HashInRange ==
    \A m \in Nat \ {0}, k \in Keys, i \in Nat : hashFunction(m, k, i) \in 0 .. m - 1

VARIABLES
    m_vHashTable,    \* cell -> pair or nullptr
    m_nCapacity,
    m_mSharedMutex,
    nPairs,          \* pairs constructed so far
    pc,              \* where each thread is
    call,            \* the call each thread is in
    ret,             \* its result, once the call has one
    ik, iHits, lOut,
    nNewCapacity, vNewHashTable, tMoved

tableVars  == <<m_vHashTable, m_nCapacity, nPairs>>
loopVars   == <<ik, iHits, lOut>>
extendVars == <<nNewCapacity, vNewHashTable, tMoved>>
vars == <<tableVars, m_mSharedMutex, pc, call, ret, loopVars, extendVars>>

Cells == Pairs \cup {nullptr}

NewTable(m) == [i \in 0 .. m - 1 |-> nullptr]

\* tab with m_vHashTable[i] = nullptr.  Mutant: the cell keeps its pointer.
Emptied_Not(tab, i) == tab

Emptied(tab, i) == [tab EXCEPT ![i] = nullptr]

NoTable == NewTable(0)

PCs == {"idle", "rdlock", "rdlock2", "wrlock", "probe", "scan", "read",
        "clear", "extend", "rehash", "move", "unlock"}
-----------------------------------------------------------------------------
(***************************************************************************)
(* size_t arithmetic, and the parts the loops share.                       *)
(***************************************************************************)
\* ++iPos, in size_t.  Mutant: it is incremented twice.
First_IncrementedTwice(t) == (call[t].iPos + 2) % SizeMod

First(t) == (call[t].iPos + 1) % SizeMod

CellNo(t) == hashFunction(m_nCapacity, call[t].tKey, ik[t])
Cell(t)   == m_vHashTable[CellNo(t)]

Probing(t) == pc[t] = "probe" /\ ik[t] < m_nCapacity
Matches(t) == Cell(t) # nullptr /\ Cell(t).key = call[t].tKey

\* The next turn of the loop, with one more hit and one more pair or not.
NextTurn(t, hits, out) ==
    /\ ik' = [ik EXCEPT ![t] = @ + 1]
    /\ iHits' = [iHits EXCEPT ![t] = hits]
    /\ lOut' = [lOut EXCEPT ![t] = out]
    /\ UNCHANGED <<pc, ret>>

\* The body of the call is over: its locals die, the guards unlock next.
Leave(t, r) ==
    /\ pc' = [pc EXCEPT ![t] = "unlock"]
    /\ ret' = [ret EXCEPT ![t] = r]
    /\ ik' = [ik EXCEPT ![t] = 0]
    /\ iHits' = [iHits EXCEPT ![t] = 0]
    /\ lOut' = [lOut EXCEPT ![t] = <<>>]

Goto(t, l) == pc' = [pc EXCEPT ![t] = l]

LookupOnly(t) == UNCHANGED <<tableVars, m_mSharedMutex, call, extendVars>>
-----------------------------------------------------------------------------
Init ==
    /\ m_vHashTable = NewTable(DefaultCapacity)
    /\ m_nCapacity = DefaultCapacity
    /\ m_mSharedMutex = Unlocked(Threads)
    /\ nPairs = 0
    /\ pc = [t \in Threads |-> "idle"]
    /\ call = [t \in Threads |-> NoCall]
    /\ ret = [t \in Threads |-> NoRet]
    /\ ik = [t \in Threads |-> 0]
    /\ iHits = [t \in Threads |-> 0]
    /\ lOut = [t \in Threads |-> <<>>]
    /\ nNewCapacity = [t \in Threads |-> 0]
    /\ vNewHashTable = [t \in Threads |-> NoTable]
    /\ tMoved = [t \in Threads |-> nullptr]

\* Calls of insert that have not constructed their pair yet.
PendingInserts ==
    {t \in Threads : call[t] \in InsertCalls /\ ret[t] = NoRet}

\* A thread calls an operation; the bound MaxPairs limits the calls of insert.
Invoke(t, c) ==
    /\ pc[t] = "idle"
    /\ c.op \in Ops
    /\ c \in InsertCalls => nPairs + Cardinality(PendingInserts) < MaxPairs
    /\ call' = [call EXCEPT ![t] = c]
    /\ Goto(t, IF c.op \in ReadOps THEN "rdlock" ELSE "wrlock")
    /\ UNCHANGED <<tableVars, m_mSharedMutex, ret, loopVars, extendVars>>

WaitingWriters ==
    IF WriterPriority THEN {t \in Threads : pc[t] = "wrlock"} ELSE {}

\* Where the body of a call starts, once the lock is held.
Entry(c) ==
    CASE c.op \in {"find", "equalRange", "operator[]", "insert", "remove"} -> "probe"
      [] c.op \in {"size", "empty"} -> "scan"
      [] c.op = "capacity" -> "read"
      [] c.op = "extend" -> "extend"
      [] c.op = "clear" -> "clear"

\* ReadLockType lReadLock(m_mSharedMutex) of the public readers; find goes on
\* to findImpl, which locks the same mutex again.
AcquireRead(t) ==
    /\ pc[t] = "rdlock"
    /\ CanLockShared(m_mSharedMutex, WaitingWriters)
    /\ m_mSharedMutex' = LockShared(m_mSharedMutex, t)
    /\ Goto(t, IF call[t].op = "find" THEN "rdlock2" ELSE Entry(call[t]))
    /\ UNCHANGED <<tableVars, call, ret, loopVars, extendVars>>

\* ReadLockType lReadLock(m_mSharedMutex) of findImpl, under that of find.
AcquireReadAgain(t) ==
    /\ pc[t] = "rdlock2"
    /\ CanLockShared(m_mSharedMutex, WaitingWriters)
    /\ m_mSharedMutex' = LockShared(m_mSharedMutex, t)
    /\ Goto(t, "probe")
    /\ UNCHANGED <<tableVars, call, ret, loopVars, extendVars>>

\* WriteLockType lWriteLock(m_mSharedMutex) of the public writers.
AcquireWrite(t) ==
    /\ pc[t] = "wrlock"
    /\ CanLock(m_mSharedMutex)
    /\ m_mSharedMutex' = Lock(m_mSharedMutex, t)
    /\ Goto(t, Entry(call[t]))
    /\ nNewCapacity' = [nNewCapacity EXCEPT ![t] =
                          IF call[t].op = "extend" THEN call[t].nNewCapacity ELSE 0]
    /\ UNCHANGED <<tableVars, call, ret, loopVars, vNewHashTable, tMoved>>

\* The lock guards are destroyed; find has two, so it comes here twice.
Release(t) ==
    /\ pc[t] = "unlock"
    /\ \/ /\ t \in m_mSharedMutex.writer
          /\ m_mSharedMutex' = Unlock(m_mSharedMutex, t)
       \/ /\ t \notin m_mSharedMutex.writer
          /\ m_mSharedMutex' = UnlockShared(m_mSharedMutex, t)
    /\ \/ /\ m_mSharedMutex'.readers[t] = 0
          /\ Goto(t, "idle")
          /\ call' = [call EXCEPT ![t] = NoCall]
          /\ ret' = [ret EXCEPT ![t] = NoRet]
       \/ /\ m_mSharedMutex'.readers[t] # 0
          /\ UNCHANGED <<pc, call, ret>>
    /\ UNCHANGED <<tableVars, loopVars, extendVars>>
-----------------------------------------------------------------------------
(***************************************************************************)
(* The readers.                                                            *)
(***************************************************************************)
\* One turn of findHashOfBusyCell, and what findImpl makes of its answer.
Find(t) ==
    /\ call[t].op = "find"
    /\ \/ /\ pc[t] = "probe"
          /\ call[t].iPos >= m_nCapacity \/ ik[t] >= m_nCapacity
          /\ Leave(t, Range_(<<>>))
       \/ /\ Probing(t) /\ call[t].iPos < m_nCapacity
          /\ Matches(t) /\ iHits[t] + 1 = First(t)
          /\ Leave(t, Range_(<<Cell(t)>>))
       \/ /\ Probing(t) /\ call[t].iPos < m_nCapacity
          /\ Matches(t) /\ iHits[t] + 1 # First(t)
          /\ NextTurn(t, iHits[t] + 1, lOut[t])
       \/ /\ Probing(t) /\ call[t].iPos < m_nCapacity
          /\ ~Matches(t)
          /\ NextTurn(t, iHits[t], lOut[t])
    /\ LookupOnly(t)

\* equalRange(key) and operator [] take equalRangeImpl, the other calls of
\* equalRange take equalRangeImplForPos.
WholeRange(c) ==
    \/ c.op = "operator[]"
    \/ c.op = "equalRange" /\ c.iPos = 0 /\ c.nCount = 0

EqualRange(t) ==
    /\ WholeRange(call[t])
    /\ \/ /\ pc[t] = "probe" /\ ik[t] >= m_nCapacity
          /\ Leave(t, Range_(lOut[t]))
       \/ /\ Probing(t) /\ Matches(t)
          /\ NextTurn(t, iHits[t], Append(lOut[t], Cell(t)))
       \/ /\ Probing(t) /\ ~Matches(t)
          /\ NextTurn(t, iHits[t], lOut[t])
    /\ LookupOnly(t)

EqualRangeForPos(t) ==
    /\ call[t].op = "equalRange" /\ ~WholeRange(call[t])
    /\ LET hits == iHits[t] + 1
           full == call[t].nCount # 0 /\ hits - First(t) = call[t].nCount
       IN \/ /\ pc[t] = "probe" /\ ik[t] >= m_nCapacity
             /\ Leave(t, Range_(lOut[t]))
          \/ /\ Probing(t) /\ Matches(t) /\ hits < First(t)
             /\ NextTurn(t, hits, lOut[t])
          \/ /\ Probing(t) /\ Matches(t) /\ hits >= First(t) /\ full
             /\ Leave(t, Range_(lOut[t]))
          \/ /\ Probing(t) /\ Matches(t) /\ hits >= First(t) /\ ~full
             /\ NextTurn(t, hits, Append(lOut[t], Cell(t)))
          \/ /\ Probing(t) /\ ~Matches(t)
             /\ NextTurn(t, iHits[t], lOut[t])
    /\ LookupOnly(t)

\* sizeImpl: ik is the cell number, iHits the number of busy cells so far.
Size(t) ==
    /\ call[t].op = "size" /\ pc[t] = "scan"
    /\ \/ /\ ik[t] >= m_nCapacity
          /\ Leave(t, Number(iHits[t]))
       \/ /\ ik[t] < m_nCapacity
          /\ NextTurn(t, iHits[t] + (IF m_vHashTable[ik[t]] # nullptr THEN 1 ELSE 0),
                      lOut[t])
    /\ LookupOnly(t)

\* emptyImpl: the loop of firstIndex, ended by the first busy cell.
Empty(t) ==
    /\ call[t].op = "empty" /\ pc[t] = "scan"
    /\ \/ /\ ik[t] >= m_nCapacity
          /\ Leave(t, Truth(TRUE))
       \/ /\ ik[t] < m_nCapacity /\ m_vHashTable[ik[t]] # nullptr
          /\ Leave(t, Truth(FALSE))
       \/ /\ ik[t] < m_nCapacity /\ m_vHashTable[ik[t]] = nullptr
          /\ NextTurn(t, iHits[t], lOut[t])
    /\ LookupOnly(t)

Capacity(t) ==
    /\ call[t].op = "capacity" /\ pc[t] = "read"
    /\ Leave(t, Number(m_nCapacity))
    /\ LookupOnly(t)
-----------------------------------------------------------------------------
(***************************************************************************)
(* The writers.                                                            *)
(***************************************************************************)
\* What insertImpl passes to extendImpl.  Mutant: no more than there is.
GrownCapacity_Same == m_nCapacity

GrownCapacity == m_nCapacity + DefaultCapacity

\* One turn of insertImpl's probing loop: the first free cell takes the new
\* pair, and a probe without one makes the table DefaultCapacity longer.
Insert(t) ==
    /\ call[t].op = "insert"
    /\ \/ /\ Probing(t) /\ Cell(t) = nullptr
          /\ nPairs' = nPairs + 1
          /\ m_vHashTable' = [m_vHashTable EXCEPT ![CellNo(t)] =
                                [key |-> call[t].tKey, val |-> nPairs']]
          /\ Leave(t, Void)
          /\ UNCHANGED <<m_nCapacity, extendVars>>
       \/ /\ Probing(t) /\ Cell(t) # nullptr
          /\ NextTurn(t, iHits[t], lOut[t])
          /\ UNCHANGED <<tableVars, extendVars>>
       \/ /\ pc[t] = "probe" /\ ik[t] >= m_nCapacity
          /\ Goto(t, "extend")
          /\ nNewCapacity' = [nNewCapacity EXCEPT ![t] = GrownCapacity]
          /\ UNCHANGED <<tableVars, ret, loopVars, vNewHashTable, tMoved>>
    /\ UNCHANGED <<m_mSharedMutex, call>>

\* if (!nCount) nCount = m_nCapacity - 1
RemoveLimit(c) == IF c.nCount = 0 THEN m_nCapacity - 1 ELSE c.nCount

\* One turn of removeImpl.
Remove(t) ==
    /\ call[t].op = "remove"
    /\ LET hits == iHits[t] + 1
           take == /\ hits >= First(t)
                   /\ hits - First(t) < RemoveLimit(call[t])
       IN \/ /\ pc[t] = "probe" /\ ik[t] >= m_nCapacity
             /\ Leave(t, Range_(lOut[t]))
             /\ UNCHANGED m_vHashTable
          \/ /\ Probing(t) /\ Matches(t) /\ take
             /\ NextTurn(t, hits, Append(lOut[t], Cell(t)))
             /\ m_vHashTable' = Emptied(m_vHashTable, CellNo(t))
          \/ /\ Probing(t) /\ Matches(t) /\ ~take
             /\ NextTurn(t, hits, lOut[t])
             /\ UNCHANGED m_vHashTable
          \/ /\ Probing(t) /\ ~Matches(t)
             /\ NextTurn(t, iHits[t], lOut[t])
             /\ UNCHANGED m_vHashTable
    /\ UNCHANGED <<m_nCapacity, nPairs, m_mSharedMutex, call, extendVars>>

\* clearImpl.  Mutant: the capacity stays what extend made it.
Clear_KeepsCapacity(t) ==
    /\ call[t].op = "clear" /\ pc[t] = "clear"
    /\ m_nCapacity' = m_nCapacity
    /\ m_vHashTable' = NewTable(DefaultCapacity)
    /\ Leave(t, Void)
    /\ UNCHANGED <<nPairs, m_mSharedMutex, call, extendVars>>

Clear(t) ==
    /\ call[t].op = "clear" /\ pc[t] = "clear"
    /\ m_nCapacity' = DefaultCapacity
    /\ m_vHashTable' = NewTable(DefaultCapacity)
    /\ Leave(t, Void)
    /\ UNCHANGED <<nPairs, m_mSharedMutex, call, extendVars>>
-----------------------------------------------------------------------------
(***************************************************************************)
(* extendImpl, for extend and for insert.                                  *)
(***************************************************************************)
\* Back to the caller: insertImpl probes again, extend is over.
ExtendReturns(t) ==
    \/ /\ call[t].op = "insert"
       /\ Goto(t, "probe")
       /\ ik' = [ik EXCEPT ![t] = 0]
       /\ UNCHANGED <<ret, iHits, lOut>>
    \/ /\ call[t].op = "extend"
       /\ Leave(t, Void)

ForgetExtend(t) ==
    /\ nNewCapacity' = [nNewCapacity EXCEPT ![t] = 0]
    /\ vNewHashTable' = [vNewHashTable EXCEPT ![t] = NoTable]
    /\ tMoved' = [tMoved EXCEPT ![t] = nullptr]

\* The early return, or the allocation of the new table.
ExtendBegin(t) ==
    /\ pc[t] = "extend"
    /\ \/ /\ nNewCapacity[t] <= m_nCapacity
          /\ ExtendReturns(t)
          /\ ForgetExtend(t)
       \/ /\ nNewCapacity[t] > m_nCapacity
          /\ vNewHashTable' = [vNewHashTable EXCEPT ![t] = NewTable(nNewCapacity[t])]
          /\ Goto(t, "rehash")
          /\ UNCHANGED <<ret, loopVars, nNewCapacity, tMoved>>
    /\ UNCHANGED <<tableVars, m_mSharedMutex, call>>

\* firstIndex(): the lowest busy cell, or the capacity.
IsFirstBusy(i) ==
    /\ m_vHashTable[i] # nullptr
    /\ \A j \in 0 .. i - 1 : m_vHashTable[j] = nullptr

\* Mutant: the last cell is not looked at.
NoneBusy_ButLast == \A i \in 0 .. m_nCapacity - 2 : m_vHashTable[i] = nullptr

NoneBusy == \A i \in 0 .. m_nCapacity - 1 : m_vHashTable[i] = nullptr

\* The head of while(true): the next key to move, or the end of the loop.
Rehash(t) ==
    /\ pc[t] = "rehash"
    /\ \/ \E i \in 0 .. m_nCapacity - 1 :
             /\ IsFirstBusy(i)
             /\ tMoved' = [tMoved EXCEPT ![t] = m_vHashTable[i].key]
             /\ ik' = [ik EXCEPT ![t] = 0]
             /\ Goto(t, "move")
             /\ UNCHANGED <<tableVars, ret, iHits, lOut, nNewCapacity, vNewHashTable>>
       \/ /\ NoneBusy
          /\ m_vHashTable' = vNewHashTable[t]
          /\ m_nCapacity' = nNewCapacity[t]
          /\ ExtendReturns(t)
          /\ ForgetExtend(t)
          /\ UNCHANGED nPairs
    /\ UNCHANGED <<m_mSharedMutex, call>>

\* The cell of the new table that step j of the probe of the moved key visits,
\* and the first step that visits a free one.  Mutants: the probe of the old
\* table, and any step that visits a free cell.
NewCellNo_OldCapacity(t, j) == hashFunction(m_nCapacity, tMoved[t], j)

NewCellNo(t, j) == hashFunction(nNewCapacity[t], tMoved[t], j)

IsFreeStep(t, j) ==
    j \in 0 .. nNewCapacity[t] - 1 /\ vNewHashTable[t][NewCellNo(t, j)] = nullptr

IsFirstFreeStep_Any(t, j) == IsFreeStep(t, j)

IsFirstFreeStep(t, j) ==
    IsFreeStep(t, j) /\ \A n \in 0 .. j - 1 : ~IsFreeStep(t, n)

HasFreeStep(t) == \E j \in 0 .. nNewCapacity[t] - 1 : IsFreeStep(t, j)

\* One turn of the loop over ik: a pair of the key goes to the first free cell
\* of its new probe.  Where there is none it stays, and Rehash finds it again.
Move(t) ==
    LET from == hashFunction(m_nCapacity, tMoved[t], ik[t])
        mine == m_vHashTable[from] # nullptr /\ m_vHashTable[from].key = tMoved[t]
    IN /\ pc[t] = "move"
       /\ \/ /\ ik[t] >= m_nCapacity
             /\ Goto(t, "rehash")
             /\ UNCHANGED <<m_vHashTable, ik, vNewHashTable>>
          \/ /\ ik[t] < m_nCapacity
             /\ mine /\ HasFreeStep(t)
             /\ \E j \in 0 .. nNewCapacity[t] - 1 :
                   /\ IsFirstFreeStep(t, j)
                   /\ vNewHashTable' =
                         [vNewHashTable EXCEPT ![t][NewCellNo(t, j)] = m_vHashTable[from]]
             /\ m_vHashTable' = Emptied(m_vHashTable, from)
             /\ ik' = [ik EXCEPT ![t] = @ + 1]
             /\ UNCHANGED pc
          \/ /\ ik[t] < m_nCapacity
             /\ ~(mine /\ HasFreeStep(t))
             /\ ik' = [ik EXCEPT ![t] = @ + 1]
             /\ UNCHANGED <<m_vHashTable, pc, vNewHashTable>>
       /\ UNCHANGED <<m_nCapacity, nPairs, m_mSharedMutex, call, ret, iHits, lOut,
                      nNewCapacity, tMoved>>
-----------------------------------------------------------------------------
Step(t) ==
    \/ AcquireRead(t) \/ AcquireReadAgain(t) \/ AcquireWrite(t) \/ Release(t)
    \/ Find(t) \/ EqualRange(t) \/ EqualRangeForPos(t)
    \/ Size(t) \/ Empty(t) \/ Capacity(t)
    \/ Insert(t) \/ Remove(t) \/ Clear(t)
    \/ ExtendBegin(t) \/ Rehash(t) \/ Move(t)

Next == \E t \in Threads : Step(t) \/ \E c \in Calls : Invoke(t, c)

Spec == Init /\ [][Next]_vars

(***************************************************************************)
(* A thread that can go on does: the scheduler runs every thread.  Nothing *)
(* forces a thread to call an operation.                                   *)
(***************************************************************************)
FairSpec == Spec /\ \A t \in Threads : WF_vars(Step(t))
=============================================================================
