-------------------------- MODULE HashMapProperties --------------------------
(***************************************************************************)
(* What makes HashMap correct: the invariants and action properties of its *)
(* steps, what must eventually happen, and the promise of Multimap.        *)
(***************************************************************************)
EXTENDS HashMap

Seqs == INSTANCE SequencesExt

\* A thread fills a new table.
Extending(t) == pc[t] \in {"rehash", "move"}

TypeOK ==
    /\ m_nCapacity \in Nat \ {0}
    /\ m_vHashTable \in [0 .. m_nCapacity - 1 -> Cells]
    /\ m_mSharedMutex \in [writer : SUBSET Threads, readers : [Threads -> Nat]]
    /\ nPairs \in Nat
    /\ pc \in [Threads -> PCs]
    /\ call \in [Threads -> Calls \cup {NoCall}]
    /\ ret \in [Threads -> Results \cup {NoRet}]
    /\ ik \in [Threads -> Nat]
    /\ iHits \in [Threads -> Nat]
    /\ lOut \in [Threads -> Seq(Pairs)]
    /\ nNewCapacity \in [Threads -> Nat]
    /\ vNewHashTable = [t \in Threads |-> vNewHashTable[t]]
    /\ \A t \in Threads :
          vNewHashTable[t] \in IF Extending(t) THEN [0 .. nNewCapacity[t] - 1 -> Cells]
                                             ELSE {NoTable}
    /\ tMoved \in [Threads -> Keys \cup {nullptr}]
-----------------------------------------------------------------------------
(***************************************************************************)
(* The lock.                                                               *)
(***************************************************************************)
\* The steps that read the table or the capacity, and those that write them.
InBody(t) == pc[t] \in {"probe", "scan", "read", "clear", "extend", "rehash", "move"}

Writing(t) == InBody(t) /\ call[t].op \in WriteOps

\* While a thread runs the body of insert, remove, extend or clear, no other
\* thread is anywhere in the body of an operation: no data race on
\* m_vHashTable, on its cells or on m_nCapacity.
NoDataRace ==
    \A t, u \in Threads : t # u /\ Writing(t) => ~InBody(u)

\* The cells and the capacity never change under a thread that holds the lock
\* shared, whatever any thread does: a reader's loop sees one table.
ReadersSeeOneTable ==
    [][(\E t \in Threads : m_mSharedMutex.readers[t] > 0)
         => UNCHANGED <<m_vHashTable, m_nCapacity>>]_vars
-----------------------------------------------------------------------------
(***************************************************************************)
(* The pairs.                                                              *)
(***************************************************************************)
PairsIn(tab) == {tab[i] : i \in DOMAIN tab} \ {nullptr}

Stored == PairsIn(m_vHashTable) \cup UNION {PairsIn(vNewHashTable[t]) : t \in Threads}

OnceIn(tab) ==
    \A i, j \in DOMAIN tab : tab[i] = tab[j] /\ tab[i] # nullptr => i = j

\* A pair sits in one cell only, also while extendImpl moves it.
OnePlacePerPair ==
    /\ OnceIn(m_vHashTable)
    /\ \A t \in Threads :
          /\ OnceIn(vNewHashTable[t])
          /\ PairsIn(m_vHashTable) \cap PairsIn(vNewHashTable[t]) = {}

\* A pair leaves the tables only through remove, which returns it, or clear,
\* and no pair comes back: extendImpl loses none and constructs none.
PairsLeaveByRemoveOrClear ==
    [][/\ \A p \in Stored \ Stored' : \E t \in Threads :
             \/ call[t].op = "clear"
             \/ call[t].op = "remove" /\ lOut'[t] = Append(lOut[t], p)
       /\ \A p \in Stored' \ Stored : p.val > nPairs]_vars

\* Every pair is where a probe of its key comes by, in the table it is in; if
\* not, no operation would ever find it again.
PairsAreReachable ==
    /\ \A i \in DOMAIN m_vHashTable : m_vHashTable[i] # nullptr =>
          \E j \in 0 .. m_nCapacity - 1 :
              hashFunction(m_nCapacity, m_vHashTable[i].key, j) = i
    /\ \A t \in Threads : \A i \in DOMAIN vNewHashTable[t] :
          vNewHashTable[t][i] # nullptr =>
             \E j \in 0 .. nNewCapacity[t] - 1 :
                 hashFunction(nNewCapacity[t], vNewHashTable[t][i].key, j) = i

\* The pairs of key k in tab, of capacity m, that the first n steps of a probe
\* meet, in their order: an element for every n.
Met(tab, m, k) ==
    LET met[n \in 0 .. m] ==
            IF n = 0 THEN <<>>
            ELSE LET c == tab[hashFunction(m, k, n - 1)]
                 IN  IF c # nullptr /\ c.key = k THEN Append(met[n - 1], c) ELSE met[n - 1]
    IN  met

InProbeOrder(tab, m, k) == Met(tab, m, k)[m]

\* The same while a thread moves pairs to a longer table: those already moved
\* come first.
InOrder(k) ==
    IF \E t \in Threads : Extending(t)
    THEN LET t == CHOOSE u \in Threads : Extending(u)
         IN InProbeOrder(vNewHashTable[t], nNewCapacity[t], k)
              \o InProbeOrder(m_vHashTable, m_nCapacity, k)
    ELSE InProbeOrder(m_vHashTable, m_nCapacity, k)

\* "did not corrupt insertion order" (test/test_hashmap_extend.cpp:109): as
\* long as nothing is removed, the pairs of a key are found in the order they
\* were inserted, and extensions keep it so.
InsertionOrder ==
    \A k \in Keys : \A i, j \in 1 .. Len(InOrder(k)) :
        i < j => InOrder(k)[i].val < InOrder(k)[j].val

\* "as in std::unordered_multimap" (README): a list the map hands out names
\* no pair twice.
RangesNameAPairOnce ==
    \A t \in Threads : Seqs!IsInjective(lOut[t])

\* remove(key), with iPos and nCount at their defaults of 0, leaves no pair of
\* the key, as erase(key) of std::unordered_multimap does.
RemoveAllTakesAll ==
    \A t \in Threads :
        /\ pc[t] = "unlock"
        /\ call[t].op = "remove" /\ call[t].iPos = 0 /\ call[t].nCount = 0
        => \A p \in PairsIn(m_vHashTable) : p.key # call[t].tKey
-----------------------------------------------------------------------------
(***************************************************************************)
(* The promise: HashMap implements Multimap.  While remove runs, the pairs *)
(* it has taken out so far still count as present.                         *)
(***************************************************************************)
Removing(t, k) == pc[t] = "probe" /\ call[t].op = "remove" /\ call[t].tKey = k

PutBack(s, i, out) == IF out = <<>> THEN s
                      ELSE SubSeq(s, 1, i) \o out \o SubSeq(s, i + 1, Len(s))

Items(k) ==
    IF \E t \in Threads : Removing(t, k)
    THEN LET t == CHOOSE u \in Threads : Removing(u, k)
         IN PutBack(InOrder(k), call[t].iPos, lOut[t])
    ELSE InOrder(k)

Promise == INSTANCE Multimap
             WITH items <- [k \in Keys |-> Items(k)], capacity <- m_nCapacity

ImplementsMultimap == Promise!Spec
-----------------------------------------------------------------------------
(***************************************************************************)
(* What must happen.                                                       *)
(***************************************************************************)
Holds(t) == t \in m_mSharedMutex.writer \/ m_mSharedMutex.readers[t] > 0

\* A thread that has the lock gives it back: every loop of every operation
\* ends, that of extendImpl included, and find gets its second read lock.
HoldersRelease == \A t \in Threads : Holds(t) ~> ~Holds(t)

\* Every extension ends ("Extension with rehasing in O(n) time", README).
ExtensionsEnd == \A t \in Threads : Extending(t) ~> ~Extending(t)

\* Every call returns.
EveryCallReturns == \A t \in Threads : pc[t] # "idle" ~> pc[t] = "idle"
=============================================================================
