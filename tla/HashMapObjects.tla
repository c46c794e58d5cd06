--------------------------- MODULE HashMapObjects ---------------------------
(***************************************************************************)
(* Several objects of class HashMap (src/src/hashmap.h), the tables they   *)
(* own and the pairs in them: constructors, copy, move, destructor, and    *)
(* the calls that allocate or free a table.                                *)
(*                                                                         *)
(* A call under the map's lock is one step here, an insertion one for each *)
(* turn of while(true) in insertImpl; the other loops are the subject of   *)
(* module HashMap.  So is the cell a pair goes to: any free cell may be    *)
(* the first free one on the probe of some key, and a probe may miss cells *)
(* that are free.                                                          *)
(*                                                                         *)
(* new, make_shared and the copy of a key (line 421) may throw in insert   *)
(* and extend, where the map lives on; a call that throws and leaves all   *)
(* as it was is no step.  Elsewhere they are taken not to throw.           *)
(*                                                                         *)
(* The copy constructor takes no lock of its source and goes on cell by    *)
(* cell.  A writer in between is a data race, of which C++ says nothing:   *)
(* the model has the race as a step and ends there.                        *)
(***************************************************************************)
EXTENDS Naturals, FiniteSets

CONSTANTS
    Maps,             \* the places where a program keeps a map
    Pairs,            \* the addresses of PairType objects
    Tables,           \* the addresses of tables
    nullptr,
    DefaultCapacity,
    NewCapacities,    \* the arguments of extend
    ListLengths,      \* the lengths of initializer lists; 0: no list
    MaxCapacity       \* bound: insert extends no table beyond it

ASSUME ObjectsAssumption ==
    /\ nullptr \notin Tables \cup Pairs /\ \A P \in SUBSET Pairs : P # nullptr
    /\ DefaultCapacity \in Nat \ {0}
    /\ NewCapacities \subseteq Nat
    /\ ListLengths \subseteq Nat
    /\ MaxCapacity \in Nat

VARIABLES
    heap,             \* the cells of the tables that are allocated
    life,             \* of each map: "none", "copying" (its constructor runs), "alive",
                      \* "undefined" (it ran into a data race)
    m_vHashTable, m_nCapacity,
    copying,          \* source and next cell of a copy constructor that runs
    vRemoved,         \* the shared pointers callers got from remove, per map
    leaked            \* the tables that extensions which threw have left behind

ovars == <<heap, life, m_vHashTable, m_nCapacity, copying, vRemoved, leaked>>

Cells(n) == 0 .. n - 1

Init ==
    /\ heap = [t \in {} |-> 0]
    /\ life = [m \in Maps |-> "none"]
    /\ m_vHashTable = [m \in Maps |-> nullptr]
    /\ m_nCapacity = [m \in Maps |-> 0]
    /\ copying = [m \in Maps |-> [src |-> m, i |-> 0]]
    /\ vRemoved = {} /\ leaked = {}
-----------------------------------------------------------------------------
PairsIn(table) == {table[c] : c \in DOMAIN table} \ {nullptr}
PairsOf(m) == IF m_vHashTable[m] = nullptr THEN {} ELSE PairsIn(heap[m_vHashTable[m]])

\* Some shared_ptr holds the pair: a cell, or a result of remove.
Alive(p) ==
    \/ \E t \in DOMAIN heap : p \in PairsIn(heap[t])
    \/ \E m \in Maps : <<m, p>> \in vRemoved

\* The tables of n cells with each pair of P in one of them.
Placements(P, n) ==
    {table \in [Cells(n) -> P \cup {nullptr}] :
        \A p \in P : \E c \in Cells(n) :
            table[c] = p /\ \A d \in Cells(n) \ {c} : table[d] # p}

EmptyTable(n) == [c \in Cells(n) |-> nullptr]

\* h after delete [] of what m's table pointer names; nothing if it is null.
Deleted(h, m) == [t \in DOMAIN h \ {m_vHashTable[m]} |-> h[t]]

\* h with a table allocated at t.
With(h, t, table) == [u \in DOMAIN h \cup {t} |-> IF u = t THEN table ELSE h[u]]

IsAlive(m) == life[m] = "alive"

\* A copy constructor reads its source's cells.
IsCopied(m) == \E d \in Maps : life[d] = "copying" /\ copying[d].src = m

\* A call may write to the map, move from it or destroy it, and no data race yet.
Writable(m) == IsAlive(m) /\ ~ IsCopied(m)
-----------------------------------------------------------------------------
(***************************************************************************)
(* Construction and destruction.                                           *)
(***************************************************************************)
\* new SharedPtrPairType[n] for a map that has no table yet.
NewTable(m, table, n) ==
    /\ \E t \in Tables \ DOMAIN heap :
          /\ heap' = With(heap, t, table)
          /\ m_vHashTable' = [m_vHashTable EXCEPT ![m] = t]
    /\ m_nCapacity' = [m_nCapacity EXCEPT ![m] = n]

\* Both constructors: of an empty map, and of one with the pairs of a list, whose
\* insertions may find no free cell and extend the table.
ListCapacity(n) == IF n > DefaultCapacity THEN n + DefaultCapacity ELSE DefaultCapacity

ListCapacities(n) ==
    {ListCapacity(n)} \cup
        {c \in ListCapacity(n) .. MaxCapacity : n > 0 /\ (c - ListCapacity(n)) % DefaultCapacity = 0}

Construct(m, P) ==
    /\ life[m] = "none"
    /\ Cardinality(P) \in ListLengths /\ \A p \in P : ~ Alive(p)
    /\ \E n \in ListCapacities(Cardinality(P)) :
          \E table \in Placements(P, n) : NewTable(m, table, n)
    /\ life' = [life EXCEPT ![m] = "alive"]
    /\ UNCHANGED <<copying, vRemoved, leaked>>

\* The copy constructor up to its loop, a turn of the loop, and its end.
CopyBegin(m, src) ==
    /\ life[m] = "none" /\ IsAlive(src)
    /\ NewTable(m, EmptyTable(m_nCapacity[src]), m_nCapacity[src])
    /\ life' = [life EXCEPT ![m] = "copying"]
    /\ copying' = [copying EXCEPT ![m] = [src |-> src, i |-> 0]]
    /\ UNCHANGED <<vRemoved, leaked>>

\* Mutant: the pointer is moved out of the source's cell.
CopyCell_Moves(m) ==
    /\ life[m] = "copying" /\ copying[m].i < m_nCapacity[m]
    /\ LET i == copying[m].i
           source == m_vHashTable[copying[m].src]
       IN  heap' = [heap EXCEPT ![m_vHashTable[m]][i] = heap[source][i],
                                ![source][i] = nullptr]
    /\ copying' = [copying EXCEPT ![m].i = @ + 1]
    /\ UNCHANGED <<life, m_vHashTable, m_nCapacity, vRemoved, leaked>>

CopyCell(m) ==
    /\ life[m] = "copying" /\ copying[m].i < m_nCapacity[m]
    /\ LET i == copying[m].i
           source == m_vHashTable[copying[m].src]
       IN  heap' = [heap EXCEPT ![m_vHashTable[m]][i] = heap[source][i]]
    /\ copying' = [copying EXCEPT ![m].i = @ + 1]
    /\ UNCHANGED <<life, m_vHashTable, m_nCapacity, vRemoved, leaked>>

\* Meanwhile somebody writes to src, moves from it or destroys it: the constructor
\* reads capacity, table and cells without its lock, and may read them half
\* written or freed.
Race(m) ==
    /\ life[m] = "copying"
    /\ life' = [life EXCEPT ![m] = "undefined"]
    /\ UNCHANGED <<heap, m_vHashTable, m_nCapacity, copying, vRemoved, leaked>>

CopyEnd(m) ==
    /\ life[m] = "copying" /\ copying[m].i = m_nCapacity[m]
    /\ life' = [life EXCEPT ![m] = "alive"]
    /\ copying' = [copying EXCEPT ![m] = [src |-> m, i |-> 0]]
    /\ UNCHANGED <<heap, m_vHashTable, m_nCapacity, vRemoved, leaked>>

\* Mutant: the source keeps its table.
Move_KeepsTable(m, src) ==
    /\ life[m] = "none" /\ Writable(src)
    /\ m_vHashTable' = [m_vHashTable EXCEPT ![m] = m_vHashTable[src]]
    /\ m_nCapacity' = [m_nCapacity EXCEPT ![m] = m_nCapacity[src]]
    /\ life' = [life EXCEPT ![m] = "alive"]
    /\ UNCHANGED <<heap, copying, vRemoved, leaked>>

\* The move constructor: the source is left without a table, of capacity 0.
Move(m, src) ==
    /\ life[m] = "none" /\ Writable(src)
    /\ m_vHashTable' = [m_vHashTable EXCEPT ![m] = m_vHashTable[src], ![src] = nullptr]
    /\ m_nCapacity' = [m_nCapacity EXCEPT ![m] = m_nCapacity[src], ![src] = 0]
    /\ life' = [life EXCEPT ![m] = "alive"]
    /\ UNCHANGED <<heap, copying, vRemoved, leaked>>

Destroy(m) ==
    /\ Writable(m)
    /\ heap' = Deleted(heap, m)
    /\ life' = [life EXCEPT ![m] = "none"]
    /\ m_vHashTable' = [m_vHashTable EXCEPT ![m] = nullptr]
    /\ m_nCapacity' = [m_nCapacity EXCEPT ![m] = 0]
    /\ UNCHANGED <<copying, vRemoved, leaked>>
-----------------------------------------------------------------------------
(***************************************************************************)
(* The calls that write.                                                   *)
(***************************************************************************)
\* A table without the pairs of P.
Without(table, P) == [c \in DOMAIN table |-> IF table[c] \in P THEN nullptr ELSE table[c]]

\* firstIndex is looked for again and again: if anything was moved, the first
\* pair was.
MovedInOrder(P, table) ==
    P = {} \/ \E c \in DOMAIN table :
                 table[c] \in P /\ \A d \in Cells(c) : table[d] = nullptr

\* extendImpl allocates a larger table, moves the pairs and frees the old one.
\* Mutant: it makes new pairs, as a rehash through insert would.
Rehashed_Anew(m, n) ==
    UNION {Placements(P, n) : P \in {Q \in SUBSET {p \in Pairs : ~ Alive(p)} :
                                       Cardinality(Q) = Cardinality(PairsOf(m))}}

Rehashed(m, n) == Placements(PairsOf(m), n)

Replace(m, table, n) ==
    /\ \E t \in Tables \ DOMAIN heap :
          /\ heap' = With(Deleted(heap, m), t, table)
          /\ m_vHashTable' = [m_vHashTable EXCEPT ![m] = t]
    /\ m_nCapacity' = [m_nCapacity EXCEPT ![m] = n]

Extend(m, n) ==
    /\ Writable(m) /\ n > m_nCapacity[m]
    /\ \E table \in Rehashed(m, n) : Replace(m, table, n)
    /\ UNCHANGED <<life, copying, vRemoved, leaked>>

\* The copy of a key (line 421) throws: pairs of the keys met before are in the new
\* table, which nobody owns now, and the map keeps its table with the others.
ExtendThrows(m, n) ==
    /\ Writable(m) /\ n > m_nCapacity[m]
    /\ \E P \in (SUBSET PairsOf(m)) \ {PairsOf(m)}, t \in Tables \ DOMAIN heap :
          /\ MovedInOrder(P, heap[m_vHashTable[m]])
          /\ \E table \in Placements(P, n) :
                heap' = With([heap EXCEPT ![m_vHashTable[m]] = Without(@, P)], t, table)
          /\ leaked' = leaked \cup {t}
    /\ UNCHANGED <<life, m_vHashTable, m_nCapacity, copying, vRemoved>>

\* insertImpl: a turn that meets no free cell extends the table, a moved-from map's
\* also.  A free cell the probe does not visit is of no use.
InsertCapacity(m) == m_nCapacity[m] + DefaultCapacity

InsertExtends(m) ==
    /\ InsertCapacity(m) <= MaxCapacity
    /\ Extend(m, InsertCapacity(m)) \/ ExtendThrows(m, InsertCapacity(m))

\* A turn that meets a free cell puts the pair there, unless make_shared throws.
Insert(m, p) ==
    /\ Writable(m) /\ ~ Alive(p)
    /\ \E c \in Cells(m_nCapacity[m]) :
          /\ heap[m_vHashTable[m]][c] = nullptr
          /\ heap' = [heap EXCEPT ![m_vHashTable[m]][c] = p]
    /\ UNCHANGED <<life, m_vHashTable, m_nCapacity, copying, vRemoved, leaked>>

\* One turn of removeImpl's loop that takes a pair, as remove(key, pos, 1) does.
Remove(m, c) ==
    /\ Writable(m) /\ c \in Cells(m_nCapacity[m])
    /\ heap[m_vHashTable[m]][c] # nullptr
    /\ vRemoved' = vRemoved \cup {<<m, heap[m_vHashTable[m]][c]>>}
    /\ heap' = [heap EXCEPT ![m_vHashTable[m]][c] = nullptr]
    /\ UNCHANGED <<life, m_vHashTable, m_nCapacity, copying, leaked>>

\* A caller lets go of a pair that remove returned.
Forget(r) ==
    /\ vRemoved' = vRemoved \ {r}
    /\ UNCHANGED <<heap, life, m_vHashTable, m_nCapacity, copying, leaked>>

\* Mutant: the capacity stays.
Clear_KeepsCapacity(m) ==
    /\ Writable(m)
    /\ \E t \in Tables \ DOMAIN Deleted(heap, m) :
          /\ heap' = With(Deleted(heap, m), t, EmptyTable(DefaultCapacity))
          /\ m_vHashTable' = [m_vHashTable EXCEPT ![m] = t]
    /\ UNCHANGED <<life, m_nCapacity, copying, vRemoved, leaked>>

\* The old table is freed first: the new one may be at its place.
Clear(m) ==
    /\ Writable(m)
    /\ \E t \in Tables \ DOMAIN Deleted(heap, m) :
          /\ heap' = With(Deleted(heap, m), t, EmptyTable(DefaultCapacity))
          /\ m_vHashTable' = [m_vHashTable EXCEPT ![m] = t]
    /\ m_nCapacity' = [m_nCapacity EXCEPT ![m] = DefaultCapacity]
    /\ UNCHANGED <<life, copying, vRemoved, leaked>>

Calls ==
    \/ \E m \in Maps, P \in SUBSET Pairs : Construct(m, P)
    \/ \E m, src \in Maps : CopyBegin(m, src) \/ Move(m, src)
    \/ \E m \in Maps : CopyCell(m) \/ CopyEnd(m) \/ Race(m)
    \/ \E m \in Maps, n \in NewCapacities : Extend(m, n) \/ ExtendThrows(m, n)
    \/ \E m \in Maps : InsertExtends(m)
    \/ \E m \in Maps, p \in Pairs : Insert(m, p)
    \/ \E m \in Maps : \E c \in Cells(m_nCapacity[m]) : Remove(m, c)
    \/ \E m \in Maps : Clear(m) \/ Destroy(m)
    \/ \E r \in vRemoved : Forget(r)

\* A program is followed up to its first data race.
Next == (\A m \in Maps : life[m] # "undefined") /\ Calls

Spec == Init /\ [][Next]_ovars
-----------------------------------------------------------------------------
(***************************************************************************)
(* Properties.                                                             *)
(***************************************************************************)
\* The length of a map's table is the capacity the loops of hashmap.h run to,
\* so that none of them leaves the table, a moved-from map's included; and the
\* copy constructor's loop, which runs to the copy's capacity, does not leave the
\* source's table.
TypeOK ==
    /\ life \in [Maps -> {"none", "copying", "alive", "undefined"}]
    /\ m_vHashTable \in [Maps -> DOMAIN heap \cup {nullptr}]
    /\ m_nCapacity \in [Maps -> Nat]
    /\ \A m \in Maps :
          IF m_vHashTable[m] = nullptr THEN m_nCapacity[m] = 0
          ELSE heap[m_vHashTable[m]] \in [Cells(m_nCapacity[m]) -> Pairs \cup {nullptr}]
    /\ copying \in [Maps -> [src : Maps, i : Nat]]
    /\ \A m \in Maps : life[m] = "copying" => m_nCapacity[m] = m_nCapacity[copying[m].src]
    /\ vRemoved \subseteq Maps \X Pairs
    /\ leaked \subseteq DOMAIN heap

\* Each table is owned by one map that exists: none is freed twice (by
\* destructor, extendImpl or clearImpl), used after it is freed, or leaked but by
\* an extension that threw.
TablesHaveOneOwner ==
    /\ DOMAIN heap \subseteq Tables
    /\ \A t \in DOMAIN heap \ leaked : \E m \in Maps :
          /\ m_vHashTable[m] = t /\ life[m] # "none"
          /\ \A o \in Maps \ {m} : m_vHashTable[o] # t
    /\ \A m \in Maps : m_vHashTable[m] \in (DOMAIN heap \ leaked) \cup {nullptr}

\* A reference that find returned, and a weak pointer of equalRange, dies only
\* when some map that holds its pair is destroyed or cleared (and has the default
\* capacity again), or the last result of remove that holds it goes: not by an
\* extension ("without calling the copy and key copy constructors", README:12),
\* not by one that throws, an insertion, a copy, a move or a removal whose result
\* is kept.
ReferencesSurvive ==
    [][\A p \in Pairs : Alive(p) /\ ~ Alive(p)' =>
          \/ \E m \in Maps :
                /\ p \in PairsOf(m)
                /\ \/ life'[m] = "none"
                   \/ PairsOf(m)' = {} /\ m_nCapacity'[m] = DefaultCapacity
          \/ \E m \in Maps : <<m, p>> \in vRemoved \ vRemoved']_ovars

\* Each map is a collection of its own, as MapCollections promises: copies do
\* not reference the source's table, an insertion that fails changes nothing that
\* can be looked up, only an extension that throws loses pairs, and a moved-from
\* map is an empty one.
MC == INSTANCE MapCollections WITH
        NoMap <- nullptr,
        contents <- [m \in Maps |-> IF IsAlive(m) THEN PairsOf(m) ELSE nullptr]

ImplementsCollections == MC!Spec
=============================================================================
