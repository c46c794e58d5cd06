------------------------- MODULE HashMapObjectsProofs -------------------------
(***************************************************************************)
(* Theorems about HashMapObjects, for any set of maps, of pairs and of     *)
(* tables and any capacities, of a program up to its first data race: the  *)
(* tables of the maps are where and as long as the maps believe, each has  *)
(* one owner or was leaked by an extension that threw, references stay     *)
(* valid, and the maps implement MapCollections.                           *)
(***************************************************************************)
EXTENDS HashMapObjects, TLAPS

\* Who owns which table, and how long it is.
Owned ==
    /\ heap = [t \in DOMAIN heap |-> heap[t]]
    /\ DOMAIN heap \subseteq Tables
    /\ leaked \subseteq DOMAIN heap
    /\ m_vHashTable \in [Maps -> (DOMAIN heap \ leaked) \cup {nullptr}]
    /\ m_nCapacity \in [Maps -> Nat]
    /\ \A m \in Maps : m_vHashTable[m] = nullptr => m_nCapacity[m] = 0
    /\ \A m \in Maps : m_vHashTable[m] # nullptr =>
          heap[m_vHashTable[m]] \in [Cells(m_nCapacity[m]) -> Pairs \cup {nullptr}]
    /\ \A t \in DOMAIN heap \ leaked : \E m \in Maps : m_vHashTable[m] = t
    /\ \A m, o \in Maps :
          m # o /\ m_vHashTable[m] = m_vHashTable[o] => m_vHashTable[m] = nullptr

\* What the life of a map says of its table and, while it is copied, of its
\* source.
Lives ==
    /\ life \in [Maps -> {"none", "copying", "alive", "undefined"}]
    /\ copying \in [Maps -> [src : Maps, i : Nat]]
    /\ vRemoved \subseteq Maps \X Pairs
    /\ \A m \in Maps : life[m] = "none" => m_vHashTable[m] = nullptr
    /\ \A m \in Maps : life[m] = "copying" =>
          /\ m_vHashTable[m] # nullptr
          /\ copying[m].i <= m_nCapacity[m]
          /\ life[copying[m].src] = "alive"
          /\ m_nCapacity[copying[m].src] = m_nCapacity[m]

IInv == Owned /\ Lives

\* The step leaves map x, its table and the cells of the table alone.
Untouched(x) ==
    /\ m_vHashTable'[x] = m_vHashTable[x]
    /\ m_nCapacity'[x] = m_nCapacity[x]
    /\ m_vHashTable[x] # nullptr => heap'[m_vHashTable[x]] = heap[m_vHashTable[x]]

\* The step leaves the tables alone that nobody owns.
LeaksStay == \A t \in leaked : t \in DOMAIN heap' /\ heap'[t] = heap[t]
-----------------------------------------------------------------------------
(***************************************************************************)
(* The three things a step may do to tables.                               *)
(***************************************************************************)
\* Map m gets a table in the place of the one it has, if it has one.
LEMMA Rehoused ==
    ASSUME Owned, NEW m \in Maps, NEW n \in Nat,
           NEW t \in Tables \ DOMAIN Deleted(heap, m),
           NEW table \in [Cells(n) -> Pairs \cup {nullptr}],
           heap' = With(Deleted(heap, m), t, table),
           m_vHashTable' = [m_vHashTable EXCEPT ![m] = t],
           m_nCapacity' = [m_nCapacity EXCEPT ![m] = n], leaked' = leaked
    PROVE  /\ Owned'
           /\ m_vHashTable'[m] = t /\ t # nullptr /\ m_nCapacity'[m] = n
           /\ heap'[t] = table
           /\ LeaksStay /\ \A x \in Maps \ {m} : Untouched(x)
<1> DEFINE D == DOMAIN heap \ {m_vHashTable[m]}
<1>1. DOMAIN Deleted(heap, m) = D /\ \A u \in D : Deleted(heap, m)[u] = heap[u]
  BY DEF Deleted
<1>2. /\ DOMAIN heap' = D \cup {t} /\ t \notin D
      /\ heap' = [u \in DOMAIN heap' |-> heap'[u]]
      /\ heap'[t] = table
      /\ \A u \in D : heap'[u] = heap[u]
  BY <1>1 DEF With
<1>3. t # nullptr
  BY ObjectsAssumption
<1>4. /\ m_vHashTable'[m] = t /\ m_nCapacity'[m] = n
      /\ \A x \in Maps \ {m} :
            m_vHashTable'[x] = m_vHashTable[x] /\ m_nCapacity'[x] = m_nCapacity[x]
  BY DEF Owned
<1>5. \A x \in Maps \ {m} : m_vHashTable[x] \in (D \ leaked) \cup {nullptr}
  BY DEF Owned
<1>6. leaked \subseteq D /\ t \notin leaked
  BY <1>1, ObjectsAssumption DEF Owned
<1>7. LeaksStay
  BY <1>2, <1>6 DEF LeaksStay
<1>8. \A x \in Maps \ {m} : Untouched(x)
  BY <1>2, <1>4, <1>5 DEF Untouched
<1>9. DOMAIN heap' \subseteq Tables
  BY <1>2 DEF Owned
<1>10. /\ m_vHashTable' \in [Maps -> (DOMAIN heap' \ leaked) \cup {nullptr}]
      /\ m_nCapacity' \in [Maps -> Nat]
  BY <1>2, <1>4, <1>5, <1>6 DEF Owned
<1>11. ASSUME NEW x \in Maps
      PROVE  /\ m_vHashTable'[x] = nullptr => m_nCapacity'[x] = 0
             /\ m_vHashTable'[x] # nullptr =>
                  heap'[m_vHashTable'[x]] \in [Cells(m_nCapacity'[x]) -> Pairs \cup {nullptr}]
  <2>1. CASE x = m
    BY <1>2, <1>3, <1>4, <2>1
  <2>2. CASE x # m
    BY <1>8, <2>2 DEF Owned, Untouched
  <2>. QED BY <2>1, <2>2
<1>12. \A u \in DOMAIN heap' \ leaked : \E x \in Maps : m_vHashTable'[x] = u
  <2>1. ASSUME NEW u \in D \ leaked PROVE \E x \in Maps : m_vHashTable'[x] = u
    <3>1. PICK x \in Maps : m_vHashTable[x] = u
      BY DEF Owned
    <3>. QED BY <1>4, <3>1
  <2>. QED BY <1>2, <1>4, <2>1
<1>13. ASSUME NEW x \in Maps, NEW y \in Maps, x # y, m_vHashTable'[x] = m_vHashTable'[y]
       PROVE  m_vHashTable'[x] = nullptr
  BY <1>2, <1>3, <1>4, <1>5, <1>13 DEF Owned
<1>14. Owned'
  <2>. HIDE DEF D
  <2>. QED BY <1>2, <1>9, <1>10, <1>11, <1>12, <1>13, <1>6 DEF Owned, Cells
<1>. QED BY <1>2, <1>3, <1>4, <1>8, <1>14, <1>7

\* A map without a table gets one.
LEMMA Housed ==
    ASSUME Owned, NEW m \in Maps, NEW n \in Nat, m_vHashTable[m] = nullptr,
           NEW table \in [Cells(n) -> Pairs \cup {nullptr}],
           NewTable(m, table, n), leaked' = leaked
    PROVE  /\ Owned'
           /\ m_vHashTable'[m] # nullptr /\ m_nCapacity'[m] = n
           /\ heap'[m_vHashTable'[m]] = table
           /\ LeaksStay /\ \A x \in Maps \ {m} : Untouched(x)
<1>1. Deleted(heap, m) = heap
  <2>1. nullptr \notin DOMAIN heap
    BY ObjectsAssumption DEF Owned
  <2>2. DOMAIN heap \ {m_vHashTable[m]} = DOMAIN heap
    BY <2>1
  <2>3. Deleted(heap, m) = [t \in DOMAIN heap |-> heap[t]]
    BY <2>2 DEF Deleted
  <2>. QED BY <2>3 DEF Owned
<1>2. PICK t \in Tables \ DOMAIN heap :
         heap' = With(heap, t, table) /\ m_vHashTable' = [m_vHashTable EXCEPT ![m] = t]
  BY DEF NewTable
<1>3. m_nCapacity' = [m_nCapacity EXCEPT ![m] = n]
  BY DEF NewTable
<1>. QED BY <1>1, <1>2, <1>3, Rehoused

\* extendImpl.
LEMMA Replaced ==
    ASSUME Owned, NEW m \in Maps, NEW n \in Nat,
           NEW table \in [Cells(n) -> Pairs \cup {nullptr}],
           Replace(m, table, n), leaked' = leaked
    PROVE  /\ Owned'
           /\ m_vHashTable'[m] # nullptr /\ m_nCapacity'[m] = n
           /\ heap'[m_vHashTable'[m]] = table
           /\ LeaksStay /\ \A x \in Maps \ {m} : Untouched(x)
<1>1. DOMAIN Deleted(heap, m) \subseteq DOMAIN heap
  BY DEF Deleted
<1>2. PICK t \in Tables \ DOMAIN heap :
         /\ heap' = With(Deleted(heap, m), t, table)
         /\ m_vHashTable' = [m_vHashTable EXCEPT ![m] = t]
  BY DEF Replace
<1>3. m_nCapacity' = [m_nCapacity EXCEPT ![m] = n]
  BY DEF Replace
<1>. QED BY <1>1, <1>2, <1>3, Rehoused

\* One cell of m's table is written.
LEMMA CellWritten ==
    ASSUME Owned, NEW m \in Maps, m_vHashTable[m] # nullptr,
           NEW c \in Cells(m_nCapacity[m]), NEW p \in Pairs \cup {nullptr},
           heap' = [heap EXCEPT ![m_vHashTable[m]][c] = p],
           UNCHANGED <<m_vHashTable, m_nCapacity, leaked>>
    PROVE  /\ Owned'
           /\ heap'[m_vHashTable[m]] = [heap[m_vHashTable[m]] EXCEPT ![c] = p]
           /\ LeaksStay /\ \A x \in Maps \ {m} : Untouched(x)
<1>1. m_vHashTable[m] \in DOMAIN heap \ leaked
  BY DEF Owned
<1>2. /\ DOMAIN heap' = DOMAIN heap
      /\ heap' = [u \in DOMAIN heap' |-> heap'[u]]
      /\ heap'[m_vHashTable[m]] = [heap[m_vHashTable[m]] EXCEPT ![c] = p]
      /\ \A u \in DOMAIN heap \ {m_vHashTable[m]} : heap'[u] = heap[u]
  BY <1>1 DEF Owned
<1>3. \A x \in Maps \ {m} : Untouched(x)
  BY <1>2 DEF Owned, Untouched
<1>4. heap'[m_vHashTable[m]] \in [Cells(m_nCapacity[m]) -> Pairs \cup {nullptr}]
  <2>1. heap[m_vHashTable[m]] \in [Cells(m_nCapacity[m]) -> Pairs \cup {nullptr}]
    BY DEF Owned
  <2>. QED BY <1>2, <2>1
<1>5. \A x \in Maps : m_vHashTable[x] # nullptr =>
        heap'[m_vHashTable[x]] \in [Cells(m_nCapacity[x]) -> Pairs \cup {nullptr}]
  BY <1>3, <1>4 DEF Owned, Untouched
<1>6. LeaksStay
  BY <1>1, <1>2 DEF LeaksStay, Owned
<1>7. Owned'
  BY <1>2, <1>5 DEF Owned, Cells
<1>. QED BY <1>2, <1>3, <1>6, <1>7
-----------------------------------------------------------------------------
(***************************************************************************)
(* The inductive invariant.                                                *)
(***************************************************************************)
LEMMA InitIInv == Init => IInv
  BY DEF Init, IInv, Owned, Lives

\* What Lives asks of a step that makes one map other than it was.
LEMMA LivesKept ==
    ASSUME IInv, NEW m \in Maps, life[m] # "copying", ~ IsCopied(m),
           \A x \in Maps \ {m} : Untouched(x),
           life' \in [Maps -> {"none", "copying", "alive", "undefined"}],
           \A x \in Maps \ {m} : life'[x] = life[x],
           life'[m] # "copying",
           life'[m] = "none" => m_vHashTable'[m] = nullptr,
           copying' = copying,
           vRemoved' \subseteq Maps \X Pairs
    PROVE  Lives'
<1>1. \A x \in Maps : life'[x] = "none" => m_vHashTable'[x] = nullptr
  BY DEF IInv, Lives, Untouched
<1>2. ASSUME NEW x \in Maps, life'[x] = "copying"
      PROVE  /\ m_vHashTable'[x] # nullptr
             /\ copying'[x].i <= m_nCapacity'[x]
             /\ life'[copying'[x].src] = "alive"
             /\ m_nCapacity'[copying'[x].src] = m_nCapacity'[x]
  <2>1. x # m /\ life[x] = "copying" /\ Untouched(x)
    BY <1>2
  <2>2. copying[x].src \in Maps \ {m}
    BY <2>1 DEF IsCopied, IInv, Lives
  <2>. QED BY <2>1, <2>2 DEF IInv, Lives, Untouched
<1>. QED BY <1>1, <1>2 DEF Lives, IInv

\* A map that is being constructed or is not yet is nobody's source.
LEMMA SourcesAlive ==
    ASSUME IInv, NEW m \in Maps, life[m] # "alive"
    PROVE  ~ IsCopied(m)
  BY DEF IInv, Lives, IsCopied

\* What Placements offers are tables.
LEMMA PlacementsAreTables ==
    ASSUME NEW P \in SUBSET Pairs, NEW n \in Nat, NEW table \in Placements(P, n)
    PROVE  table \in [Cells(n) -> Pairs \cup {nullptr}]
  BY DEF Placements

\* What a map holds are pairs, not the null pointer.
LEMMA PairsOfArePairs ==
    ASSUME Owned, NEW m \in Maps
    PROVE  PairsOf(m) \in SUBSET Pairs
<1>1. CASE m_vHashTable[m] = nullptr
  BY <1>1 DEF PairsOf
<1>2. CASE m_vHashTable[m] # nullptr
  BY <1>2 DEF PairsOf, PairsIn, Owned
<1>. QED BY <1>1, <1>2

\* The capacity a constructor or an insertion asks for is a number.
LEMMA CapacitiesAreNumbers ==
    /\ \A P \in SUBSET Pairs : Cardinality(P) \in ListLengths =>
          ListCapacities(Cardinality(P)) \subseteq Nat
    /\ IInv => \A m \in Maps : InsertCapacity(m) \in Nat
<1>1. ASSUME NEW k \in ListLengths, NEW n \in ListCapacities(k) PROVE n \in Nat
  <2>1. k \in Nat /\ ListCapacity(k) \in Nat /\ MaxCapacity \in Nat
    BY ObjectsAssumption DEF ListCapacity
  <2>. HIDE DEF ListCapacity
  <2>. QED BY <1>1, <2>1 DEF ListCapacities
<1>2. IInv => \A m \in Maps : InsertCapacity(m) \in Nat
  BY ObjectsAssumption DEF IInv, Owned, InsertCapacity
<1>. QED BY <1>1, <1>2

\* Construction keeps the invariant and leaves the other maps alone.
LEMMA ConstructStep ==
    ASSUME IInv, NEW m \in Maps, NEW P \in SUBSET Pairs, Construct(m, P)
    PROVE  IInv' /\ LeaksStay /\ \A x \in Maps \ {m} : Untouched(x)
<1>1. PICK n \in ListCapacities(Cardinality(P)) :
         \E table \in Placements(P, n) : NewTable(m, table, n)
  BY DEF Construct
<1>2. n \in Nat
  BY <1>1, CapacitiesAreNumbers DEF Construct
<1>3. life[m] = "none" /\ m_vHashTable[m] = nullptr
  BY DEF Construct, IInv, Lives
<1>4. PICK table \in Placements(P, n) : NewTable(m, table, n)
  BY <1>1
<1>5. table \in [Cells(n) -> Pairs \cup {nullptr}]
  BY <1>2, <1>4, PlacementsAreTables
<1>6. /\ life' = [life EXCEPT ![m] = "alive"]
      /\ copying' = copying /\ vRemoved' = vRemoved /\ leaked' = leaked
  BY DEF Construct
<1>7. Owned' /\ LeaksStay /\ \A x \in Maps \ {m} : Untouched(x)
  BY <1>2, <1>3, <1>4, <1>5, <1>6, Housed DEF IInv
<1>8. ~ IsCopied(m)
  BY <1>3, SourcesAlive
<1>9. Lives'
  BY <1>3, <1>6, <1>7, <1>8, LivesKept DEF IInv, Lives
<1>. QED BY <1>7, <1>9 DEF IInv

\* The copy constructor up to its loop does, and the copy is as long as its source.
LEMMA CopyBeginStep ==
    ASSUME IInv, NEW m \in Maps, NEW src \in Maps, CopyBegin(m, src)
    PROVE  /\ IInv' /\ LeaksStay /\ \A x \in Maps \ {m} : Untouched(x)
           /\ m_nCapacity'[m] = m_nCapacity[src]
<1> DEFINE n == m_nCapacity[src]
<1>1. n \in Nat /\ EmptyTable(n) \in [Cells(n) -> Pairs \cup {nullptr}]
  BY DEF EmptyTable, IInv, Owned
<1>2. /\ life[m] = "none" /\ m_vHashTable[m] = nullptr
      /\ life[src] = "alive" /\ src # m
  BY DEF CopyBegin, IsAlive, IInv, Lives
<1>3. /\ Owned' /\ LeaksStay /\ \A x \in Maps \ {m} : Untouched(x)
      /\ m_vHashTable'[m] # nullptr /\ m_nCapacity'[m] = n
  <2>1. NewTable(m, EmptyTable(n), n) /\ leaked' = leaked
    BY DEF CopyBegin
  <2>. HIDE DEF n
  <2>. QED BY <1>1, <1>2, <2>1, Housed DEF IInv
<1>4. /\ life' = [life EXCEPT ![m] = "copying"]
      /\ copying' = [copying EXCEPT ![m] = [src |-> src, i |-> 0]]
      /\ vRemoved' = vRemoved
  BY DEF CopyBegin
<1>5. /\ life' \in [Maps -> {"none", "copying", "alive", "undefined"}]
      /\ copying' \in [Maps -> [src : Maps, i : Nat]]
      /\ vRemoved' \subseteq Maps \X Pairs
  BY <1>4 DEF IInv, Lives
<1>6. ASSUME NEW x \in Maps, life'[x] = "none" PROVE m_vHashTable'[x] = nullptr
  BY <1>3, <1>4, <1>6 DEF IInv, Lives, Untouched
<1>7. ASSUME NEW x \in Maps, life'[x] = "copying"
      PROVE  /\ m_vHashTable'[x] # nullptr
             /\ copying'[x].i <= m_nCapacity'[x]
             /\ life'[copying'[x].src] = "alive"
             /\ m_nCapacity'[copying'[x].src] = m_nCapacity'[x]
  <2>1. CASE x = m
    <3>1. copying'[m] = [src |-> src, i |-> 0] /\ m_nCapacity'[src] = n
      BY <1>2, <1>3, <1>4 DEF IInv, Lives, Untouched
    <3>. QED BY <1>1, <1>2, <1>3, <1>4, <2>1, <3>1 DEF IInv, Lives
  <2>2. CASE x # m
    <3>1. life[x] = "copying" /\ copying'[x] = copying[x] /\ Untouched(x)
      BY <1>3, <1>4, <1>7, <2>2 DEF IInv, Lives
    <3>2. copying[x].src \in Maps /\ copying[x].src # m /\ Untouched(copying[x].src)
      BY <1>2, <1>3, <3>1 DEF IInv, Lives
    <3>. QED BY <1>4, <3>1, <3>2 DEF IInv, Lives, Untouched
  <2>. QED BY <2>1, <2>2
<1>8. Lives'
  BY <1>5, <1>6, <1>7 DEF Lives
<1>. QED BY <1>3, <1>8 DEF IInv

\* A turn of its loop does; it writes to the copy what the source has in that cell.
LEMMA CopyCellStep ==
    ASSUME IInv, NEW m \in Maps, CopyCell(m)
    PROVE  /\ IInv' /\ LeaksStay /\ \A x \in Maps \ {m} : Untouched(x)
           /\ m_nCapacity' = m_nCapacity /\ m_vHashTable' = m_vHashTable
           /\ life' = life /\ copying[m].i \in Cells(m_nCapacity[m])
           /\ copying' = [copying EXCEPT ![m].i = @ + 1]
           /\ m_vHashTable[copying[m].src] # nullptr
           /\ heap'[m_vHashTable[m]] =
                 [heap[m_vHashTable[m]] EXCEPT
                    ![copying[m].i] = heap[m_vHashTable[copying[m].src]][copying[m].i]]
<1> DEFINE i == copying[m].i
           s == copying[m].src
           p == heap[m_vHashTable[s]][i]
<1>1. /\ life[m] = "copying" /\ m_vHashTable[m] # nullptr
      /\ s \in Maps /\ i \in Nat /\ m_nCapacity[s] = m_nCapacity[m]
      /\ i < m_nCapacity[m] /\ m_nCapacity[m] \in Nat
  BY DEF CopyCell, IInv, Lives, Owned
<1>2. /\ copying' = [copying EXCEPT ![m].i = @ + 1] /\ life' = life
      /\ m_nCapacity' = m_nCapacity /\ m_vHashTable' = m_vHashTable /\ vRemoved' = vRemoved
      /\ leaked' = leaked /\ heap' = [heap EXCEPT ![m_vHashTable[m]][i] = p]
  BY DEF CopyCell
<1>3. i \in Cells(m_nCapacity[m])
  BY <1>1 DEF Cells
<1>4. m_vHashTable[s] # nullptr /\ p \in Pairs \cup {nullptr}
  <2>1. m_vHashTable[s] # nullptr
    BY <1>1 DEF IInv, Owned
  <2>2. heap[m_vHashTable[s]] \in [Cells(m_nCapacity[m]) -> Pairs \cup {nullptr}]
    BY <1>1, <2>1 DEF IInv, Owned
  <2>. QED BY <1>3, <2>1, <2>2
<1>. HIDE DEF i, s, p
<1>5. /\ Owned' /\ LeaksStay /\ \A x \in Maps \ {m} : Untouched(x)
      /\ heap'[m_vHashTable[m]] = [heap[m_vHashTable[m]] EXCEPT ![i] = p]
  BY <1>1, <1>2, <1>3, <1>4, CellWritten DEF IInv
<1>. USE DEF i, s
<1>6. Lives'
  <2>1. copying' \in [Maps -> [src : Maps, i : Nat]]
    BY <1>1, <1>2 DEF IInv, Lives
  <2>2. ASSUME NEW x \in Maps, life[x] = "copying"
        PROVE  copying'[x].src = copying[x].src /\ copying'[x].i <= m_nCapacity[x]
    <3>1. CASE x = m
      BY <1>1, <1>2, <3>1 DEF IInv, Lives
    <3>2. CASE x # m
      BY <1>2, <2>2, <3>2 DEF IInv, Lives
    <3>. QED BY <3>1, <3>2
  <2>. QED BY <1>2, <2>1, <2>2 DEF IInv, Lives
<1>. QED BY <1>2, <1>3, <1>4, <1>5, <1>6 DEF IInv, p

\* A constructor that has run, and one that has run into a data race.
LEMMA CopyingEnds ==
    ASSUME IInv, NEW m \in Maps, life[m] = "copying", NEW l \in {"alive", "undefined"},
           life' = [life EXCEPT ![m] = l],
           copying' \in [Maps -> [src : Maps, i : Nat]],
           \A x \in Maps \ {m} : copying'[x] = copying[x],
           UNCHANGED <<heap, m_vHashTable, m_nCapacity, vRemoved, leaked>>
    PROVE  IInv'
<1>1. Owned'
  BY DEF IInv, Owned, Cells
<1>2. life' \in [Maps -> {"none", "copying", "alive", "undefined"}]
  BY DEF IInv, Lives
<1>3. ASSUME NEW x \in Maps, life'[x] = "copying"
      PROVE  /\ m_vHashTable[x] # nullptr
             /\ copying'[x].i <= m_nCapacity[x]
             /\ life'[copying'[x].src] = "alive"
             /\ m_nCapacity[copying'[x].src] = m_nCapacity[x]
  <2>1. x # m /\ life[x] = "copying" /\ copying'[x] = copying[x]
    BY <1>3 DEF IInv, Lives
  <2>2. copying[x].src \in Maps \ {m}
    BY <2>1 DEF IInv, Lives
  <2>. QED BY <2>1, <2>2 DEF IInv, Lives
<1>4. ASSUME NEW x \in Maps, life'[x] = "none" PROVE m_vHashTable[x] = nullptr
  BY <1>4 DEF IInv, Lives
<1>5. Lives'
  BY <1>2, <1>3, <1>4 DEF IInv, Lives
<1>. QED BY <1>1, <1>5 DEF IInv

\* The end of a copy constructor keeps the invariant.
LEMMA CopyEndStep ==
    ASSUME IInv, NEW m \in Maps, CopyEnd(m)
    PROVE  IInv'
<1>1. /\ copying' \in [Maps -> [src : Maps, i : Nat]]
      /\ \A x \in Maps \ {m} : copying'[x] = copying[x]
  BY DEF CopyEnd, IInv, Lives
<1>. QED BY <1>1, CopyingEnds DEF CopyEnd

\* A data race does, as far as it is modelled.
LEMMA RaceStep ==
    ASSUME IInv, NEW m \in Maps, Race(m)
    PROVE  IInv'
<1>1. /\ copying' \in [Maps -> [src : Maps, i : Nat]]
      /\ \A x \in Maps \ {m} : copying'[x] = copying[x]
  BY DEF Race, IInv, Lives
<1>. QED BY <1>1, CopyingEnds DEF Race

\* A move keeps the invariant and leaves maps other than the two alone.
LEMMA MoveStep ==
    ASSUME IInv, NEW m \in Maps, NEW src \in Maps, Move(m, src)
    PROVE  IInv' /\ LeaksStay /\ \A x \in Maps \ {m, src} : Untouched(x)
<1>1. /\ life[m] = "none" /\ m_vHashTable[m] = nullptr
      /\ life[src] = "alive" /\ src # m /\ ~ IsCopied(src) /\ ~ IsCopied(m)
  BY SourcesAlive DEF Move, Writable, IsAlive, IInv, Lives
<1>2. /\ heap' = heap /\ copying' = copying /\ vRemoved' = vRemoved
      /\ life' = [life EXCEPT ![m] = "alive"] /\ leaked' = leaked
  BY DEF Move
<1>3. /\ m_vHashTable'[m] = m_vHashTable[src] /\ m_vHashTable'[src] = nullptr
      /\ m_nCapacity'[m] = m_nCapacity[src] /\ m_nCapacity'[src] = 0
      /\ \A x \in Maps \ {m, src} :
            m_vHashTable'[x] = m_vHashTable[x] /\ m_nCapacity'[x] = m_nCapacity[x]
  BY <1>1 DEF Move, IInv, Owned
<1>4. /\ m_vHashTable' \in [Maps -> (DOMAIN heap \ leaked) \cup {nullptr}]
      /\ m_nCapacity' \in [Maps -> Nat]
  BY DEF Move, IInv, Owned
<1>5. \A x \in Maps \ {m, src} : Untouched(x)
  BY <1>2, <1>3 DEF Untouched
<1>6. ASSUME NEW x \in Maps
      PROVE  /\ m_vHashTable'[x] = nullptr => m_nCapacity'[x] = 0
             /\ m_vHashTable'[x] # nullptr =>
                  heap[m_vHashTable'[x]] \in [Cells(m_nCapacity'[x]) -> Pairs \cup {nullptr}]
  <2>1. CASE x = m
    BY <1>3, <2>1 DEF IInv, Owned
  <2>2. CASE x = src
    BY <1>3, <2>2
  <2>3. CASE x \notin {m, src}
    BY <1>3, <2>3 DEF IInv, Owned
  <2>. QED BY <2>1, <2>2, <2>3
<1>7. ASSUME NEW t \in DOMAIN heap \ leaked PROVE \E x \in Maps : m_vHashTable'[x] = t
  <2>1. PICK x \in Maps : m_vHashTable[x] = t
    BY DEF IInv, Owned
  <2>2. t # nullptr
    BY ObjectsAssumption DEF IInv, Owned
  <2>3. x # m
    BY <1>1, <2>1, <2>2
  <2>4. CASE x = src
    BY <1>3, <2>1, <2>4
  <2>5. CASE x # src
    BY <1>3, <2>1, <2>3, <2>5
  <2>. QED BY <2>4, <2>5
<1>8. ASSUME NEW x \in Maps, NEW y \in Maps, x # y, m_vHashTable'[x] = m_vHashTable'[y]
      PROVE  m_vHashTable'[x] = nullptr
  <2>1. CASE x = src \/ y = src
    BY <1>3, <1>8, <2>1
  <2>2. CASE x # src /\ y # src /\ x = m
    BY <1>3, <1>8, <2>2 DEF IInv, Owned
  <2>3. CASE x # src /\ y # src /\ y = m
    BY <1>3, <1>8, <2>3 DEF IInv, Owned
  <2>4. CASE x \notin {m, src} /\ y \notin {m, src}
    BY <1>3, <1>8, <2>4 DEF IInv, Owned
  <2>. QED BY <2>1, <2>2, <2>3, <2>4
<1>9. Owned'
  BY <1>2, <1>4, <1>6, <1>7, <1>8 DEF IInv, Owned, Cells
<1>10. life' \in [Maps -> {"none", "copying", "alive", "undefined"}]
  BY <1>2 DEF IInv, Lives
<1>11. ASSUME NEW x \in Maps, life'[x] = "none" PROVE m_vHashTable'[x] = nullptr
  BY <1>1, <1>2, <1>3, <1>11 DEF IInv, Lives
<1>12. ASSUME NEW x \in Maps, life'[x] = "copying"
       PROVE  /\ m_vHashTable'[x] # nullptr
              /\ copying[x].i <= m_nCapacity'[x]
              /\ life'[copying[x].src] = "alive"
              /\ m_nCapacity'[copying[x].src] = m_nCapacity'[x]
  <2>1. x \notin {m, src} /\ life[x] = "copying" /\ Untouched(x)
    BY <1>1, <1>2, <1>5, <1>12 DEF IInv, Lives
  <2>2. copying[x].src \in Maps \ {m, src} /\ Untouched(copying[x].src)
    BY <1>1, <1>5, <2>1 DEF IsCopied, IInv, Lives
  <2>. QED BY <1>2, <2>1, <2>2 DEF IInv, Lives, Untouched
<1>13. Lives'
  BY <1>2, <1>10, <1>11, <1>12 DEF IInv, Lives
<1>14. LeaksStay
  BY <1>2 DEF LeaksStay, IInv, Owned
<1>. QED BY <1>5, <1>9, <1>13, <1>14 DEF IInv

\* Destruction keeps the invariant and leaves the other maps alone.
LEMMA DestroyStep ==
    ASSUME IInv, NEW m \in Maps, Destroy(m)
    PROVE  IInv' /\ LeaksStay /\ \A x \in Maps \ {m} : Untouched(x)
<1> DEFINE D == DOMAIN heap \ {m_vHashTable[m]}
<1>1. /\ DOMAIN heap' = D /\ heap' = [u \in DOMAIN heap' |-> heap'[u]]
      /\ \A u \in D : heap'[u] = heap[u]
  BY DEF Destroy, Deleted
<1>2. /\ m_vHashTable'[m] = nullptr /\ m_nCapacity'[m] = 0
      /\ \A x \in Maps \ {m} :
            m_vHashTable'[x] = m_vHashTable[x] /\ m_nCapacity'[x] = m_nCapacity[x]
      /\ leaked' = leaked
  BY DEF Destroy, IInv, Owned
<1>3. \A x \in Maps \ {m} : m_vHashTable[x] \in (D \ leaked) \cup {nullptr}
  BY DEF IInv, Owned
<1>4. \A x \in Maps \ {m} : Untouched(x)
  BY <1>1, <1>2, <1>3 DEF Untouched
<1>5. leaked \subseteq D
  BY ObjectsAssumption DEF IInv, Owned
<1>6. LeaksStay
  BY <1>1, <1>5 DEF LeaksStay
<1>7. /\ DOMAIN heap' \subseteq Tables
      /\ m_vHashTable' \in [Maps -> (DOMAIN heap' \ leaked) \cup {nullptr}]
      /\ m_nCapacity' \in [Maps -> Nat]
  <2>1. m_vHashTable' \in [Maps -> (D \ leaked) \cup {nullptr}]
    BY <1>2, <1>3 DEF Destroy, IInv, Owned
  <2>. QED BY <1>1, <2>1 DEF Destroy, IInv, Owned
<1>8. ASSUME NEW x \in Maps
      PROVE  /\ m_vHashTable'[x] = nullptr => m_nCapacity'[x] = 0
             /\ m_vHashTable'[x] # nullptr =>
                  heap'[m_vHashTable'[x]] \in [Cells(m_nCapacity'[x]) -> Pairs \cup {nullptr}]
  BY <1>2, <1>4 DEF IInv, Owned, Untouched
<1>9. ASSUME NEW u \in DOMAIN heap' \ leaked PROVE \E x \in Maps : m_vHashTable'[x] = u
  BY <1>1, <1>2 DEF IInv, Owned
<1>10. ASSUME NEW x \in Maps, NEW y \in Maps, x # y, m_vHashTable'[x] = m_vHashTable'[y]
       PROVE  m_vHashTable'[x] = nullptr
  BY <1>2, <1>10 DEF IInv, Owned
<1>11. Owned'
  <2>. HIDE DEF D
  <2>. QED BY <1>1, <1>2, <1>5, <1>7, <1>8, <1>9, <1>10 DEF Owned, Cells
<1>12. /\ life[m] = "alive" /\ ~ IsCopied(m)
       /\ life' = [life EXCEPT ![m] = "none"]
       /\ copying' = copying /\ vRemoved' = vRemoved
  BY DEF Destroy, Writable, IsAlive
<1>13. Lives'
  BY <1>2, <1>4, <1>12, LivesKept DEF IInv, Lives
<1>. QED BY <1>4, <1>6, <1>11, <1>13 DEF IInv

\* What Lives asks of a call that writes to a map.
LEMMA WriterLives ==
    ASSUME IInv, NEW m \in Maps, Writable(m),
           \A x \in Maps \ {m} : Untouched(x),
           UNCHANGED <<life, copying>>, vRemoved' \subseteq Maps \X Pairs
    PROVE  Lives'
<1>1. life[m] = "alive" /\ ~ IsCopied(m)
  BY DEF Writable, IsAlive
<1>. QED BY <1>1, LivesKept DEF IInv, Lives

\* So does an extension.
LEMMA ExtendStep ==
    ASSUME IInv, NEW m \in Maps, NEW n \in Nat, Extend(m, n)
    PROVE  IInv' /\ LeaksStay /\ \A x \in Maps \ {m} : Untouched(x)
<1>1. PICK table \in Placements(PairsOf(m), n) : Replace(m, table, n)
  BY DEF Extend, Rehashed
<1>2. table \in [Cells(n) -> Pairs \cup {nullptr}]
  BY <1>1, PairsOfArePairs, PlacementsAreTables DEF IInv
<1>3. Writable(m) /\ UNCHANGED <<life, copying, vRemoved, leaked>>
  BY DEF Extend
<1>4. Owned' /\ LeaksStay /\ \A x \in Maps \ {m} : Untouched(x)
  BY <1>1, <1>2, <1>3, Replaced DEF IInv
<1>5. Lives'
  BY <1>3, <1>4, WriterLives DEF IInv, Lives
<1>. QED BY <1>4, <1>5 DEF IInv

\* An extension that throws takes the pairs of P out of the map's table into one
\* that stays at t.
LEMMA TableLeft ==
    ASSUME Owned, NEW m \in Maps, NEW n \in Nat,
           NEW P \in SUBSET PairsOf(m), P # PairsOf(m),
           NEW t \in Tables \ DOMAIN heap,
           NEW table \in [Cells(n) -> Pairs \cup {nullptr}],
           heap' = With([heap EXCEPT ![m_vHashTable[m]] = Without(@, P)], t, table),
           leaked' = leaked \cup {t},
           UNCHANGED <<m_vHashTable, m_nCapacity>>
    PROVE  /\ Owned'
           /\ m_vHashTable[m] # nullptr
           /\ heap'[m_vHashTable[m]] = Without(heap[m_vHashTable[m]], P)
           /\ t \in DOMAIN heap' /\ heap'[t] = table
           /\ LeaksStay /\ \A x \in Maps \ {m} : Untouched(x)
<1> DEFINE own == m_vHashTable[m]
           left == Without(heap[own], P)
<1>1. own \in DOMAIN heap \ leaked /\ own # nullptr
  BY DEF Owned, PairsOf
<1>2. /\ DOMAIN heap' = DOMAIN heap \cup {t}
      /\ heap' = [u \in DOMAIN heap' |-> heap'[u]]
      /\ heap'[t] = table /\ heap'[own] = left
      /\ \A u \in DOMAIN heap \ {own} : heap'[u] = heap[u]
  BY <1>1 DEF With
<1>3. left \in [Cells(m_nCapacity[m]) -> Pairs \cup {nullptr}]
  BY <1>1 DEF Without, Owned
<1>. HIDE DEF left
<1>4. \A x \in Maps \ {m} : Untouched(x)
  BY <1>1, <1>2, ZenonT(30) DEF Owned, Untouched
<1>5. LeaksStay
  BY <1>1, <1>2 DEF LeaksStay, Owned
<1>6. \A x \in Maps : m_vHashTable[x] # nullptr =>
        heap'[m_vHashTable[x]] \in [Cells(m_nCapacity[x]) -> Pairs \cup {nullptr}]
  BY <1>2, <1>3, <1>4 DEF Owned, Untouched
<1>7. m_vHashTable \in [Maps -> (DOMAIN heap' \ leaked') \cup {nullptr}]
  <2>1. \A x \in Maps : m_vHashTable[x] \in (DOMAIN heap \ leaked) \cup {nullptr}
    BY DEF Owned
  <2>2. \A x \in Maps : m_vHashTable[x] # t
    BY <2>1, ObjectsAssumption
  <2>. QED BY <1>2, <2>1, <2>2 DEF Owned
<1>8. Owned'
  BY <1>2, <1>6, <1>7 DEF Owned, Cells
<1>. QED BY <1>1, <1>2, <1>4, <1>5, <1>8 DEF left

\* So does an extension that throws.
LEMMA ExtendThrowsStep ==
    ASSUME IInv, NEW m \in Maps, NEW n \in Nat, ExtendThrows(m, n)
    PROVE  IInv' /\ LeaksStay /\ \A x \in Maps \ {m} : Untouched(x)
<1>1. PICK P \in (SUBSET PairsOf(m)) \ {PairsOf(m)}, t \in Tables \ DOMAIN heap :
         /\ \E table \in Placements(P, n) :
               heap' = With([heap EXCEPT ![m_vHashTable[m]] = Without(@, P)], t, table)
         /\ leaked' = leaked \cup {t}
  BY DEF ExtendThrows
<1>2. PICK table \in Placements(P, n) :
         heap' = With([heap EXCEPT ![m_vHashTable[m]] = Without(@, P)], t, table)
  BY <1>1
<1>3. table \in [Cells(n) -> Pairs \cup {nullptr}]
  BY <1>2, PairsOfArePairs, PlacementsAreTables DEF IInv
<1>4. Writable(m) /\ UNCHANGED <<life, copying, vRemoved, m_vHashTable, m_nCapacity>>
  BY DEF ExtendThrows
<1>5. Owned' /\ LeaksStay /\ \A x \in Maps \ {m} : Untouched(x)
  BY <1>1, <1>2, <1>3, <1>4, TableLeft DEF IInv
<1>6. Lives'
  BY <1>4, <1>5, WriterLives DEF IInv, Lives
<1>. QED BY <1>5, <1>6 DEF IInv

\* So does an insertion.
LEMMA InsertStep ==
    ASSUME IInv, NEW m \in Maps, NEW p \in Pairs, Insert(m, p)
    PROVE  IInv' /\ LeaksStay /\ \A x \in Maps \ {m} : Untouched(x)
<1>1. PICK c \in Cells(m_nCapacity[m]) :
         heap' = [heap EXCEPT ![m_vHashTable[m]][c] = p]
  BY DEF Insert
<1>2. m_vHashTable[m] # nullptr
  BY <1>1 DEF IInv, Owned, Cells
<1>3. /\ Writable(m)
      /\ UNCHANGED <<life, copying, vRemoved, m_vHashTable, m_nCapacity, leaked>>
  BY DEF Insert
<1>4. Owned' /\ LeaksStay /\ \A x \in Maps \ {m} : Untouched(x)
  BY <1>1, <1>2, <1>3, CellWritten DEF IInv
<1>5. Lives'
  BY <1>3, <1>4, WriterLives DEF IInv, Lives
<1>. QED BY <1>4, <1>5 DEF IInv

\* So does a removal.
LEMMA RemoveStep ==
    ASSUME IInv, NEW m \in Maps, NEW c \in Cells(m_nCapacity[m]), Remove(m, c)
    PROVE  IInv' /\ LeaksStay /\ \A x \in Maps \ {m} : Untouched(x)
<1>1. m_vHashTable[m] # nullptr
  BY DEF IInv, Owned, Cells
<1>2. heap[m_vHashTable[m]][c] \in Pairs
  BY <1>1 DEF Remove, IInv, Owned
<1>3. /\ Writable(m) /\ UNCHANGED <<life, copying, m_vHashTable, m_nCapacity, leaked>>
      /\ vRemoved' = vRemoved \cup {<<m, heap[m_vHashTable[m]][c]>>}
      /\ heap' = [heap EXCEPT ![m_vHashTable[m]][c] = nullptr]
  BY DEF Remove
<1>4. Owned' /\ LeaksStay /\ \A x \in Maps \ {m} : Untouched(x)
  BY <1>1, <1>3, CellWritten DEF IInv
<1>5. vRemoved' \subseteq Maps \X Pairs
  BY <1>2, <1>3 DEF IInv, Lives
<1>6. Lives'
  BY <1>3, <1>4, <1>5, WriterLives
<1>. QED BY <1>4, <1>6 DEF IInv

\* So does clear.
LEMMA ClearStep ==
    ASSUME IInv, NEW m \in Maps, Clear(m)
    PROVE  IInv' /\ LeaksStay /\ \A x \in Maps \ {m} : Untouched(x)
<1>1. /\ DefaultCapacity \in Nat
      /\ EmptyTable(DefaultCapacity) \in [Cells(DefaultCapacity) -> Pairs \cup {nullptr}]
  BY ObjectsAssumption DEF EmptyTable
<1>2. PICK t \in Tables \ DOMAIN Deleted(heap, m) :
         /\ heap' = With(Deleted(heap, m), t, EmptyTable(DefaultCapacity))
         /\ m_vHashTable' = [m_vHashTable EXCEPT ![m] = t]
  BY DEF Clear
<1>3. /\ Writable(m) /\ UNCHANGED <<life, copying, vRemoved, leaked>>
      /\ m_nCapacity' = [m_nCapacity EXCEPT ![m] = DefaultCapacity]
  BY DEF Clear
<1>4. Owned' /\ LeaksStay /\ \A x \in Maps \ {m} : Untouched(x)
  BY <1>1, <1>2, <1>3, Rehoused DEF IInv
<1>5. Lives'
  BY <1>3, <1>4, WriterLives DEF IInv, Lives
<1>. QED BY <1>4, <1>5 DEF IInv

\* A caller that lets go of a result of remove keeps the invariant.
LEMMA ForgetStep ==
    ASSUME IInv, NEW r, Forget(r)
    PROVE  IInv'
  BY DEF Forget, IInv, Owned, Lives, Cells

\* Every step keeps the invariant.
LEMMA NextIInv == IInv /\ [Next]_ovars => IInv'
<1> SUFFICES ASSUME IInv, [Next]_ovars PROVE IInv'
  OBVIOUS
<1>1. ASSUME NEW m \in Maps, NEW P \in SUBSET Pairs, Construct(m, P) PROVE IInv'
  BY <1>1, ConstructStep
<1>2. ASSUME NEW m \in Maps, NEW src \in Maps, CopyBegin(m, src) PROVE IInv'
  BY <1>2, CopyBeginStep
<1>3. ASSUME NEW m \in Maps, NEW src \in Maps, Move(m, src) PROVE IInv'
  BY <1>3, MoveStep
<1>4. ASSUME NEW m \in Maps, CopyCell(m) PROVE IInv'
  BY <1>4, CopyCellStep
<1>5. ASSUME NEW m \in Maps, CopyEnd(m) PROVE IInv'
  BY <1>5, CopyEndStep
<1>6. ASSUME NEW m \in Maps, Race(m) PROVE IInv'
  BY <1>6, RaceStep
<1>7. ASSUME NEW m \in Maps, NEW n \in Nat, Extend(m, n) \/ ExtendThrows(m, n) PROVE IInv'
  BY <1>7, ExtendStep, ExtendThrowsStep
<1>8. ASSUME NEW m \in Maps, NEW n \in NewCapacities, Extend(m, n) \/ ExtendThrows(m, n)
      PROVE  IInv'
  BY <1>7, <1>8, ObjectsAssumption
<1>9. ASSUME NEW m \in Maps, InsertExtends(m) PROVE IInv'
  BY <1>7, <1>9, CapacitiesAreNumbers DEF InsertExtends
<1>10. ASSUME NEW m \in Maps, NEW p \in Pairs, Insert(m, p) PROVE IInv'
  BY <1>10, InsertStep
<1>11. ASSUME NEW m \in Maps, NEW c \in Cells(m_nCapacity[m]), Remove(m, c) PROVE IInv'
  BY <1>11, RemoveStep
<1>12. ASSUME NEW m \in Maps, Clear(m) PROVE IInv'
  BY <1>12, ClearStep
<1>13. ASSUME NEW m \in Maps, Destroy(m) PROVE IInv'
  BY <1>13, DestroyStep
<1>14. ASSUME NEW r \in vRemoved, Forget(r) PROVE IInv'
  BY <1>14, ForgetStep
<1>15. CASE UNCHANGED ovars
  BY <1>15 DEF ovars, IInv, Owned, Lives, Cells
<1>. QED
  BY <1>1, <1>2, <1>3, <1>4, <1>5, <1>6, <1>8, <1>9, <1>10, <1>11, <1>12, <1>13, <1>14,
     <1>15
  DEF Next, Calls

\* The inductive invariant: who owns which table, how long it is, and what the
\* life of a map says of it.
THEOREM ObjectsInvariant == Spec => []IInv
  BY InitIInv, NextIInv, PTL DEF Spec

\* The length of a map's table is the capacity its loops run to, for a map that
\* was moved from, too.
THEOREM TablesTyped == Spec => []TypeOK
<1>1. IInv => TypeOK
  BY DEF IInv, Owned, Lives, TypeOK
<1>. QED BY <1>1, ObjectsInvariant, PTL

\* No table is freed twice or used after it is freed, and none is leaked but by
\* an extension that threw (the raw pointer of hashmap.h:403).
THEOREM TablesOwned == Spec => []TablesHaveOneOwner
<1>1. IInv => TablesHaveOneOwner
  <2> SUFFICES ASSUME IInv PROVE TablesHaveOneOwner
    OBVIOUS
  <2>1. ASSUME NEW t \in DOMAIN heap \ leaked
        PROVE  \E m \in Maps : /\ m_vHashTable[m] = t /\ life[m] # "none"
                              /\ \A o \in Maps \ {m} : m_vHashTable[o] # t
    <3>1. PICK m \in Maps : m_vHashTable[m] = t
      BY DEF IInv, Owned
    <3>2. t # nullptr
      BY ObjectsAssumption DEF IInv, Owned
    <3>. QED BY <3>1, <3>2 DEF IInv, Owned, Lives
  <2>. QED BY <2>1 DEF TablesHaveOneOwner, IInv, Owned
<1>. QED BY <1>1, ObjectsInvariant, PTL
-----------------------------------------------------------------------------
(***************************************************************************)
(* Copies.                                                                 *)
(***************************************************************************)
\* The cells that copy m has so far are those of its source.
Agrees(m) ==
    \A c \in Cells(copying[m].i) :
        /\ c \in Cells(m_nCapacity[m])
        /\ heap[m_vHashTable[m]][c] = heap[m_vHashTable[copying[m].src]][c]

CopiesAgree == \A m \in Maps : life[m] = "copying" => Agrees(m)

\* It stays so if neither the copy nor its source is touched.
LEMMA AgreesStays ==
    ASSUME IInv, NEW m \in Maps, life[m] = "copying", Agrees(m), copying'[m] = copying[m],
           Untouched(m), Untouched(copying[m].src)
    PROVE  Agrees(m)'
<1> DEFINE s == copying[m].src
<1>1. s \in Maps /\ copying[m].i \in Nat /\ m_nCapacity[m] \in Nat
  BY DEF IInv, Lives, Owned
<1>2. CASE m_vHashTable[s] = nullptr
  <2>1. m_nCapacity[s] = 0
    BY <1>1, <1>2 DEF IInv, Owned
  <2>2. copying[m].i = 0
    BY <1>1, <2>1 DEF IInv, Lives
  <2>. QED BY <2>1, <2>2 DEF Agrees, Untouched, Cells
<1>3. CASE m_vHashTable[s] # nullptr
  BY <1>3 DEF Agrees, Untouched, Cells, IInv, Lives
<1>. QED BY <1>2, <1>3

\* A step that only touches maps of S, none of which is a copy or is copied,
\* leaves all copies in agreement.
LEMMA CopiesStay ==
    ASSUME IInv, CopiesAgree, NEW S \in SUBSET Maps,
           \A x \in S : life[x] # "copying" /\ ~ IsCopied(x),
           \A x \in Maps \ S : Untouched(x),
           copying' = copying,
           \A x \in Maps : life'[x] = "copying" => life[x] = "copying"
    PROVE  CopiesAgree'
<1>1. ASSUME NEW m \in Maps, life'[m] = "copying" PROVE Agrees(m)'
  <2>1. life[m] = "copying" /\ m \in Maps \ S
    BY <1>1
  <2>2. copying[m].src \in Maps \ S
    BY <2>1 DEF IsCopied, IInv, Lives
  <2>3. Agrees(m)
    BY <2>1 DEF CopiesAgree, Agrees
  <2>. QED BY <2>1, <2>2, <2>3, AgreesStays
<1>. QED BY <1>1 DEF CopiesAgree

\* The same for a step that touches one map.
LEMMA CopiesStayBut1 ==
    ASSUME IInv, CopiesAgree, NEW m \in Maps,
           life[m] # "copying", ~ IsCopied(m),
           \A x \in Maps \ {m} : Untouched(x),
           copying' = copying,
           \A x \in Maps : life'[x] = "copying" => life[x] = "copying"
    PROVE  CopiesAgree'
<1> DEFINE S == {m}
<1>1. S \in SUBSET Maps /\ \A x \in S : life[x] # "copying" /\ ~ IsCopied(x)
  OBVIOUS
<1>2. \A x \in Maps \ S : Untouched(x)
  OBVIOUS
<1>. HIDE DEF S
<1>. QED BY <1>1, <1>2, CopiesStay

\* A copy that begins has no cells yet; the others go on agreeing.
LEMMA CopyBeginAgrees ==
    ASSUME IInv, CopiesAgree, NEW m \in Maps, NEW src \in Maps, CopyBegin(m, src)
    PROVE  CopiesAgree'
<1>1. \A x \in Maps \ {m} : Untouched(x)
  BY CopyBeginStep
<1>2. /\ life[m] = "none" /\ life[src] = "alive" /\ src # m
      /\ copying'[m] = [src |-> src, i |-> 0]
      /\ \A x \in Maps \ {m} : copying'[x] = copying[x] /\ life'[x] = life[x]
  BY DEF CopyBegin, IsAlive, IInv, Lives
<1>3. ASSUME NEW x \in Maps, life'[x] = "copying" PROVE Agrees(x)'
  <2>1. CASE x = m
    BY <1>1, <1>2, <2>1 DEF Agrees, Cells, Untouched
  <2>2. CASE x # m
    <3>1. life[x] = "copying" /\ Untouched(x) /\ copying'[x] = copying[x]
      BY <1>1, <1>2, <1>3, <2>2
    <3>2. copying[x].src \in Maps \ {m}
      BY <1>2, <3>1 DEF IInv, Lives
    <3>3. Agrees(x)
      BY <3>1 DEF CopiesAgree, Agrees
    <3>. QED BY <1>1, <3>1, <3>2, <3>3, AgreesStays
  <2>. QED BY <2>1, <2>2
<1>. QED BY <1>3 DEF CopiesAgree

\* A turn of the loop adds a cell that agrees.
LEMMA CopyCellAgrees ==
    ASSUME IInv, CopiesAgree, NEW m \in Maps, CopyCell(m)
    PROVE  CopiesAgree'
<1> DEFINE s == copying[m].src
           i == copying[m].i
           p == heap[m_vHashTable[s]][i]
<1>1. /\ \A x \in Maps \ {m} : Untouched(x)
      /\ m_nCapacity' = m_nCapacity /\ m_vHashTable' = m_vHashTable
      /\ life' = life /\ i \in Cells(m_nCapacity[m])
      /\ copying' = [copying EXCEPT ![m].i = @ + 1]
      /\ m_vHashTable[s] # nullptr
      /\ heap'[m_vHashTable[m]] = [heap[m_vHashTable[m]] EXCEPT ![i] = p]
  BY CopyCellStep
<1>2. /\ life[m] = "copying" /\ m_vHashTable[m] # nullptr /\ Agrees(m)
      /\ s \in Maps /\ s # m /\ i \in Nat /\ m_nCapacity[m] \in Nat
  BY DEF CopyCell, IInv, Lives, Owned, CopiesAgree
<1>3. copying'[m].src = s /\ copying'[m].i = i + 1
  BY <1>1, <1>2 DEF IInv, Lives
<1>4. heap'[m_vHashTable[s]] = heap[m_vHashTable[s]]
  BY <1>1, <1>2 DEF Untouched
<1>5. heap[m_vHashTable[m]] \in [Cells(m_nCapacity[m]) -> Pairs \cup {nullptr}]
  BY <1>2 DEF IInv, Owned
<1>6. ASSUME NEW c \in Cells(i + 1)
      PROVE  /\ c \in Cells(m_nCapacity[m])
             /\ heap'[m_vHashTable[m]][c] = heap'[m_vHashTable[s]][c]
  <2>1. CASE c = i
    BY <1>1, <1>4, <1>5, <2>1
  <2>2. CASE c # i
    <3>1. c \in Cells(i)
      BY <1>2, <2>2 DEF Cells
    <3>2. /\ c \in Cells(m_nCapacity[m])
          /\ heap[m_vHashTable[m]][c] = heap[m_vHashTable[s]][c]
      BY <1>2, <3>1 DEF Agrees
    <3>. QED BY <1>1, <1>4, <1>5, <2>2, <3>2
  <2>. QED BY <2>1, <2>2
<1>7. Agrees(m)'
  <2>. HIDE DEF s, i
  <2>. QED BY <1>1, <1>3, <1>6 DEF Agrees, Cells
<1>8. ASSUME NEW x \in Maps \ {m}, life[x] = "copying" PROVE Agrees(x)'
  <2>1. Untouched(x) /\ copying'[x] = copying[x] /\ Agrees(x)
    BY <1>1, <1>8 DEF CopiesAgree, IInv, Lives
  <2>2. copying[x].src \in Maps \ {m}
    BY <1>2, <1>8 DEF IInv, Lives
  <2>. QED BY <1>1, <1>8, <2>1, <2>2, AgreesStays
<1>. QED BY <1>1, <1>7, <1>8 DEF CopiesAgree

\* Nor may a map be written to that is a copy in the making or the source of one.
LEMMA CopiesStayWritten ==
    ASSUME IInv, CopiesAgree, NEW m \in Maps, Writable(m),
           \A x \in Maps \ {m} : Untouched(x),
           UNCHANGED <<life, copying>>
    PROVE  CopiesAgree'
<1>1. life[m] # "copying" /\ ~ IsCopied(m)
  BY DEF Writable, IsAlive
<1>. QED BY <1>1, CopiesStayBut1

\* Every step leaves copies in agreement with their sources.
LEMMA NextAgrees == IInv /\ CopiesAgree /\ [Next]_ovars => CopiesAgree'
<1> SUFFICES ASSUME IInv, CopiesAgree, [Next]_ovars PROVE CopiesAgree'
  OBVIOUS
<1>1. ASSUME NEW m \in Maps, NEW P \in SUBSET Pairs, Construct(m, P) PROVE CopiesAgree'
  <2>1. life[m] # "alive" /\ life[m] # "copying"
    BY <1>1 DEF Construct
  <2>2. ~ IsCopied(m)
    BY <2>1, SourcesAlive
  <2>3. copying' = copying /\ \A x \in Maps : life'[x] = "copying" => life[x] = "copying"
    BY <1>1 DEF Construct, IInv, Lives
  <2>4. \A x \in Maps \ {m} : Untouched(x)
    BY <1>1, ConstructStep
  <2>. QED BY <2>1, <2>2, <2>3, <2>4, CopiesStayBut1
<1>2. ASSUME NEW m \in Maps, NEW src \in Maps, CopyBegin(m, src) PROVE CopiesAgree'
  BY <1>2, CopyBeginAgrees
<1>3. ASSUME NEW m \in Maps, NEW src \in Maps, Move(m, src) PROVE CopiesAgree'
  <2> DEFINE S == {m, src}
  <2>1. life[m] = "none" /\ life[src] = "alive" /\ ~ IsCopied(src) /\ ~ IsCopied(m)
    BY <1>3, SourcesAlive DEF Move, Writable, IsAlive
  <2>2. S \in SUBSET Maps /\ \A x \in S : life[x] # "copying" /\ ~ IsCopied(x)
    BY <2>1
  <2>3. copying' = copying /\ \A x \in Maps : life'[x] = "copying" => life[x] = "copying"
    BY <1>3 DEF Move, IInv, Lives
  <2>4. \A x \in Maps \ S : Untouched(x)
    BY <1>3, MoveStep
  <2>. HIDE DEF S
  <2>. QED BY <2>2, <2>3, <2>4, CopiesStay
<1>4. ASSUME NEW m \in Maps, CopyCell(m) PROVE CopiesAgree'
  BY <1>4, CopyCellAgrees
<1>5. ASSUME NEW m \in Maps, CopyEnd(m) \/ Race(m) PROVE CopiesAgree'
  <2>1. /\ UNCHANGED <<heap, m_vHashTable, m_nCapacity>>
        /\ \A x \in Maps : life'[x] = "copying" =>
              life[x] = "copying" /\ copying'[x] = copying[x]
    BY <1>5 DEF CopyEnd, Race, IInv, Lives
  <2>. QED BY <2>1 DEF CopiesAgree, Agrees, Cells
<1>6. ASSUME NEW m \in Maps, NEW n \in Nat, Extend(m, n) \/ ExtendThrows(m, n)
      PROVE  CopiesAgree'
  <2>1. Writable(m) /\ UNCHANGED <<life, copying>>
    BY <1>6 DEF Extend, ExtendThrows
  <2>2. \A x \in Maps \ {m} : Untouched(x)
    BY <1>6, ExtendStep, ExtendThrowsStep
  <2>. QED BY <2>1, <2>2, CopiesStayWritten
<1>7. ASSUME NEW m \in Maps, NEW n \in NewCapacities, Extend(m, n) \/ ExtendThrows(m, n)
      PROVE  CopiesAgree'
  BY <1>6, <1>7, ObjectsAssumption
<1>8. ASSUME NEW m \in Maps, InsertExtends(m) PROVE CopiesAgree'
  BY <1>6, <1>8, CapacitiesAreNumbers DEF InsertExtends
<1>9. ASSUME NEW m \in Maps, NEW p \in Pairs, Insert(m, p) PROVE CopiesAgree'
  BY <1>9, InsertStep, CopiesStayWritten DEF Insert
<1>10. ASSUME NEW m \in Maps, NEW c \in Cells(m_nCapacity[m]), Remove(m, c)
       PROVE  CopiesAgree'
  BY <1>10, RemoveStep, CopiesStayWritten DEF Remove
<1>11. ASSUME NEW m \in Maps, Clear(m) PROVE CopiesAgree'
  BY <1>11, ClearStep, CopiesStayWritten DEF Clear
<1>12. ASSUME NEW m \in Maps, Destroy(m) PROVE CopiesAgree'
  <2>1. \A x \in Maps \ {m} : Untouched(x)
    BY <1>12, DestroyStep
  <2>2. /\ life[m] = "alive" /\ ~ IsCopied(m) /\ copying' = copying
        /\ life' = [life EXCEPT ![m] = "none"]
    BY <1>12 DEF Destroy, Writable, IsAlive
  <2>3. \A x \in Maps : life'[x] = "copying" => life[x] = "copying"
    BY <2>2 DEF IInv, Lives
  <2>. QED BY <2>1, <2>2, <2>3, CopiesStayBut1
<1>13. ASSUME NEW r \in vRemoved, Forget(r) PROVE CopiesAgree'
  BY <1>13 DEF Forget, CopiesAgree, Agrees, Cells
<1>14. CASE UNCHANGED ovars
  BY <1>14 DEF ovars, CopiesAgree, Agrees, Cells
<1>. QED
  BY <1>1, <1>2, <1>3, <1>4, <1>5, <1>7, <1>8, <1>9, <1>10, <1>11, <1>12, <1>13, <1>14
  DEF Next, Calls

\* A copy that is made without a data race holds, cell by cell, what its source does.
LEMMA CopiesAgreeAlways == Spec => []CopiesAgree
<1>1. Init => CopiesAgree
  BY DEF Init, CopiesAgree
<1>. QED BY <1>1, NextAgrees, ObjectsInvariant, PTL DEF Spec
-----------------------------------------------------------------------------
(***************************************************************************)
(* The maps implement MapCollections.                                      *)
(***************************************************************************)
\* What MapCollections calls contents.
Contents == [m \in Maps |-> IF IsAlive(m) THEN PairsOf(m) ELSE nullptr]

\* The table has each pair in one cell at most.
OncePerPair(table) ==
    \A c, d \in DOMAIN table : c # d /\ table[c] = table[d] => table[c] = nullptr

Single(m) ==
    life[m] = "alive" /\ m_vHashTable[m] # nullptr => OncePerPair(heap[m_vHashTable[m]])

AllSingle == \A m \in Maps : Single(m)

\* A placement holds the pairs it was made for, each in one cell.
LEMMA PlacementHolds ==
    ASSUME NEW P \in SUBSET Pairs, NEW n \in Nat, NEW table \in Placements(P, n)
    PROVE  OncePerPair(table) /\ PairsIn(table) = P
<1>1. /\ table \in [Cells(n) -> P \cup {nullptr}]
      /\ \A p \in P : \E c \in Cells(n) :
            table[c] = p /\ \A d \in Cells(n) \ {c} : table[d] # p
  BY DEF Placements
<1>2. nullptr \notin P
  BY ObjectsAssumption
<1>3. OncePerPair(table)
  BY <1>1 DEF OncePerPair
<1>4. PairsIn(table) = P
  BY <1>1, <1>2 DEF PairsIn
<1>. QED BY <1>3, <1>4

\* A pair that is new is put into a free cell.
LEMMA CellFilled ==
    ASSUME NEW table, table = [c \in DOMAIN table |-> table[c]], OncePerPair(table),
           NEW c \in DOMAIN table, table[c] = nullptr,
           NEW p \in Pairs, p \notin PairsIn(table)
    PROVE  /\ OncePerPair([table EXCEPT ![c] = p])
           /\ PairsIn([table EXCEPT ![c] = p]) = PairsIn(table) \cup {p}
<1> DEFINE new == [table EXCEPT ![c] = p]
<1>1. /\ DOMAIN new = DOMAIN table /\ new[c] = p
      /\ \A d \in DOMAIN table \ {c} : new[d] = table[d]
  OBVIOUS
<1>2. p # nullptr /\ \A d \in DOMAIN table : table[d] # p
  BY ObjectsAssumption DEF PairsIn
<1>. HIDE DEF new
<1>3. OncePerPair(new)
  BY <1>1, <1>2 DEF OncePerPair
<1>4. PairsIn(new) = PairsIn(table) \cup {p}
  BY <1>1, <1>2 DEF PairsIn
<1>. QED BY <1>3, <1>4 DEF new

\* A cell is emptied.
LEMMA CellEmptied ==
    ASSUME NEW table, table = [c \in DOMAIN table |-> table[c]], OncePerPair(table),
           NEW c \in DOMAIN table, table[c] # nullptr
    PROVE  /\ OncePerPair([table EXCEPT ![c] = nullptr])
           /\ PairsIn([table EXCEPT ![c] = nullptr]) = PairsIn(table) \ {table[c]}
<1> DEFINE new == [table EXCEPT ![c] = nullptr]
<1>1. /\ DOMAIN new = DOMAIN table /\ new[c] = nullptr
      /\ \A d \in DOMAIN table \ {c} : new[d] = table[d]
  OBVIOUS
<1>. HIDE DEF new
<1>2. \A d \in DOMAIN table \ {c} : table[d] # table[c]
  BY DEF OncePerPair
<1>3. OncePerPair(new)
  BY <1>1 DEF OncePerPair
<1>4. PairsIn(new) = PairsIn(table) \ {table[c]}
  BY <1>1, <1>2 DEF PairsIn
<1>. QED BY <1>3, <1>4 DEF new

\* What a map that exists holds; NoMap is no set of pairs.
LEMMA ContentsExist ==
    ASSUME IInv, NEW m \in Maps
    PROVE  Contents[m] # nullptr <=> life[m] = "alive"
<1>1. PairsOf(m) # nullptr
  BY PairsOfArePairs, ObjectsAssumption DEF IInv
<1>. QED BY <1>1 DEF Contents, IsAlive

\* A map the step does not touch holds what it did.
LEMMA ContentsStay ==
    ASSUME NEW x \in Maps, Single(x), Untouched(x), life'[x] = life[x]
    PROVE  Single(x)' /\ Contents'[x] = Contents[x]
<1>1. PairsOf(x)' = PairsOf(x)
  BY DEF Untouched, PairsOf, PairsIn
<1>. QED BY <1>1 DEF Untouched, Single, Contents, IsAlive, OncePerPair

\* A step that touches one map changes what that map holds and nothing else.
LEMMA ContentsBut1 ==
    ASSUME AllSingle, NEW m \in Maps, Single(m)',
           \A x \in Maps \ {m} : Untouched(x) /\ life'[x] = life[x]
    PROVE  /\ AllSingle'
           /\ Contents' = [Contents EXCEPT ![m] = Contents'[m]]
<1>1. \A x \in Maps \ {m} : Single(x)' /\ Contents'[x] = Contents[x]
  BY ContentsStay DEF AllSingle
<1>2. AllSingle'
  BY <1>1 DEF AllSingle
<1>3. /\ Contents' = [x \in Maps |-> Contents'[x]]
      /\ Contents = [x \in Maps |-> Contents[x]]
  BY DEF Contents
<1>. QED BY <1>1, <1>2, <1>3

\* Construction is a step Create.
LEMMA ConstructCreates ==
    ASSUME IInv, AllSingle, NEW m \in Maps, NEW P \in SUBSET Pairs, Construct(m, P)
    PROVE  AllSingle' /\ MC!Create(m, P)
<1>1. PICK n \in ListCapacities(Cardinality(P)) :
         \E table \in Placements(P, n) : NewTable(m, table, n)
  BY DEF Construct
<1>2. n \in Nat
  BY <1>1, CapacitiesAreNumbers DEF Construct
<1>3. /\ life[m] = "none" /\ m_vHashTable[m] = nullptr
      /\ life' = [life EXCEPT ![m] = "alive"] /\ UNCHANGED <<vRemoved, leaked>>
      /\ \A p \in P : ~ Alive(p)
  BY DEF Construct, IInv, Lives
<1>4. PICK table \in Placements(P, n) : NewTable(m, table, n)
  BY <1>1
<1>5. table \in [Cells(n) -> Pairs \cup {nullptr}] /\ OncePerPair(table) /\ PairsIn(table) = P
  BY <1>2, <1>4, PlacementsAreTables, PlacementHolds
<1>6. /\ m_vHashTable'[m] # nullptr /\ heap'[m_vHashTable'[m]] = table
      /\ \A x \in Maps \ {m} : Untouched(x)
  BY <1>2, <1>3, <1>4, <1>5, Housed DEF IInv
<1>7. Single(m)' /\ Contents'[m] = P
  BY <1>3, <1>5, <1>6 DEF Single, OncePerPair, Contents, IsAlive, PairsOf, PairsIn, IInv, Lives
<1>8. AllSingle' /\ Contents' = [Contents EXCEPT ![m] = P]
  BY <1>3, <1>6, <1>7, ContentsBut1 DEF IInv, Lives
<1>9. MC!Exists(m) = FALSE
  BY <1>3 DEF MC!Exists, IsAlive
<1>10. ASSUME NEW p \in P PROVE MC!IsNew(p)
  <2>1. /\ \A t \in DOMAIN heap : p \notin PairsIn(heap[t])
        /\ \A x \in Maps : <<x, p>> \notin vRemoved
    BY <1>3 DEF Alive
  <2>2. \A x \in Maps : p \notin PairsOf(x)
    BY <2>1 DEF PairsOf, IInv, Owned
  <2>. QED BY <2>1, <2>2 DEF MC!IsNew, MC!Exists
<1>. QED BY <1>3, <1>8, <1>9, <1>10 DEF MC!Create, Contents

\* The copy comes into being, for others, at the end of its constructor.
LEMMA CopyEndCopies ==
    ASSUME IInv, CopiesAgree, AllSingle, NEW m \in Maps, CopyEnd(m)
    PROVE  AllSingle' /\ MC!Copy(m, copying[m].src)
<1> DEFINE s == copying[m].src
<1>1. /\ life[m] = "copying" /\ copying[m].i = m_nCapacity[m]
      /\ life' = [life EXCEPT ![m] = "alive"]
      /\ UNCHANGED <<heap, m_vHashTable, m_nCapacity, vRemoved, leaked>>
  BY DEF CopyEnd
<1>2. /\ s \in Maps /\ life[s] = "alive" /\ m_vHashTable[m] # nullptr
      /\ Agrees(m) /\ m_nCapacity[s] = m_nCapacity[m]
  BY <1>1 DEF IInv, Lives, CopiesAgree
<1>3. heap[m_vHashTable[m]] \in [Cells(m_nCapacity[m]) -> Pairs \cup {nullptr}]
  BY <1>2 DEF IInv, Owned
<1>4. OncePerPair(heap[m_vHashTable[m]]) /\ PairsOf(m) = PairsOf(s)
  <2>1. CASE m_vHashTable[s] = nullptr
    <3>1. Cells(m_nCapacity[m]) = {}
      BY <1>2, <2>1 DEF IInv, Owned, Cells
    <3>. QED BY <1>2, <1>3, <2>1, <3>1 DEF PairsOf, PairsIn, OncePerPair
  <2>2. CASE m_vHashTable[s] # nullptr
    <3>1. /\ heap[m_vHashTable[s]] \in [Cells(m_nCapacity[m]) -> Pairs \cup {nullptr}]
          /\ OncePerPair(heap[m_vHashTable[s]])
      BY <1>2, <2>2 DEF IInv, Owned, AllSingle, Single
    <3>2. heap[m_vHashTable[m]] = heap[m_vHashTable[s]]
      BY <1>1, <1>2, <1>3, <3>1 DEF Agrees
    <3>. QED BY <1>2, <2>2, <3>1, <3>2 DEF PairsOf
  <2>. QED BY <2>1, <2>2
<1>5. Contents'[m] = Contents[s] /\ Single(m)'
  <2>1. PairsOf(m)' = PairsOf(m) /\ life'[m] = "alive"
    BY <1>1 DEF PairsOf, PairsIn, IInv, Lives
  <2>2. Contents'[m] = Contents[s]
    BY <1>2, <1>4, <2>1 DEF Contents, IsAlive
  <2>3. Single(m)'
    BY <1>1, <1>4 DEF Single, OncePerPair
  <2>. QED BY <2>2, <2>3
<1>6. \A x \in Maps \ {m} : Untouched(x) /\ life'[x] = life[x]
  BY <1>1 DEF Untouched, IInv, Lives
<1>7. AllSingle' /\ Contents' = [Contents EXCEPT ![m] = Contents[s]]
  BY <1>5, <1>6, ContentsBut1
<1>8. Contents[m] = nullptr /\ Contents[s] # nullptr
  BY <1>1, <1>2, ContentsExist DEF Contents, IsAlive
<1>. QED BY <1>1, <1>7, <1>8 DEF MC!Copy, MC!Exists, Contents

\* A move is a step Move.
LEMMA MoveMoves ==
    ASSUME IInv, AllSingle, NEW m \in Maps, NEW src \in Maps, Move(m, src)
    PROVE  AllSingle' /\ MC!Move(m, src)
<1>1. /\ life[m] = "none" /\ life[src] = "alive" /\ src # m
      /\ heap' = heap /\ UNCHANGED <<vRemoved, leaked>>
      /\ life' = [life EXCEPT ![m] = "alive"]
      /\ m_vHashTable' = [m_vHashTable EXCEPT ![m] = m_vHashTable[src], ![src] = nullptr]
  BY DEF Move, Writable, IsAlive
<1>2. \A x \in Maps \ {m, src} : Untouched(x) /\ life'[x] = life[x]
  BY <1>1, MoveStep DEF IInv, Lives
<1>3. /\ m_vHashTable'[m] = m_vHashTable[src] /\ m_vHashTable'[src] = nullptr
      /\ life'[m] = "alive" /\ life'[src] = "alive"
  BY <1>1 DEF IInv, Lives, Owned
<1>4. PairsOf(m)' = PairsOf(src) /\ PairsOf(src)' = {}
  BY <1>1, <1>3 DEF PairsOf, PairsIn
<1>5. /\ Contents'[m] = Contents[src] /\ Contents'[src] = {}
      /\ \A x \in Maps \ {m, src} : Contents'[x] = Contents[x]
  BY <1>1, <1>2, <1>3, <1>4, ContentsStay DEF AllSingle, Contents, IsAlive
<1>6. Contents' = [Contents EXCEPT ![m] = Contents[src], ![src] = {}]
  <2>1. /\ Contents' = [x \in Maps |-> Contents'[x]]
        /\ Contents = [x \in Maps |-> Contents[x]]
    BY DEF Contents
  <2>. QED BY <1>1, <1>5, <2>1
<1>7. AllSingle'
  <2>1. Single(src)'
    BY <1>3 DEF Single
  <2>2. Single(m)'
    <3>1. m_vHashTable[src] # nullptr => OncePerPair(heap[m_vHashTable[src]])
      BY <1>1 DEF AllSingle, Single
    <3>2. heap'[m_vHashTable'[m]] = heap[m_vHashTable[src]]
      BY <1>1, <1>3
    <3>. QED BY <1>3, <3>1, <3>2 DEF Single, OncePerPair
  <2>3. \A x \in Maps \ {m, src} : Single(x)'
    BY <1>2, ContentsStay DEF AllSingle
  <2>. QED BY <2>1, <2>2, <2>3 DEF AllSingle
<1>8. Contents[m] = nullptr /\ Contents[src] # nullptr
  BY <1>1, ContentsExist DEF Contents, IsAlive
<1>. QED BY <1>1, <1>6, <1>7, <1>8 DEF MC!Move, MC!Exists, Contents

\* Destruction is a step Destroy.
LEMMA DestroyDestroys ==
    ASSUME IInv, AllSingle, NEW m \in Maps, Destroy(m)
    PROVE  AllSingle' /\ MC!Destroy(m)
<1>1. /\ life[m] = "alive" /\ life' = [life EXCEPT ![m] = "none"]
      /\ UNCHANGED <<vRemoved, leaked>>
  BY DEF Destroy, Writable, IsAlive
<1>2. \A x \in Maps \ {m} : Untouched(x) /\ life'[x] = life[x]
  BY <1>1, DestroyStep DEF IInv, Lives
<1>3. Single(m)' /\ Contents'[m] = nullptr
  BY <1>1 DEF Single, Contents, IsAlive, IInv, Lives
<1>4. AllSingle' /\ Contents' = [Contents EXCEPT ![m] = nullptr]
  BY <1>2, <1>3, ContentsBut1
<1>5. Contents[m] # nullptr
  BY <1>1, ContentsExist
<1>. QED BY <1>1, <1>4, <1>5 DEF MC!Destroy, MC!Exists, Contents

\* Extending a map leaves what it holds.
LEMMA ExtendStutters ==
    ASSUME IInv, AllSingle, NEW m \in Maps, NEW n \in Nat, Extend(m, n)
    PROVE  AllSingle' /\ Contents' = Contents /\ UNCHANGED <<vRemoved, leaked>>
<1>1. PICK table \in Placements(PairsOf(m), n) : Replace(m, table, n)
  BY DEF Extend, Rehashed
<1>2. PairsOf(m) \in SUBSET Pairs
  BY PairsOfArePairs DEF IInv
<1>3. /\ table \in [Cells(n) -> Pairs \cup {nullptr}]
      /\ OncePerPair(table) /\ PairsIn(table) = PairsOf(m)
  <2> DEFINE P == PairsOf(m)
  <2>1. P \in SUBSET Pairs /\ table \in Placements(P, n)
    BY <1>1, <1>2
  <2>. HIDE DEF P
  <2>2. /\ table \in [Cells(n) -> Pairs \cup {nullptr}]
        /\ OncePerPair(table) /\ PairsIn(table) = P
    BY <2>1, PlacementHolds, PlacementsAreTables
  <2>. QED BY <2>2 DEF P
<1>4. /\ m_vHashTable'[m] # nullptr /\ heap'[m_vHashTable'[m]] = table
      /\ \A x \in Maps \ {m} : Untouched(x)
  BY <1>1, <1>3, Replaced DEF IInv, Extend
<1>5. life[m] = "alive" /\ UNCHANGED <<life, vRemoved, leaked>>
  BY DEF Extend, Writable, IsAlive
<1>6. Single(m)' /\ Contents'[m] = Contents[m]
  BY <1>3, <1>4, <1>5, ZenonT(30) DEF Single, OncePerPair, Contents, IsAlive, PairsOf, PairsIn
<1>7. AllSingle' /\ Contents' = [Contents EXCEPT ![m] = Contents[m]]
  BY <1>4, <1>5, <1>6, ContentsBut1
<1>. QED BY <1>5, <1>7 DEF Contents

\* What stays of a map's pairs when an extension that throws has moved those of P.
LEMMA PairsLeft ==
    ASSUME NEW table, NEW P, nullptr \notin P
    PROVE  /\ PairsIn(Without(table, P)) = PairsIn(table) \ P
           /\ OncePerPair(table) => OncePerPair(Without(table, P))
<1>1. /\ DOMAIN Without(table, P) = DOMAIN table
      /\ \A c \in DOMAIN table :
            Without(table, P)[c] = IF table[c] \in P THEN nullptr ELSE table[c]
  BY DEF Without
<1>2. PairsIn(Without(table, P)) = PairsIn(table) \ P
  BY <1>1 DEF PairsIn
<1>3. OncePerPair(table) => OncePerPair(Without(table, P))
  BY <1>1 DEF OncePerPair
<1>. QED BY <1>2, <1>3

\* An extension that throws loses pairs.
LEMMA ExtendThrowsLoses ==
    ASSUME IInv, AllSingle, NEW m \in Maps, NEW n \in Nat, ExtendThrows(m, n)
    PROVE  AllSingle' /\ \E P \in SUBSET Pairs : MC!Lose(m, P)
<1>1. PICK P \in (SUBSET PairsOf(m)) \ {PairsOf(m)}, t \in Tables \ DOMAIN heap :
         /\ \E table \in Placements(P, n) :
               heap' = With([heap EXCEPT ![m_vHashTable[m]] = Without(@, P)], t, table)
         /\ leaked' = leaked \cup {t}
  BY DEF ExtendThrows
<1>2. PICK table \in Placements(P, n) :
         heap' = With([heap EXCEPT ![m_vHashTable[m]] = Without(@, P)], t, table)
  BY <1>1
<1>3. P \in SUBSET Pairs /\ nullptr \notin P
  BY PairsOfArePairs, ObjectsAssumption DEF IInv
<1>4. table \in [Cells(n) -> Pairs \cup {nullptr}]
  BY <1>2, <1>3, PlacementsAreTables
<1>5. /\ life[m] = "alive" /\ UNCHANGED <<life, vRemoved, m_vHashTable, m_nCapacity>>
  BY DEF ExtendThrows, Writable, IsAlive
<1>6. /\ m_vHashTable[m] # nullptr
      /\ heap'[m_vHashTable[m]] = Without(heap[m_vHashTable[m]], P)
      /\ \A x \in Maps \ {m} : Untouched(x)
  BY <1>1, <1>2, <1>4, <1>5, TableLeft DEF IInv
<1>7. /\ m_vHashTable'[m] # nullptr
      /\ OncePerPair(heap'[m_vHashTable'[m]])
      /\ PairsIn(heap'[m_vHashTable'[m]]) = PairsOf(m) \ P
  <2>1. /\ OncePerPair(heap[m_vHashTable[m]])
        /\ PairsOf(m) = PairsIn(heap[m_vHashTable[m]])
    BY <1>5, <1>6 DEF AllSingle, Single, PairsOf
  <2>2. heap'[m_vHashTable'[m]] = Without(heap[m_vHashTable[m]], P)
    BY <1>5, <1>6
  <2>. QED BY <1>3, <1>5, <1>6, <2>1, <2>2, PairsLeft
<1>8. Single(m)' /\ Contents'[m] = Contents[m] \ P
  BY <1>5, <1>7 DEF Single, OncePerPair, Contents, IsAlive, PairsOf, PairsIn
<1>9. AllSingle' /\ Contents' = [Contents EXCEPT ![m] = Contents[m] \ P]
  BY <1>5, <1>6, <1>8, ContentsBut1
<1>10. Contents[m] # nullptr /\ P \subseteq Contents[m] /\ P # Contents[m]
  BY <1>5, ContentsExist DEF Contents, IsAlive
<1>11. leaked \subseteq leaked' /\ leaked' # leaked
  BY <1>1 DEF IInv, Owned
<1>12. MC!Lose(m, P)
  BY <1>5, <1>9, <1>10, <1>11 DEF MC!Lose, MC!Exists, Contents
<1>. QED BY <1>3, <1>9, <1>12

\* clear is a step Clear.
LEMMA ClearClears ==
    ASSUME IInv, AllSingle, NEW m \in Maps, Clear(m)
    PROVE  AllSingle' /\ MC!Clear(m)
<1> DEFINE empty == EmptyTable(DefaultCapacity)
<1>1. /\ DefaultCapacity \in Nat
      /\ empty \in [Cells(DefaultCapacity) -> Pairs \cup {nullptr}]
      /\ OncePerPair(empty) /\ PairsIn(empty) = {}
  BY ObjectsAssumption DEF EmptyTable, OncePerPair, PairsIn
<1>2. PICK t \in Tables \ DOMAIN Deleted(heap, m) :
         /\ heap' = With(Deleted(heap, m), t, empty)
         /\ m_vHashTable' = [m_vHashTable EXCEPT ![m] = t]
  BY DEF Clear
<1>3. /\ life[m] = "alive" /\ UNCHANGED <<life, vRemoved, leaked>>
      /\ m_nCapacity' = [m_nCapacity EXCEPT ![m] = DefaultCapacity]
  BY DEF Clear, Writable, IsAlive
<1>. HIDE DEF empty
<1>4. /\ m_vHashTable'[m] # nullptr /\ heap'[m_vHashTable'[m]] = empty
      /\ \A x \in Maps \ {m} : Untouched(x)
  BY <1>1, <1>2, <1>3, Rehoused DEF IInv
<1>5. Single(m)' /\ Contents'[m] = {}
  BY <1>1, <1>3, <1>4 DEF Single, OncePerPair, Contents, IsAlive, PairsOf, PairsIn
<1>6. AllSingle' /\ Contents' = [Contents EXCEPT ![m] = {}]
  BY <1>3, <1>4, <1>5, ContentsBut1
<1>7. Contents[m] # nullptr
  BY <1>3, ContentsExist
<1>. QED BY <1>3, <1>6, <1>7 DEF MC!Clear, MC!Exists, Contents

\* An insertion into a free cell is a step Insert.
LEMMA InsertInserts ==
    ASSUME IInv, AllSingle, NEW m \in Maps, NEW p \in Pairs, Insert(m, p)
    PROVE  AllSingle' /\ MC!Insert(m, p)
<1> DEFINE table == heap[m_vHashTable[m]]
<1>1. /\ life[m] = "alive" /\ ~ Alive(p)
      /\ UNCHANGED <<life, vRemoved, m_vHashTable, m_nCapacity, leaked>>
  BY DEF Insert, Writable, IsAlive
<1>2. \A x \in Maps \ {m} : Untouched(x)
  BY InsertStep
<1>3. /\ \A t \in DOMAIN heap : p \notin PairsIn(heap[t])
      /\ \A x \in Maps : <<x, p>> \notin vRemoved
  BY <1>1 DEF Alive
<1>4. \A x \in Maps : p \notin PairsOf(x)
  BY <1>3 DEF PairsOf, IInv, Owned
<1>5. PICK c \in Cells(m_nCapacity[m]) :
         table[c] = nullptr /\ heap' = [heap EXCEPT ![m_vHashTable[m]][c] = p]
  BY DEF Insert
<1>6. m_vHashTable[m] # nullptr
  BY <1>5 DEF IInv, Owned, Cells
<1>7. /\ table \in [Cells(m_nCapacity[m]) -> Pairs \cup {nullptr}]
      /\ OncePerPair(table) /\ PairsIn(table) = PairsOf(m)
  BY <1>1, <1>6 DEF IInv, Owned, AllSingle, Single, PairsOf
<1>8. heap'[m_vHashTable[m]] = [table EXCEPT ![c] = p]
  BY <1>1, <1>5, <1>6, CellWritten DEF IInv
<1>. HIDE DEF table
<1>9. /\ OncePerPair([table EXCEPT ![c] = p])
      /\ PairsIn([table EXCEPT ![c] = p]) = PairsIn(table) \cup {p}
  <2>1. /\ table = [d \in DOMAIN table |-> table[d]] /\ c \in DOMAIN table
        /\ p \notin PairsIn(table) /\ table[c] = nullptr
    BY <1>4, <1>5, <1>7
  <2>. QED BY <1>7, <2>1, CellFilled, ZenonT(30)
<1>10. /\ m_vHashTable'[m] # nullptr
       /\ OncePerPair(heap'[m_vHashTable'[m]])
       /\ PairsIn(heap'[m_vHashTable'[m]]) = PairsOf(m) \cup {p}
  BY <1>1, <1>6, <1>7, <1>8, <1>9
<1>11. Single(m)' /\ Contents'[m] = Contents[m] \cup {p}
  BY <1>1, <1>10 DEF Single, OncePerPair, Contents, IsAlive, PairsOf, PairsIn
<1>12. AllSingle' /\ Contents' = [Contents EXCEPT ![m] = Contents[m] \cup {p}]
  BY <1>1, <1>2, <1>11, ContentsBut1
<1>13. Contents[m] # nullptr
  BY <1>1, ContentsExist
<1>14. MC!IsNew(p)
  BY <1>3, <1>4 DEF MC!IsNew, MC!Exists
<1>. QED BY <1>1, <1>12, <1>13, <1>14 DEF MC!Insert, MC!Exists, Contents

\* A removal is a step Remove.
LEMMA RemoveRemoves ==
    ASSUME IInv, AllSingle, NEW m \in Maps, NEW c \in Cells(m_nCapacity[m]), Remove(m, c)
    PROVE  AllSingle' /\ \E p \in Pairs : MC!Remove(m, p)
<1> DEFINE table == heap[m_vHashTable[m]]
           p == table[c]
<1>1. m_vHashTable[m] # nullptr
  BY DEF IInv, Owned, Cells
<1>2. /\ life[m] = "alive" /\ UNCHANGED <<life, m_vHashTable, m_nCapacity, leaked>>
      /\ p # nullptr /\ vRemoved' = vRemoved \cup {<<m, p>>}
      /\ heap' = [heap EXCEPT ![m_vHashTable[m]][c] = nullptr]
  BY DEF Remove, Writable, IsAlive
<1>3. /\ table \in [Cells(m_nCapacity[m]) -> Pairs \cup {nullptr}]
      /\ OncePerPair(table) /\ PairsIn(table) = PairsOf(m)
  BY <1>1, <1>2 DEF IInv, Owned, AllSingle, Single, PairsOf
<1>4. /\ heap'[m_vHashTable[m]] = [table EXCEPT ![c] = nullptr]
      /\ \A x \in Maps \ {m} : Untouched(x)
  BY <1>1, <1>2, CellWritten DEF IInv
<1>. HIDE DEF table
<1>5. /\ OncePerPair([table EXCEPT ![c] = nullptr])
      /\ PairsIn([table EXCEPT ![c] = nullptr]) = PairsOf(m) \ {p}
  BY <1>2, <1>3, CellEmptied
<1>6. p \in Pairs /\ p \in PairsOf(m)
  BY <1>2, <1>3 DEF PairsIn
<1>. HIDE DEF p
<1>7. Single(m)' /\ Contents'[m] = Contents[m] \ {p}
  <2>1. /\ m_vHashTable'[m] # nullptr /\ life'[m] = "alive"
        /\ heap'[m_vHashTable'[m]] = [table EXCEPT ![c] = nullptr]
    BY <1>1, <1>2, <1>4
  <2>2. OncePerPair(heap'[m_vHashTable'[m]])
    BY <1>5, <2>1
  <2>3. Single(m)'
    BY <2>2 DEF Single, OncePerPair
  <2>4. PairsOf(m)' = PairsIn(heap'[m_vHashTable'[m]])
    BY <2>1 DEF PairsOf, PairsIn
  <2>5. PairsOf(m)' = PairsOf(m) \ {p}
    BY <1>5, <2>1, <2>4
  <2>6. Contents'[m] = PairsOf(m)' /\ Contents[m] = PairsOf(m)
    BY <1>2, <2>1 DEF Contents, IsAlive
  <2>. QED BY <2>3, <2>5, <2>6
<1>8. AllSingle' /\ Contents' = [Contents EXCEPT ![m] = Contents[m] \ {p}]
  BY <1>2, <1>4, <1>7, ContentsBut1
<1>9. Contents[m] # nullptr /\ p \in Contents[m]
  BY <1>2, <1>6, ContentsExist DEF Contents, IsAlive
<1>10. MC!Remove(m, p)
  BY <1>2, <1>8, <1>9 DEF MC!Remove, MC!Exists, Contents
<1>. QED BY <1>6, <1>8, <1>10

\* A copy that is not finished is no map yet.
LEMMA CopyingStutters ==
    ASSUME IInv, AllSingle, NEW m \in Maps, life[m] # "alive", life'[m] # "alive",
           \A x \in Maps \ {m} : Untouched(x) /\ life'[x] = life[x]
    PROVE  AllSingle' /\ Contents' = Contents
<1>1. Single(m)' /\ Contents'[m] = Contents[m]
  BY DEF Single, Contents, IsAlive
<1>2. AllSingle' /\ Contents' = [Contents EXCEPT ![m] = Contents[m]]
  BY <1>1, ContentsBut1
<1>. QED BY <1>2 DEF Contents

\* Every step is one of MapCollections, or changes nothing there.
LEMMA NextImplements ==
    ASSUME IInv, CopiesAgree, AllSingle, [Next]_ovars
    PROVE  AllSingle' /\ [MC!Next]_(MC!cvars)
<1> DEFINE Done == AllSingle' /\ [MC!Next]_(MC!cvars)
<1>0. ASSUME AllSingle', Contents' = Contents, UNCHANGED <<vRemoved, leaked>> PROVE Done
  BY <1>0 DEF MC!cvars, Contents
<1>1. ASSUME NEW m \in Maps, NEW P \in SUBSET Pairs, Construct(m, P) PROVE Done
  BY <1>1, ConstructCreates DEF MC!Next
<1>2. ASSUME NEW m \in Maps, NEW src \in Maps, CopyBegin(m, src) PROVE Done
  <2>1. /\ life[m] = "none" /\ life' = [life EXCEPT ![m] = "copying"]
        /\ UNCHANGED <<vRemoved, leaked>> /\ \A x \in Maps \ {m} : Untouched(x)
    BY <1>2, CopyBeginStep DEF CopyBegin
  <2>2. life'[m] = "copying" /\ \A x \in Maps \ {m} : life'[x] = life[x]
    BY <2>1 DEF IInv, Lives
  <2>. QED BY <1>0, <2>1, <2>2, CopyingStutters
<1>3. ASSUME NEW m \in Maps, NEW src \in Maps, Move(m, src) PROVE Done
  BY <1>3, MoveMoves DEF MC!Next
<1>4. ASSUME NEW m \in Maps, CopyCell(m) PROVE Done
  <2>1. /\ life[m] = "copying" /\ life' = life /\ UNCHANGED <<vRemoved, leaked>>
        /\ \A x \in Maps \ {m} : Untouched(x)
    BY <1>4, CopyCellStep DEF CopyCell
  <2>. QED BY <1>0, <2>1, CopyingStutters
<1>5. ASSUME NEW m \in Maps, CopyEnd(m) PROVE Done
  <2>1. copying[m].src \in Maps
    BY DEF IInv, Lives
  <2>. QED BY <1>5, <2>1, CopyEndCopies DEF MC!Next
<1>6. ASSUME NEW m \in Maps, Race(m) PROVE Done
  <2>1. /\ life[m] = "copying" /\ life' = [life EXCEPT ![m] = "undefined"]
        /\ UNCHANGED <<heap, m_vHashTable, m_nCapacity, vRemoved, leaked>>
    BY <1>6 DEF Race
  <2>2. life'[m] = "undefined" /\ \A x \in Maps \ {m} : Untouched(x) /\ life'[x] = life[x]
    BY <2>1 DEF Untouched, IInv, Lives
  <2>. QED BY <1>0, <2>1, <2>2, CopyingStutters
<1>7. ASSUME NEW m \in Maps, NEW n \in Nat, Extend(m, n) \/ ExtendThrows(m, n) PROVE Done
  <2>1. CASE Extend(m, n)
    BY <1>0, <2>1, ExtendStutters
  <2>2. CASE ExtendThrows(m, n)
    BY <2>2, ExtendThrowsLoses DEF MC!Next
  <2>. QED BY <1>7, <2>1, <2>2
<1>8. ASSUME NEW m \in Maps, NEW n \in NewCapacities, Extend(m, n) \/ ExtendThrows(m, n)
      PROVE  Done
  BY <1>7, <1>8, ObjectsAssumption
<1>9. ASSUME NEW m \in Maps, InsertExtends(m) PROVE Done
  BY <1>7, <1>9, CapacitiesAreNumbers DEF InsertExtends
<1>10. ASSUME NEW m \in Maps, NEW p \in Pairs, Insert(m, p) PROVE Done
  BY <1>10, InsertInserts DEF MC!Next
<1>11. ASSUME NEW m \in Maps, NEW c \in Cells(m_nCapacity[m]), Remove(m, c) PROVE Done
  BY <1>11, RemoveRemoves DEF MC!Next
<1>12. ASSUME NEW m \in Maps, Clear(m) PROVE Done
  BY <1>12, ClearClears DEF MC!Next
<1>13. ASSUME NEW m \in Maps, Destroy(m) PROVE Done
  BY <1>13, DestroyDestroys DEF MC!Next
<1>14. ASSUME heap' = heap, life' = life, m_vHashTable' = m_vHashTable
       PROVE  AllSingle' /\ Contents' = Contents
  BY <1>14 DEF AllSingle, Single, OncePerPair, Contents, IsAlive, PairsOf, PairsIn
<1>15. ASSUME NEW r \in vRemoved, Forget(r) PROVE Done
  <2>1. AllSingle' /\ Contents' = Contents
    BY <1>14, <1>15 DEF Forget
  <2>2. MC!Forget(r)
    BY <1>15, <2>1 DEF Forget, MC!Forget, Contents
  <2>. QED BY <1>15, <2>1, <2>2 DEF MC!Next
<1>16. CASE UNCHANGED ovars
  BY <1>0, <1>14, <1>16 DEF ovars
<1>. QED
  BY <1>1, <1>2, <1>3, <1>4, <1>5, <1>6, <1>8, <1>9, <1>10, <1>11, <1>12, <1>13, <1>15,
     <1>16
  DEF Next, Calls

\* Each map is a collection of its own: a copy holds what its source does, a
\* moved-from map is empty, an extension changes nothing and one that throws loses
\* pairs but not all (hashmap.h:99-224, 406-446), up to the first data race.
THEOREM CollectionsImplemented == Spec => ImplementsCollections
<1>1. Init => AllSingle /\ MC!Init
  BY DEF Init, AllSingle, Single, MC!Init, IsAlive
<1>2. ASSUME IInv, CopiesAgree, AllSingle, [Next]_ovars
      PROVE  AllSingle' /\ [MC!Next]_(MC!cvars)
  BY <1>2, NextImplements
<1>3. Spec => []IInv /\ []CopiesAgree
  BY ObjectsInvariant, CopiesAgreeAlways, PTL
<1>4. Spec => MC!Init /\ [][MC!Next]_(MC!cvars)
  BY <1>1, <1>2, <1>3, PTL DEF Spec
<1>. QED BY <1>4 DEF ImplementsCollections, MC!Spec
-----------------------------------------------------------------------------
(***************************************************************************)
(* References.                                                             *)
(***************************************************************************)
\* The cells a copy constructor has still to write are empty.
CopyTail ==
    \A m \in Maps : life[m] = "copying" =>
        \A c \in Cells(m_nCapacity[m]) :
            c >= copying[m].i => heap[m_vHashTable[m]][c] = nullptr

\* Writing one cell takes no other pair out of a table.
LEMMA CellChanged ==
    ASSUME NEW table, table = [c \in DOMAIN table |-> table[c]],
           NEW c \in DOMAIN table, NEW q
    PROVE  PairsIn(table) \ {table[c]} \subseteq PairsIn([table EXCEPT ![c] = q])
<1> DEFINE new == [table EXCEPT ![c] = q]
<1>1. DOMAIN new = DOMAIN table /\ \A d \in DOMAIN table \ {c} : new[d] = table[d]
  OBVIOUS
<1>. HIDE DEF new
<1>2. PairsIn(table) \ {table[c]} \subseteq PairsIn(new)
  BY <1>1 DEF PairsIn
<1>. QED BY <1>2 DEF new

\* A pair stays alive if it is in a table that nobody owns, in a map the step
\* leaves alone, or in the one it touches and that map keeps it, remove returns it
\* or it goes to a table that nobody owns.
LEMMA StaysAlive ==
    ASSUME IInv, IInv', NEW m \in Maps, \A x \in Maps \ {m} : Untouched(x), LeaksStay,
           vRemoved \subseteq vRemoved',
           NEW p \in Pairs, Alive(p),
           p \in PairsOf(m) =>
              \/ p \in PairsOf(m)' \/ <<m, p>> \in vRemoved'
              \/ \E t \in DOMAIN heap' : p \in PairsIn(heap'[t])
    PROVE  Alive(p)'
<1>1. CASE \E x \in Maps : <<x, p>> \in vRemoved
  BY <1>1 DEF Alive
<1>2. CASE \E t \in leaked : p \in PairsIn(heap[t])
  BY <1>2 DEF Alive, LeaksStay, PairsIn
<1>3. CASE \E t \in DOMAIN heap \ leaked : p \in PairsIn(heap[t])
  <2>1. PICK t \in DOMAIN heap \ leaked : p \in PairsIn(heap[t])
    BY <1>3
  <2>2. PICK x \in Maps : m_vHashTable[x] = t
    BY DEF IInv, Owned
  <2>3. t # nullptr
    BY ObjectsAssumption DEF IInv, Owned
  <2>4. p \in PairsOf(x)
    BY <2>1, <2>2, <2>3 DEF PairsOf
  <2>5. \/ p \in PairsOf(x)' \/ <<x, p>> \in vRemoved'
        \/ \E u \in DOMAIN heap' : p \in PairsIn(heap'[u])
    BY <2>4 DEF Untouched, PairsOf, PairsIn
  <2>6. p \in PairsOf(x)' => m_vHashTable'[x] \in DOMAIN heap' /\ p \in PairsIn(heap'[m_vHashTable'[x]])
    BY DEF PairsOf, PairsIn, IInv, Owned
  <2>. QED BY <2>5, <2>6 DEF Alive, PairsIn
<1>. QED BY <1>1, <1>2, <1>3 DEF Alive, IInv, Owned

\* Only maps the step leaves alone, or whose tail is empty after it, are
\* being copied after it.
LEMMA TailKept ==
    ASSUME IInv, CopyTail, NEW S \in SUBSET Maps,
           \A x \in Maps \ S : Untouched(x),
           \A x \in Maps \ S : life'[x] = "copying" =>
              life[x] = "copying" /\ copying'[x] = copying[x],
           \A x \in S : life'[x] # "copying"
    PROVE  CopyTail'
  BY DEF CopyTail, Untouched, IInv, Lives, Cells

\* The same for a step that touches one map.
LEMMA TailKeptBut1 ==
    ASSUME IInv, CopyTail, NEW m \in Maps,
           \A x \in Maps \ {m} : Untouched(x),
           \A x \in Maps \ {m} : life'[x] = "copying" =>
              life[x] = "copying" /\ copying'[x] = copying[x],
           life'[m] = "copying" =>
              \A c \in Cells(m_nCapacity'[m]) :
                 c >= copying'[m].i => heap'[m_vHashTable'[m]][c] = nullptr
    PROVE  CopyTail'
<1>1. ASSUME NEW x \in Maps, life'[x] = "copying", NEW c \in Cells(m_nCapacity'[x]),
             c >= copying'[x].i
      PROVE  heap'[m_vHashTable'[x]][c] = nullptr
  <2>1. CASE x = m
    BY <1>1, <2>1
  <2>2. CASE x # m
    BY <1>1, <2>2 DEF CopyTail, Untouched, IInv, Lives, Cells
  <2>. QED BY <2>1, <2>2
<1>. QED BY <1>1 DEF CopyTail, Cells

\* A copy that begins is all empty.
LEMMA CopyBeginTail ==
    ASSUME IInv, CopyTail, NEW m \in Maps, NEW src \in Maps, CopyBegin(m, src)
    PROVE  CopyTail'
<1> DEFINE n == m_nCapacity[src]
<1>1. n \in Nat /\ EmptyTable(n) \in [Cells(n) -> Pairs \cup {nullptr}]
  BY DEF EmptyTable, IInv, Owned
<1>2. /\ life[m] = "none" /\ m_vHashTable[m] = nullptr
      /\ life' = [life EXCEPT ![m] = "copying"]
      /\ copying' = [copying EXCEPT ![m] = [src |-> src, i |-> 0]]
      /\ NewTable(m, EmptyTable(n), n) /\ leaked' = leaked
  BY DEF CopyBegin, IInv, Lives
<1>. HIDE DEF n
<1>3. /\ m_nCapacity'[m] = n /\ heap'[m_vHashTable'[m]] = EmptyTable(n)
      /\ \A x \in Maps \ {m} : Untouched(x)
  BY <1>1, <1>2, Housed DEF IInv
<1>4. \A x \in Maps \ {m} : life'[x] = life[x] /\ copying'[x] = copying[x]
  BY <1>2 DEF IInv, Lives
<1>5. \A c \in Cells(n) : EmptyTable(n)[c] = nullptr
  BY DEF EmptyTable
<1>. QED BY <1>3, <1>4, <1>5, TailKeptBut1

\* A turn of the loop fills the first cell of the tail.
LEMMA CopyCellTail ==
    ASSUME IInv, CopyTail, NEW m \in Maps, CopyCell(m)
    PROVE  /\ CopyTail'
           /\ PairsOf(m) \subseteq PairsOf(m)'
<1> DEFINE i == copying[m].i
           table == heap[m_vHashTable[m]]
<1>1. /\ \A x \in Maps \ {m} : Untouched(x)
      /\ m_nCapacity' = m_nCapacity /\ m_vHashTable' = m_vHashTable
      /\ life' = life /\ i \in Cells(m_nCapacity[m])
      /\ copying' = [copying EXCEPT ![m].i = @ + 1]
      /\ \E p : heap'[m_vHashTable[m]] = [table EXCEPT ![i] = p]
  BY CopyCellStep
<1>2. PICK p : heap'[m_vHashTable[m]] = [table EXCEPT ![i] = p]
  BY <1>1
<1>3. /\ life[m] = "copying" /\ m_vHashTable[m] # nullptr /\ i \in Nat
      /\ table \in [Cells(m_nCapacity[m]) -> Pairs \cup {nullptr}]
      /\ m_nCapacity[m] \in Nat
  BY DEF CopyCell, IInv, Lives, Owned
<1>4. \A c \in Cells(m_nCapacity[m]) : c >= i => table[c] = nullptr
  BY <1>3 DEF CopyTail
<1>5. /\ copying'[m].i = i + 1
      /\ \A x \in Maps \ {m} : copying'[x] = copying[x]
  BY <1>1, <1>3 DEF IInv, Lives
<1>. HIDE DEF i, table
<1>6. \A c \in Cells(m_nCapacity[m]) : c >= i + 1 => heap'[m_vHashTable[m]][c] = nullptr
  BY <1>2, <1>3, <1>4 DEF Cells
<1>7. CopyTail'
  BY <1>1, <1>5, <1>6, TailKeptBut1
<1>8. PairsIn(table) \subseteq PairsIn([table EXCEPT ![i] = p])
  <2>1. table[i] = nullptr /\ i \in DOMAIN table /\ table = [c \in DOMAIN table |-> table[c]]
    BY <1>1, <1>3, <1>4
  <2>2. nullptr \notin PairsIn(table)
    BY DEF PairsIn
  <2>. QED BY <2>1, <2>2, CellChanged
<1>9. PairsOf(m) \subseteq PairsOf(m)'
  <2>1. PairsOf(m) = PairsIn(table)
    BY <1>3 DEF PairsOf, table
  <2>2. PairsOf(m)' = PairsIn([table EXCEPT ![i] = p])
    <3>1. PairsOf(m)' = PairsIn(heap'[m_vHashTable'[m]])
      BY <1>1, <1>3 DEF PairsOf, PairsIn
    <3>2. heap'[m_vHashTable'[m]] = [table EXCEPT ![i] = p]
      BY <1>1, <1>2
    <3>. QED BY <3>1, <3>2
  <2>. QED BY <1>8, <2>1, <2>2
<1>. QED BY <1>7, <1>9

\* Every step leaves the tails of copies empty.
LEMMA NextCopyTail == IInv /\ CopyTail /\ [Next]_ovars => CopyTail'
<1> SUFFICES ASSUME IInv, CopyTail, [Next]_ovars PROVE CopyTail'
  OBVIOUS
<1>1. ASSUME NEW m \in Maps, NEW P \in SUBSET Pairs, Construct(m, P) PROVE CopyTail'
  <2>1. /\ \A x \in Maps \ {m} : Untouched(x)
        /\ life' = [life EXCEPT ![m] = "alive"] /\ copying' = copying
    BY <1>1, ConstructStep DEF Construct
  <2>. QED BY <2>1, TailKeptBut1 DEF IInv, Lives
<1>2. ASSUME NEW m \in Maps, NEW src \in Maps, CopyBegin(m, src) PROVE CopyTail'
  BY <1>2, CopyBeginTail
<1>3. ASSUME NEW m \in Maps, NEW src \in Maps, Move(m, src) PROVE CopyTail'
  <2> DEFINE S == {m, src}
  <2>1. /\ life' = [life EXCEPT ![m] = "alive"] /\ life[src] = "alive" /\ copying' = copying
    BY <1>3 DEF Move, Writable, IsAlive
  <2>2. \A x \in S : life'[x] # "copying"
    BY <2>1 DEF IInv, Lives
  <2>3. S \in SUBSET Maps /\ \A x \in Maps \ S : Untouched(x) /\ life'[x] = life[x]
    BY <1>3, <2>1, MoveStep DEF IInv, Lives
  <2>. HIDE DEF S
  <2>. QED BY <2>1, <2>2, <2>3, TailKept
<1>4. ASSUME NEW m \in Maps, CopyCell(m) PROVE CopyTail'
  BY <1>4, CopyCellTail
<1>5. ASSUME NEW m \in Maps, CopyEnd(m) \/ Race(m) PROVE CopyTail'
  <2>1. /\ life'[m] # "copying" /\ \A x \in Maps \ {m} : life'[x] = life[x]
        /\ \A x \in Maps : Untouched(x)
        /\ \A x \in Maps \ {m} : copying'[x] = copying[x]
    BY <1>5 DEF CopyEnd, Race, Untouched, IInv, Lives
  <2>. QED BY <2>1, TailKeptBut1 DEF IInv, Lives
<1>6. ASSUME NEW m \in Maps, Writable(m), \A x \in Maps \ {m} : Untouched(x),
             UNCHANGED <<life, copying>>
      PROVE  CopyTail'
  BY <1>6, TailKeptBut1 DEF Writable, IsAlive
<1>7. ASSUME NEW m \in Maps, NEW n \in Nat, Extend(m, n) \/ ExtendThrows(m, n)
      PROVE  CopyTail'
  <2>1. Writable(m) /\ UNCHANGED <<life, copying>>
    BY <1>7 DEF Extend, ExtendThrows
  <2>2. \A x \in Maps \ {m} : Untouched(x)
    BY <1>7, ExtendStep, ExtendThrowsStep
  <2>. QED BY <1>6, <2>1, <2>2
<1>8. ASSUME NEW m \in Maps, NEW n \in NewCapacities, Extend(m, n) \/ ExtendThrows(m, n)
      PROVE  CopyTail'
  BY <1>7, <1>8, ObjectsAssumption
<1>9. ASSUME NEW m \in Maps, InsertExtends(m) PROVE CopyTail'
  BY <1>7, <1>9, CapacitiesAreNumbers DEF InsertExtends
<1>10. ASSUME NEW m \in Maps, NEW p \in Pairs, Insert(m, p) PROVE CopyTail'
  BY <1>6, <1>10, InsertStep DEF Insert
<1>11. ASSUME NEW m \in Maps, NEW c \in Cells(m_nCapacity[m]), Remove(m, c) PROVE CopyTail'
  BY <1>6, <1>11, RemoveStep DEF Remove
<1>12. ASSUME NEW m \in Maps, Clear(m) PROVE CopyTail'
  BY <1>6, <1>12, ClearStep DEF Clear
<1>13. ASSUME NEW m \in Maps, Destroy(m) PROVE CopyTail'
  <2>1. /\ life' = [life EXCEPT ![m] = "none"] /\ copying' = copying
        /\ \A x \in Maps \ {m} : Untouched(x)
    BY <1>13, DestroyStep DEF Destroy
  <2>. QED BY <2>1, TailKeptBut1 DEF IInv, Lives
<1>14. ASSUME UNCHANGED <<heap, life, m_vHashTable, m_nCapacity, copying>> PROVE CopyTail'
  BY <1>14 DEF CopyTail, Cells
<1>15. ASSUME NEW r \in vRemoved, Forget(r) PROVE CopyTail'
  BY <1>14, <1>15 DEF Forget
<1>16. CASE UNCHANGED ovars
  BY <1>14, <1>16 DEF ovars
<1>. QED
  BY <1>1, <1>2, <1>3, <1>4, <1>5, <1>8, <1>9, <1>10, <1>11, <1>12, <1>13, <1>15, <1>16
  DEF Next, Calls

\* What extendImpl, insert and remove leave of a map's pairs.
LEMMA ExtendKeeps ==
    ASSUME IInv, NEW m \in Maps, NEW n \in Nat, Extend(m, n)
    PROVE  PairsOf(m)' = PairsOf(m)
<1> DEFINE P == PairsOf(m)
<1>1. PICK table \in Placements(P, n) : Replace(m, table, n)
  BY DEF Extend, Rehashed
<1>2. P \in SUBSET Pairs
  BY PairsOfArePairs DEF IInv
<1>. HIDE DEF P
<1>3. table \in [Cells(n) -> Pairs \cup {nullptr}] /\ PairsIn(table) = P
  BY <1>1, <1>2, PlacementHolds, PlacementsAreTables
<1>4. m_vHashTable'[m] # nullptr /\ heap'[m_vHashTable'[m]] = table
  BY <1>1, <1>3, Replaced DEF IInv, Extend
<1>5. PairsOf(m)' = P
  BY <1>3, <1>4 DEF PairsOf, PairsIn
<1>. QED BY <1>5 DEF P

\* An extension that throws keeps them in one table or the other.
LEMMA ExtendThrowsKeeps ==
    ASSUME IInv, NEW m \in Maps, NEW n \in Nat, ExtendThrows(m, n), NEW p \in PairsOf(m)
    PROVE  \E t \in DOMAIN heap' : p \in PairsIn(heap'[t])
<1>1. PICK P \in (SUBSET PairsOf(m)) \ {PairsOf(m)}, t \in Tables \ DOMAIN heap :
         /\ \E table \in Placements(P, n) :
               heap' = With([heap EXCEPT ![m_vHashTable[m]] = Without(@, P)], t, table)
         /\ leaked' = leaked \cup {t}
  BY DEF ExtendThrows
<1>2. PICK table \in Placements(P, n) :
         heap' = With([heap EXCEPT ![m_vHashTable[m]] = Without(@, P)], t, table)
  BY <1>1
<1>3. P \in SUBSET Pairs /\ nullptr \notin P
  BY PairsOfArePairs, ObjectsAssumption DEF IInv
<1>4. table \in [Cells(n) -> Pairs \cup {nullptr}] /\ PairsIn(table) = P
  BY <1>2, <1>3, PlacementsAreTables, PlacementHolds
<1>5. UNCHANGED <<m_vHashTable, m_nCapacity>>
  BY DEF ExtendThrows
<1>6. /\ Owned' /\ m_vHashTable[m] # nullptr
      /\ heap'[m_vHashTable[m]] = Without(heap[m_vHashTable[m]], P)
      /\ t \in DOMAIN heap' /\ heap'[t] = table
  BY <1>1, <1>2, <1>4, <1>5, TableLeft, ZenonT(30) DEF IInv
<1>7. CASE p \in P
  BY <1>4, <1>6, <1>7
<1>8. CASE p \notin P
  <2>1. p \in PairsIn(Without(heap[m_vHashTable[m]], P))
    BY <1>3, <1>6, <1>8, PairsLeft DEF PairsOf
  <2>2. m_vHashTable[m] \in DOMAIN heap'
    BY <1>5, <1>6 DEF Owned
  <2>. QED BY <1>6, <2>1, <2>2
<1>. QED BY <1>7, <1>8

\* An insertion keeps the pairs that were there.
LEMMA InsertKeeps ==
    ASSUME IInv, NEW m \in Maps, NEW p \in Pairs, Insert(m, p)
    PROVE  PairsOf(m) \subseteq PairsOf(m)'
<1> DEFINE table == heap[m_vHashTable[m]]
<1>1. UNCHANGED <<m_vHashTable, m_nCapacity, leaked>>
  BY DEF Insert
<1>2. PICK c \in Cells(m_nCapacity[m]) :
         table[c] = nullptr /\ heap' = [heap EXCEPT ![m_vHashTable[m]][c] = p]
  BY DEF Insert
<1>3. m_vHashTable[m] # nullptr
  BY <1>2 DEF IInv, Owned, Cells
<1>4. /\ table \in [Cells(m_nCapacity[m]) -> Pairs \cup {nullptr}]
      /\ PairsIn(table) = PairsOf(m)
  BY <1>3 DEF IInv, Owned, PairsOf
<1>5. heap'[m_vHashTable[m]] = [table EXCEPT ![c] = p]
  BY <1>1, <1>2, <1>3, CellWritten DEF IInv
<1>. HIDE DEF table
<1>6. PairsIn(table) \subseteq PairsIn([table EXCEPT ![c] = p])
  <2>1. /\ table = [d \in DOMAIN table |-> table[d]] /\ c \in DOMAIN table
        /\ nullptr \notin PairsIn(table)
    BY <1>4 DEF PairsIn
  <2>. QED BY <1>2, <2>1, CellChanged
<1>7. PairsOf(m)' = PairsIn(heap'[m_vHashTable'[m]])
  BY <1>1, <1>3 DEF PairsOf, PairsIn
<1>. QED BY <1>1, <1>4, <1>5, <1>6, <1>7

\* A removal keeps all pairs or returns them.
LEMMA RemoveKeeps ==
    ASSUME IInv, NEW m \in Maps, NEW c \in Cells(m_nCapacity[m]), Remove(m, c)
    PROVE  \A p \in PairsOf(m) : p \in PairsOf(m)' \/ <<m, p>> \in vRemoved'
<1> DEFINE table == heap[m_vHashTable[m]]
<1>1. m_vHashTable[m] # nullptr
  BY DEF IInv, Owned, Cells
<1>2. /\ UNCHANGED <<m_vHashTable, m_nCapacity, leaked>>
      /\ vRemoved' = vRemoved \cup {<<m, table[c]>>}
      /\ heap' = [heap EXCEPT ![m_vHashTable[m]][c] = nullptr]
  BY DEF Remove
<1>3. /\ table \in [Cells(m_nCapacity[m]) -> Pairs \cup {nullptr}]
      /\ PairsIn(table) = PairsOf(m)
  BY <1>1 DEF IInv, Owned, PairsOf
<1>4. heap'[m_vHashTable[m]] = [table EXCEPT ![c] = nullptr]
  BY <1>1, <1>2, CellWritten DEF IInv
<1>. HIDE DEF table
<1>5. PairsIn(table) \ {table[c]} \subseteq PairsIn([table EXCEPT ![c] = nullptr])
  <2>1. table = [d \in DOMAIN table |-> table[d]] /\ c \in DOMAIN table
    BY <1>3
  <2>. QED BY <2>1, CellChanged
<1>6. PairsOf(m)' = PairsIn(heap'[m_vHashTable'[m]])
  BY <1>1, <1>2 DEF PairsOf, PairsIn
<1>7. PairsOf(m) \ {table[c]} \subseteq PairsOf(m)'
  <2>1. heap'[m_vHashTable'[m]] = [table EXCEPT ![c] = nullptr]
    BY <1>2, <1>4
  <2>2. PairsOf(m)' = PairsIn([table EXCEPT ![c] = nullptr])
    BY <1>6, <2>1
  <2>. QED BY <1>3, <1>5, <2>2
<1>. QED BY <1>2, <1>7

\* What ReferencesSurvive says of one step: which maps lose all, and of all pairs.
LosesAll(m) ==
    \/ life'[m] = "none"
    \/ PairsOf(m)' = {} /\ m_nCapacity'[m] = DefaultCapacity

SurvivesStep ==
    \A p \in Pairs : Alive(p) /\ ~ Alive(p)' =>
        \/ \E m \in Maps :
              /\ p \in PairsOf(m)
              /\ \/ life'[m] = "none"
                 \/ PairsOf(m)' = {} /\ m_nCapacity'[m] = DefaultCapacity
        \/ \E m \in Maps : <<m, p>> \in vRemoved \ vRemoved'

\* The map the step touches keeps its pairs, hands them out, leaves them in a table
\* that nobody owns, or loses them all.
LEMMA SurvivesBut1 ==
    ASSUME IInv, IInv', NEW m \in Maps, \A x \in Maps \ {m} : Untouched(x), LeaksStay,
           vRemoved \subseteq vRemoved',
           \/ \A p \in PairsOf(m) :
                 \/ p \in PairsOf(m)' \/ <<m, p>> \in vRemoved'
                 \/ \E t \in DOMAIN heap' : p \in PairsIn(heap'[t])
           \/ LosesAll(m)
    PROVE  SurvivesStep
<1>1. ASSUME NEW p \in Pairs, Alive(p), ~ Alive(p)'
      PROVE  \E x \in Maps : p \in PairsOf(x) /\ LosesAll(x)
  BY <1>1, StaysAlive
<1>. QED BY <1>1 DEF SurvivesStep, LosesAll

\* Every step is one that ReferencesSurvive allows.
LEMMA NextSurvives ==
    ASSUME IInv, CopyTail, Next
    PROVE  SurvivesStep
<1>0. IInv'
  BY NextIInv
<1>1. ASSUME NEW m \in Maps, NEW P \in SUBSET Pairs, Construct(m, P) PROVE SurvivesStep
  <2>1. PairsOf(m) = {} /\ vRemoved' = vRemoved
    BY <1>1 DEF Construct, IInv, Lives, PairsOf
  <2>. QED BY <1>0, <1>1, <2>1, ConstructStep, SurvivesBut1
<1>2. ASSUME NEW m \in Maps, NEW src \in Maps, CopyBegin(m, src) PROVE SurvivesStep
  <2>1. PairsOf(m) = {} /\ vRemoved' = vRemoved
    BY <1>2 DEF CopyBegin, IInv, Lives, PairsOf
  <2>. QED BY <1>0, <1>2, <2>1, CopyBeginStep, SurvivesBut1
<1>3. ASSUME heap' = heap, vRemoved' = vRemoved PROVE SurvivesStep
  BY <1>3 DEF SurvivesStep, Alive, PairsIn
<1>4. ASSUME NEW m \in Maps, NEW src \in Maps, Move(m, src) PROVE SurvivesStep
  BY <1>3, <1>4 DEF Move
<1>5. ASSUME NEW m \in Maps, CopyCell(m) PROVE SurvivesStep
  <2>1. vRemoved' = vRemoved /\ \A p \in PairsOf(m) : p \in PairsOf(m)'
    BY <1>5, CopyCellTail DEF CopyCell
  <2>. QED BY <1>0, <1>5, <2>1, CopyCellStep, SurvivesBut1
<1>6. ASSUME NEW m \in Maps, CopyEnd(m) \/ Race(m) PROVE SurvivesStep
  BY <1>3, <1>6 DEF CopyEnd, Race
<1>7. ASSUME NEW m \in Maps, NEW n \in Nat, Extend(m, n) PROVE SurvivesStep
  <2>1. vRemoved' = vRemoved /\ \A p \in PairsOf(m) : p \in PairsOf(m)'
    BY <1>7, ExtendKeeps DEF Extend
  <2>. QED BY <1>0, <1>7, <2>1, ExtendStep, SurvivesBut1
<1>8. ASSUME NEW m \in Maps, NEW n \in Nat, ExtendThrows(m, n) PROVE SurvivesStep
  <2>1. vRemoved' = vRemoved
    BY <1>8 DEF ExtendThrows
  <2>2. \A p \in PairsOf(m) : \E t \in DOMAIN heap' : p \in PairsIn(heap'[t])
    BY <1>8, ExtendThrowsKeeps
  <2>3. LeaksStay /\ \A x \in Maps \ {m} : Untouched(x)
    BY <1>8, ExtendThrowsStep
  <2>. QED BY <1>0, <2>1, <2>2, <2>3, SurvivesBut1
<1>9. ASSUME NEW m \in Maps, NEW n \in NewCapacities, Extend(m, n) \/ ExtendThrows(m, n)
      PROVE  SurvivesStep
  BY <1>7, <1>8, <1>9, ObjectsAssumption
<1>10. ASSUME NEW m \in Maps, InsertExtends(m) PROVE SurvivesStep
  BY <1>7, <1>8, <1>10, CapacitiesAreNumbers DEF InsertExtends
<1>11. ASSUME NEW m \in Maps, NEW q \in Pairs, Insert(m, q) PROVE SurvivesStep
  <2>1. vRemoved' = vRemoved /\ \A p \in PairsOf(m) : p \in PairsOf(m)'
    BY <1>11, InsertKeeps DEF Insert
  <2>. QED BY <1>0, <1>11, <2>1, InsertStep, SurvivesBut1
<1>12. ASSUME NEW m \in Maps, NEW c \in Cells(m_nCapacity[m]), Remove(m, c)
       PROVE  SurvivesStep
  <2>1. vRemoved \subseteq vRemoved'
    BY <1>12 DEF Remove
  <2>2. \A p \in PairsOf(m) : p \in PairsOf(m)' \/ <<m, p>> \in vRemoved'
    BY <1>12, RemoveKeeps
  <2>3. LeaksStay /\ \A x \in Maps \ {m} : Untouched(x)
    BY <1>12, RemoveStep
  <2>. QED BY <1>0, <2>1, <2>2, <2>3, SurvivesBut1
<1>13. ASSUME NEW m \in Maps, Clear(m) PROVE SurvivesStep
  <2> DEFINE empty == EmptyTable(DefaultCapacity)
  <2>1. /\ DefaultCapacity \in Nat /\ PairsIn(empty) = {}
        /\ empty \in [Cells(DefaultCapacity) -> Pairs \cup {nullptr}]
    BY ObjectsAssumption DEF EmptyTable, PairsIn
  <2>2. PICK t \in Tables \ DOMAIN Deleted(heap, m) :
           /\ heap' = With(Deleted(heap, m), t, empty)
           /\ m_vHashTable' = [m_vHashTable EXCEPT ![m] = t]
    BY <1>13 DEF Clear
  <2>3. /\ UNCHANGED <<vRemoved, leaked>>
        /\ m_nCapacity' = [m_nCapacity EXCEPT ![m] = DefaultCapacity]
    BY <1>13 DEF Clear
  <2>. HIDE DEF empty
  <2>4. /\ m_vHashTable'[m] # nullptr /\ heap'[m_vHashTable'[m]] = empty
        /\ m_nCapacity'[m] = DefaultCapacity
    BY <2>1, <2>2, <2>3, Rehoused DEF IInv
  <2>5. LosesAll(m)
    BY <2>1, <2>4 DEF LosesAll, PairsOf, PairsIn
  <2>. QED BY <1>0, <1>13, <2>3, <2>5, ClearStep, SurvivesBut1
<1>14. ASSUME NEW m \in Maps, Destroy(m) PROVE SurvivesStep
  <2>1. LosesAll(m) /\ vRemoved' = vRemoved
    BY <1>14 DEF Destroy, LosesAll, IInv, Lives
  <2>. QED BY <1>0, <1>14, <2>1, DestroyStep, SurvivesBut1
<1>15. ASSUME NEW r \in vRemoved, Forget(r) PROVE SurvivesStep
  BY <1>15 DEF Forget, SurvivesStep, Alive, PairsIn
<1>. QED
  BY <1>1, <1>2, <1>4, <1>5, <1>6, <1>9, <1>10, <1>11, <1>12, <1>13, <1>14, <1>15
  DEF Next, Calls

\* A pair that references point to dies only when a map that holds it is cleared
\* or destroyed, or the last result of remove that holds it goes; up to the first
\* data race, and also where an extension throws.
THEOREM ReferencesStay == Spec => ReferencesSurvive
<1>1. Init => CopyTail
  BY DEF Init, CopyTail
<1>2. IInv /\ CopyTail /\ [Next]_ovars => CopyTail'
  BY NextCopyTail
<1>3. IInv /\ CopyTail /\ [Next]_ovars => [SurvivesStep]_ovars
  BY NextSurvives
<1>4. Spec => [][SurvivesStep]_ovars
  BY <1>1, <1>2, <1>3, ObjectsInvariant, PTL DEF Spec
<1>. QED BY <1>4 DEF ReferencesSurvive, SurvivesStep
=============================================================================
