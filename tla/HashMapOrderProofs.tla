-------------------------- MODULE HashMapOrderProofs --------------------------
(***************************************************************************)
(* What HashMap keeps if, besides staying inside the table, no probe       *)
(* visits a cell twice (ProbesDoNotRepeat): the pairs of a key stay in the *)
(* order they were inserted, in every table and through every extension,   *)
(* as long as nothing is removed; and no list names a pair twice.  Proved  *)
(* for any number of threads and any keys.                                 *)
(***************************************************************************)
EXTENDS HashMapProofs, NatRecursion, SequenceTheorems, FiniteSetTheorems

(***************************************************************************)
(* The probe of key k in a table of m cells, step by step.                 *)
(***************************************************************************)
At(tab, m, k, i) == tab[hashFunction(m, k, i)]

IsOf(c, k) == c # nullptr /\ c.key = k

\* No two steps of a probe visit the same cell.
VisitsOnce(m) ==
    \A k \in Keys : \A i, j \in 0 .. m - 1 :
        hashFunction(m, k, i) = hashFunction(m, k, j) => i = j

\* The probe of a key meets its pairs in the order they were made.
Ascending(tab, m) ==
    \A k \in Keys : \A i, j \in 0 .. m - 1 :
        i < j /\ IsOf(At(tab, m, k, i), k) /\ IsOf(At(tab, m, k, j), k)
            => At(tab, m, k, i).val < At(tab, m, k, j).val

\* No cell is free that the probe of a key visits before a pair of the key.
NoHoles(tab, m) ==
    \A k \in Keys : \A i, j \in 0 .. m - 1 :
        i < j /\ IsOf(At(tab, m, k, j), k) => At(tab, m, k, i) # nullptr

\* The pairs in a new table of n cells are older than those of their keys that
\* are left in the table.
Older(new, n, tab, m) ==
    \A k \in Keys : \A i \in 0 .. n - 1, j \in 0 .. m - 1 :
        IsOf(At(new, n, k, i), k) /\ IsOf(At(tab, m, k, j), k)
            => At(new, n, k, i).val < At(tab, m, k, j).val

LEMMA StepInTable ==
    ASSUME HashInRange, NEW m \in Nat \ {0}
    PROVE  \A k \in Keys : \A i \in 0 .. m - 1 : hashFunction(m, k, i) \in 0 .. m - 1
<1> SUFFICES ASSUME NEW k \in Keys, NEW i \in 0 .. m - 1
             PROVE  hashFunction(m, k, i) \in 0 .. m - 1
  OBVIOUS
<1>1. i \in Nat
  OBVIOUS
<1>. QED
  BY <1>1 DEF HashInRange

LEMMA EmptyOrdered ==
    ASSUME HashInRange, NEW m \in Nat \ {0}, NEW tab, NEW n
    PROVE  /\ Ascending(NewTable(m), m)
           /\ NoHoles(NewTable(m), m)
           /\ Older(NewTable(m), m, tab, n)
<1>1. ASSUME NEW k \in Keys, NEW i \in 0 .. m - 1
      PROVE  At(NewTable(m), m, k, i) = nullptr
  <2>1. hashFunction(m, k, i) \in 0 .. m - 1
    BY StepInTable
  <2>. QED
    BY <2>1 DEF At, NewTable
<1>. QED
  BY <1>1 DEF Ascending, NoHoles, Older, IsOf

\* What the probes meet in the new table they met in the old one, but for p,
\* which the probe of k meets at step s.
Adds(new, tab, m, k, s, p) ==
    \A l \in Keys : \A i \in 0 .. m - 1 :
        IsOf(At(new, m, l, i), l) =>
           \/ l = k /\ i = s /\ At(new, m, l, i) = p
           \/ IsOf(At(tab, m, l, i), l) /\ At(new, m, l, i) = At(tab, m, l, i)

\* A pair younger than all of its key goes to the first free cell of its probe.
LEMMA PutOrdered ==
    ASSUME HashInRange, NEW m \in Nat \ {0}, NEW tab \in [0 .. m - 1 -> Cells],
           VisitsOnce(m), Ascending(tab, m), NoHoles(tab, m),
           NEW k \in Keys, NEW s \in 0 .. m - 1, NEW p \in Pairs, p.key = k,
           At(tab, m, k, s) = nullptr,
           \A i \in 0 .. m - 1 : i < s => At(tab, m, k, i) # nullptr,
           \A i \in 0 .. m - 1 :
               IsOf(At(tab, m, k, i), k) => At(tab, m, k, i).val < p.val,
           NEW new, new = [tab EXCEPT ![hashFunction(m, k, s)] = p]
    PROVE  /\ Ascending(new, m)
           /\ NoHoles(new, m)
           /\ Adds(new, tab, m, k, s, p)
<1> DEFINE X == hashFunction(m, k, s)
<1>1. \A l \in Keys : \A i \in 0 .. m - 1 : hashFunction(m, l, i) \in 0 .. m - 1
  BY StepInTable
<1>2. \A l \in Keys : \A i \in 0 .. m - 1 :
         At(new, m, l, i) = IF hashFunction(m, l, i) = X THEN p ELSE At(tab, m, l, i)
  BY <1>1 DEF At
<1>3. \A i \in 0 .. m - 1 : hashFunction(m, k, i) = X => i = s
  BY DEF VisitsOnce
<1>4. p # nullptr
  BY HashMapAssumption
<1> HIDE DEF X
<1>5. ASSUME NEW l \in Keys, NEW i \in 0 .. m - 1, IsOf(At(new, m, l, i), l)
      PROVE  \/ l = k /\ i = s /\ At(new, m, l, i) = p
             \/ IsOf(At(tab, m, l, i), l) /\ At(new, m, l, i) = At(tab, m, l, i)
  <2>1. CASE hashFunction(m, l, i) = X
    <3>1. At(new, m, l, i) = p
      BY <1>2, <2>1
    <3>2. l = k
      BY <1>5, <3>1 DEF IsOf
    <3>. QED
      BY <1>3, <2>1, <3>1, <3>2
  <2>2. CASE hashFunction(m, l, i) # X
    BY <1>2, <1>5, <2>2
  <2>. QED
    BY <2>1, <2>2
<1>6. \A l \in Keys : \A i \in 0 .. m - 1 :
         At(tab, m, l, i) # nullptr => At(new, m, l, i) # nullptr
  BY <1>2, <1>4
<1>7. NoHoles(new, m)
  <2> SUFFICES ASSUME NEW l \in Keys, NEW i \in 0 .. m - 1, NEW j \in 0 .. m - 1,
                      i < j, IsOf(At(new, m, l, j), l)
               PROVE  At(tab, m, l, i) # nullptr
    BY <1>6 DEF NoHoles
  <2>. QED
    BY <1>5 DEF NoHoles
<1>8. Ascending(new, m)
  <2> SUFFICES ASSUME NEW l \in Keys, NEW i \in 0 .. m - 1, NEW j \in 0 .. m - 1,
                      i < j, IsOf(At(new, m, l, i), l), IsOf(At(new, m, l, j), l)
               PROVE  At(new, m, l, i).val < At(new, m, l, j).val
    BY DEF Ascending
  <2>1. CASE l = k /\ j = s /\ At(new, m, l, j) = p
    BY <1>5, <2>1
  <2>2. CASE IsOf(At(tab, m, l, j), l) /\ At(new, m, l, j) = At(tab, m, l, j)
    <3>1. ~ (l = k /\ i = s)
      BY <2>2 DEF NoHoles
    <3>. QED
      BY <1>5, <2>2, <3>1 DEF Ascending
  <2>. QED
    BY <1>5, <2>1, <2>2
<1>. QED
  BY <1>5, <1>7, <1>8 DEF Adds

LEMMA TakeOrdered ==
    ASSUME HashInRange, NEW m \in Nat \ {0}, NEW tab \in [0 .. m - 1 -> Cells],
           NEW x \in 0 .. m - 1
    PROVE  /\ \A l \in Keys : \A i \in 0 .. m - 1 :
                 At(Emptied(tab, x), m, l, i) =
                    IF hashFunction(m, l, i) = x THEN nullptr ELSE At(tab, m, l, i)
           /\ Ascending(tab, m) => Ascending(Emptied(tab, x), m)
<1>1. \A l \in Keys : \A i \in 0 .. m - 1 : hashFunction(m, l, i) \in 0 .. m - 1
  BY StepInTable
<1>2. \A l \in Keys : \A i \in 0 .. m - 1 :
         At(Emptied(tab, x), m, l, i) =
            IF hashFunction(m, l, i) = x THEN nullptr ELSE At(tab, m, l, i)
  BY <1>1 DEF At, Emptied
<1>3. Ascending(tab, m) => Ascending(Emptied(tab, x), m)
  BY <1>2 DEF Ascending, IsOf
<1>. QED
  BY <1>2, <1>3
-----------------------------------------------------------------------------
(***************************************************************************)
(* The sequence of the pairs that a probe meets.                           *)
(***************************************************************************)
LEMMA MetSteps ==
    ASSUME NEW m \in Nat, NEW tab, NEW k, \A i \in 0 .. m - 1 : At(tab, m, k, i) \in Cells
    PROVE  /\ Met(tab, m, k)[0] = <<>>
           /\ \A n \in 0 .. m : Met(tab, m, k)[n] \in Seq(Pairs)
           /\ \A n \in 0 .. m - 1 :
                 Met(tab, m, k)[n + 1] =
                    IF IsOf(At(tab, m, k, n), k) THEN Append(Met(tab, m, k)[n], At(tab, m, k, n))
                    ELSE Met(tab, m, k)[n]
<1> DEFINE S == Seq(Pairs)
           base == <<>>
           c(n) == IF n \in 0 .. m - 1 THEN At(tab, m, k, n) ELSE nullptr
           With(q, n) == IF IsOf(c(n), k) THEN Append(q, c(n)) ELSE q
           step == [n \in Nat |-> [q \in S |-> With(q, n)]]
           Def(f) == f = [n \in 0 .. m |->
                             IF n = 0 THEN <<>>
                             ELSE LET d == tab[hashFunction(m, k, n - 1)]
                                  IN  IF d # nullptr /\ d.key = k THEN Append(f[n - 1], d)
                                      ELSE f[n - 1]]
<1>1. ASSUME NEW n \in Nat, NEW q \in S
      PROVE  With(q, n) \in S
  <2>1. CASE IsOf(c(n), k)
    <3>1. c(n) \in Pairs
      BY <2>1 DEF IsOf, Cells
    <3> HIDE DEF c
    <3>. QED
      BY <2>1, <3>1, AppendProperties
  <2>. QED
    BY <2>1
<1>2. \A n \in Nat : \A q \in S : step[n][q] = With(q, n)
  OBVIOUS
<1>3. step \in [Nat -> [S -> S]]
  <2> HIDE DEF With, S
  <2>. QED
    BY <1>1
<1>4. base \in S
  OBVIOUS
<1> HIDE DEF step, base, S
<1>5. PICK g : Follows(g, S, base, step)
  BY <1>3, <1>4, StepByStep
<1>6. g \in [Nat -> S] /\ g[0] = <<>> /\ \A n \in Nat : g[n + 1] = With(g[n], n)
  <2>1. g \in [Nat -> S] /\ g[0] = <<>> /\ \A n \in Nat : g[n + 1] = step[n][g[n]]
    BY <1>5 DEF Follows, base
  <2> HIDE DEF With
  <2>. QED
    BY <1>2, <2>1
<1> DEFINE f == [n \in 0 .. m |-> g[n]]
<1>7. Def(f)
  <2>1. ASSUME NEW n \in 0 .. m
        PROVE  f[n] = IF n = 0 THEN <<>>
                      ELSE LET d == tab[hashFunction(m, k, n - 1)]
                           IN  IF d # nullptr /\ d.key = k THEN Append(f[n - 1], d)
                               ELSE f[n - 1]
    <3>1. CASE n = 0
      BY <1>6, <3>1
    <3>2. CASE n # 0
      <4>1. n - 1 \in Nat /\ n - 1 \in 0 .. m - 1 /\ n - 1 \in 0 .. m /\ (n - 1) + 1 = n
        BY <3>2
      <4>2. f[n] = With(f[n - 1], n - 1)
        <5>1. f[n] = g[n] /\ f[n - 1] = g[n - 1]
          BY <4>1
        <5>2. g[(n - 1) + 1] = With(g[n - 1], n - 1)
          BY <1>6, <4>1
        <5> HIDE DEF With, f
        <5>. QED
          BY <4>1, <5>1, <5>2
      <4>3. c(n - 1) = tab[hashFunction(m, k, n - 1)]
        BY <4>1 DEF At
      <4> HIDE DEF f, c
      <4>. QED
        BY <3>2, <4>2, <4>3 DEF IsOf
    <3>. QED
      BY <3>1, <3>2
  <2>2. f = [n \in 0 .. m |-> f[n]]
    OBVIOUS
  <2> HIDE DEF f
  <2>. QED
    BY <2>1, <2>2
<1> HIDE DEF f
<1>8. Met(tab, m, k) = CHOOSE h : Def(h)
  BY DEF Met
<1> HIDE DEF Def
<1>9. Def(Met(tab, m, k))
  BY <1>7, <1>8
<1> DEFINE M == Met(tab, m, k)
<1>10. M = [n \in 0 .. m |->
               IF n = 0 THEN <<>>
               ELSE LET d == tab[hashFunction(m, k, n - 1)]
                    IN  IF d # nullptr /\ d.key = k THEN Append(M[n - 1], d) ELSE M[n - 1]]
  BY <1>9 DEF Def
<1> HIDE DEF M
<1>11. M[0] = <<>>
  BY <1>10
<1>12. \A n \in 0 .. m - 1 : M[n + 1] = With(M[n], n)
  <2> TAKE n \in 0 .. m - 1
  <2>1. n + 1 \in 0 .. m /\ n + 1 # 0 /\ (n + 1) - 1 = n
    OBVIOUS
  <2>2. c(n) = tab[hashFunction(m, k, n)]
    BY DEF At
  <2> HIDE DEF c
  <2>. QED
    BY <1>10, <2>1, <2>2 DEF IsOf
<1> DEFINE T == {n \in Nat : n <= m => M[n] \in S}
<1>13. Nat \subseteq T
  <2>1. 0 \in T
    BY <1>4, <1>11 DEF base
  <2>2. ASSUME NEW n \in Nat, n \in T
        PROVE  n + 1 \in T
    <3> SUFFICES ASSUME n + 1 <= m
                 PROVE  M[n + 1] \in S
      OBVIOUS
    <3>1. n \in 0 .. m - 1 /\ M[n] \in S
      BY <2>2
    <3> HIDE DEF With
    <3>. QED
      BY <1>1, <1>12, <3>1
  <2> HIDE DEF T
  <2>. QED
    BY <2>1, <2>2, CountingUp
<1>14. \A n \in 0 .. m : M[n] \in Seq(Pairs)
  BY <1>13 DEF S
<1>. QED
  BY <1>11, <1>12, <1>14 DEF M

\* If the probe meets the pairs of k in the order they were made, they are in
\* that order in its sequence.
LEMMA MetInOrder ==
    ASSUME NEW m \in Nat, NEW tab, NEW k, \A i \in 0 .. m - 1 : At(tab, m, k, i) \in Cells,
           \A i, j \in 0 .. m - 1 :
              i < j /\ IsOf(At(tab, m, k, i), k) /\ IsOf(At(tab, m, k, j), k)
                 => At(tab, m, k, i).val < At(tab, m, k, j).val
    PROVE  LET s == InProbeOrder(tab, m, k)
           IN  /\ s \in Seq(Pairs)
               /\ \A a \in 1 .. Len(s) :
                     \E i \in 0 .. m - 1 : IsOf(At(tab, m, k, i), k) /\ s[a] = At(tab, m, k, i)
               /\ \A a, b \in 1 .. Len(s) : a < b => s[a].val < s[b].val
<1> DEFINE M == Met(tab, m, k)
           From(s, n) == \A a \in 1 .. Len(s) : \E i \in 0 .. m - 1 :
                            i < n /\ IsOf(At(tab, m, k, i), k) /\ s[a] = At(tab, m, k, i)
           Up(s) == \A a, b \in 1 .. Len(s) : a < b => s[a].val < s[b].val
           T == {n \in Nat : n <= m => From(M[n], n) /\ Up(M[n])}
<1>1. /\ M[0] = <<>>
      /\ \A n \in 0 .. m : M[n] \in Seq(Pairs)
      /\ \A n \in 0 .. m - 1 :
            M[n + 1] = IF IsOf(At(tab, m, k, n), k) THEN Append(M[n], At(tab, m, k, n))
                       ELSE M[n]
  BY MetSteps
<1> HIDE DEF M
<1>2. 0 \in T
  BY <1>1
<1>3. ASSUME NEW n \in Nat, n \in T
      PROVE  n + 1 \in T
  <2> SUFFICES ASSUME n + 1 <= m
               PROVE  From(M[n + 1], n + 1) /\ Up(M[n + 1])
    OBVIOUS
  <2>1. n \in 0 .. m - 1 /\ n \in 0 .. m /\ n <= m
    OBVIOUS
  <2>2. From(M[n], n) /\ Up(M[n]) /\ M[n] \in Seq(Pairs)
    BY <1>1, <1>3, <2>1
  <2>3. CASE ~ IsOf(At(tab, m, k, n), k)
    <3>1. M[n + 1] = M[n]
      BY <1>1, <2>1, <2>3
    <3>. QED
      BY <2>2, <3>1
  <2>4. CASE IsOf(At(tab, m, k, n), k)
    <3> DEFINE s == M[n]
               d == At(tab, m, k, n)
               r == Append(s, d)
    <3>1. M[n + 1] = r
      BY <1>1, <2>1, <2>4
    <3>2. d \in Pairs
      BY <2>1, <2>4 DEF IsOf, Cells
    <3>3. s \in Seq(Pairs) /\ From(s, n) /\ Up(s) /\ Len(s) \in Nat
      BY <2>2, LenProperties
    <3> HIDE DEF s, d
    <3>4. Len(r) = Len(s) + 1 /\ r[Len(s) + 1] = d /\ \A a \in 1 .. Len(s) : r[a] = s[a]
      BY <3>2, <3>3, AppendProperties
    <3> HIDE DEF r
    <3>5. \A a \in 1 .. Len(r) : a \in 1 .. Len(s) \/ a = Len(s) + 1
      BY <3>3, <3>4
    <3>6. From(r, n + 1)
      <4> SUFFICES ASSUME NEW a \in 1 .. Len(r)
                   PROVE  \E i \in 0 .. m - 1 :
                             i < n + 1 /\ IsOf(At(tab, m, k, i), k) /\ r[a] = At(tab, m, k, i)
        OBVIOUS
      <4>1. CASE a = Len(s) + 1
        BY <2>1, <2>4, <3>4, <4>1 DEF d
      <4>2. CASE a \in 1 .. Len(s)
        <5>1. PICK i \in 0 .. m - 1 :
                 i < n /\ IsOf(At(tab, m, k, i), k) /\ s[a] = At(tab, m, k, i)
          BY <3>3, <4>2
        <5>2. i < n + 1
          BY <5>1
        <5>. QED
          BY <3>4, <4>2, <5>1, <5>2
      <4>. QED
        BY <3>5, <4>1, <4>2
    <3>7. Up(r)
      <4> SUFFICES ASSUME NEW a \in 1 .. Len(r), NEW b \in 1 .. Len(r), a < b
                   PROVE  r[a].val < r[b].val
        OBVIOUS
      <4>1. a \in 1 .. Len(s)
        BY <3>3, <3>4
      <4>2. CASE b \in 1 .. Len(s)
        BY <3>3, <3>4, <4>1, <4>2
      <4>3. CASE b = Len(s) + 1
        <5>1. PICK i \in 0 .. m - 1 :
                 i < n /\ IsOf(At(tab, m, k, i), k) /\ s[a] = At(tab, m, k, i)
          BY <3>3, <4>1
        <5>2. At(tab, m, k, i).val < At(tab, m, k, n).val
          BY <2>1, <2>4, <5>1
        <5>. QED
          BY <3>4, <4>1, <4>3, <5>1, <5>2 DEF d
      <4>. QED
        BY <3>5, <4>2, <4>3
    <3> HIDE DEF From, Up
    <3>. QED
      BY <3>1, <3>6, <3>7
  <2>. QED
    BY <2>3, <2>4
<1> HIDE DEF T
<1>4. Nat \subseteq T
  BY <1>2, <1>3, CountingUp
<1>5. From(M[m], m) /\ Up(M[m])
  BY <1>4 DEF T
<1>6. M[m] \in Seq(Pairs)
  BY <1>1
<1>7. InProbeOrder(tab, m, k) = M[m]
  BY DEF InProbeOrder, M
<1>8. \A a \in 1 .. Len(M[m]) :
         \E i \in 0 .. m - 1 : IsOf(At(tab, m, k, i), k) /\ M[m][a] = At(tab, m, k, i)
  BY <1>5
<1>. QED
  BY <1>5, <1>6, <1>7, <1>8
-----------------------------------------------------------------------------
(***************************************************************************)
(* The inductive invariant.  Between extensions the probe of a key meets   *)
(* its pairs in the order they were made, and no hole before the last of   *)
(* them; during one this is so of the new table, whose pairs are older     *)
(* than those of their keys that are still to be moved.                    *)
(***************************************************************************)
TableInOrder ==
    /\ Ascending(m_vHashTable, m_nCapacity)
    /\ (\A t \in Threads : ~Extending(t)) => NoHoles(m_vHashTable, m_nCapacity)

NewTableInOrder(t) ==
    Extending(t) =>
        /\ Ascending(vNewHashTable[t], nNewCapacity[t])
        /\ NoHoles(vNewHashTable[t], nNewCapacity[t])
        /\ Older(vNewHashTable[t], nNewCapacity[t], m_vHashTable, m_nCapacity)

\* What the loops have left behind: insertImpl no free cell, extendImpl no pair
\* of the key it moves, unless there is no place for it.
LoopInOrder(t) ==
    /\ pc[t] = "probe" /\ call[t].op = "insert" =>
          \A i \in 0 .. m_nCapacity - 1 :
              i < ik[t] => At(m_vHashTable, m_nCapacity, call[t].tKey, i) # nullptr
    /\ pc[t] = "move" =>
          \/ ~HasFreeStep(t)
          \/ \A i \in 0 .. m_nCapacity - 1 :
                i < ik[t] => ~IsOf(At(m_vHashTable, m_nCapacity, tMoved[t], i), tMoved[t])
    /\ pc[t] \in {"idle", "wrlock", "unlock"} => ik[t] = 0
    /\ pc[t] # "idle" => call[t].op # "remove"

OrderInv == TableInOrder /\ \A t \in Threads : NewTableInOrder(t) /\ LoopInOrder(t)

\* The hypothesis on the hash function, for the tables there are: no two steps
\* of a probe visit the same cell.  HashFunctionsProofs proves it of strings, and
\* of integers with a positive first hash, as long as size_t does not wrap; an
\* integer whose first hash is 0 sees cell 1 twice.
ProbesDoNotRepeat ==
    /\ VisitsOnce(m_nCapacity)
    /\ \A t \in Threads : Extending(t) => VisitsOnce(nNewCapacity[t])

\* A thread that a step does not concern.
LEMMA LoopKept ==
    ASSUME NEW t \in Threads, LoopInOrder(t), PCInv,
           pc'[t] = pc[t], call'[t] = call[t], ik'[t] = ik[t], tMoved'[t] = tMoved[t],
           nNewCapacity'[t] = nNewCapacity[t], vNewHashTable'[t] = vNewHashTable[t],
           \/ UNCHANGED <<m_vHashTable, m_nCapacity>>
           \/ ~ (InBody(t) /\ call[t].op \in WriteOps)
    PROVE  LoopInOrder(t)'
<1>1. pc[t] \in {"probe", "move"} => InBody(t)
  BY DEF InBody
<1>2. pc[t] = "move" => call[t].op \in WriteOps
  BY DEF PCInv, WriteOps
<1>3. ~ (InBody(t) /\ call[t].op \in WriteOps) =>
         pc[t] # "move" /\ ~ (pc[t] = "probe" /\ call[t].op = "insert")
  BY <1>1, <1>2 DEF WriteOps
<1>4. HasFreeStep(t)' <=> HasFreeStep(t)
  BY DEF HasFreeStep, IsFreeStep, NewCellNo
<1>. QED
  BY <1>3, <1>4 DEF LoopInOrder

\* A step of thread t leaves the locals of the others alone.
OnlyMine(t) ==
    \A u \in Threads \ {t} :
        /\ pc'[u] = pc[u] /\ call'[u] = call[u] /\ ik'[u] = ik[u]
        /\ tMoved'[u] = tMoved[u] /\ nNewCapacity'[u] = nNewCapacity[u]
        /\ vNewHashTable'[u] = vNewHashTable[u] /\ lOut'[u] = lOut[u]
        /\ iHits'[u] = iHits[u] /\ ret'[u] = ret[u]

LEMMA StepsAreMine ==
    ASSUME TypeOK, NEW t \in Threads, NEW c,
           Step(t) \/ Invoke(t, c)
    PROVE  OnlyMine(t)
<1> USE DEF TypeOK, OnlyMine, loopVars, extendVars, Goto, Leave, NextTurn, LookupOnly
<1>1. CASE Invoke(t, c)
  BY <1>1 DEF Invoke
<1>2. CASE AcquireRead(t) \/ AcquireReadAgain(t) \/ AcquireWrite(t)
  BY <1>2 DEF AcquireRead, AcquireReadAgain, AcquireWrite
<1>3. CASE Release(t)
  BY <1>3 DEF Release
<1>4. CASE Find(t) \/ EqualRange(t)
  BY <1>4 DEF Find, EqualRange
<1>5. CASE EqualRangeForPos(t)
  BY <1>5 DEF EqualRangeForPos
<1>6. CASE Size(t) \/ Empty(t) \/ Capacity(t)
  BY <1>6 DEF Size, Empty, Capacity
<1>7. CASE Insert(t)
  BY <1>7 DEF Insert
<1>8. CASE Remove(t)
  BY <1>8 DEF Remove
<1>9. CASE Clear(t)
  BY <1>9 DEF Clear
<1>10. CASE ExtendBegin(t)
  BY <1>10 DEF ExtendBegin, ExtendReturns, ForgetExtend
<1>11. CASE Rehash(t)
  BY <1>11 DEF Rehash, ExtendReturns, ForgetExtend
<1>12. CASE Move(t)
  BY <1>12 DEF Move
<1>. QED
  BY <1>1, <1>2, <1>3, <1>4, <1>5, <1>6, <1>7, <1>8, <1>9, <1>10, <1>11, <1>12 DEF Step

LEMMA ExtendersWrite ==
    ASSUME IInv, NEW t \in Threads, Extending(t)
    PROVE  Writing(t)
  BY DEF IInv, PCInv, Extending, Writing, InBody, WriteOps

LEMMA OneWrites ==
    ASSUME IInv, NEW t \in Threads, NEW u \in Threads, Writing(t), Writing(u)
    PROVE  t = u
<1>1. t \in m_mSharedMutex.writer /\ u \in m_mSharedMutex.writer
  BY DEF IInv, LockInv, Inside, Writing
<1>. QED
  BY <1>1 DEF IInv, LockInv

LEMMA OthersInOrder ==
    ASSUME IInv, OrderInv, NEW t \in Threads, OnlyMine(t),
           UNCHANGED <<m_vHashTable, m_nCapacity>> \/ Writing(t)
    PROVE  \A u \in Threads \ {t} :
              /\ Extending(u)' <=> Extending(u)
              /\ Writing(t) => ~Extending(u)
              /\ LoopInOrder(u)'
              /\ NewTableInOrder(u)'
<1> SUFFICES ASSUME NEW u \in Threads \ {t}
             PROVE  /\ Extending(u)' <=> Extending(u)
                    /\ Writing(t) => ~Extending(u)
                    /\ LoopInOrder(u)'
                    /\ NewTableInOrder(u)'
  OBVIOUS
<1>1. Extending(u)' <=> Extending(u)
  BY DEF OnlyMine, Extending
<1>2. Writing(t) => ~Writing(u)
  BY OneWrites
<1>3. Writing(t) => ~Extending(u)
  BY <1>2, ExtendersWrite
<1>4. LoopInOrder(u)'
  <2>1. LoopInOrder(u) /\ PCInv
    BY DEF OrderInv, IInv
  <2>2. UNCHANGED <<m_vHashTable, m_nCapacity>> \/ ~ (InBody(u) /\ call[u].op \in WriteOps)
    BY <1>2 DEF Writing
  <2>. QED
    BY <2>1, <2>2, LoopKept DEF OnlyMine
<1>5. NewTableInOrder(u)'
  <2> SUFFICES ASSUME Extending(u)'
               PROVE  NewTableInOrder(u)'
    BY DEF NewTableInOrder
  <2>1. UNCHANGED <<m_vHashTable, m_nCapacity>>
    BY <1>1, <1>3
  <2>2. NewTableInOrder(u)
    BY DEF OrderInv
  <2>. QED
    BY <1>1, <2>1, <2>2 DEF OnlyMine, NewTableInOrder, Ascending, NoHoles, Older, At
<1>. QED
  BY <1>1, <1>3, <1>4, <1>5

\* A step that changes no table, before or after an extension.
LEMMA QuietInOrder ==
    ASSUME IInv, OrderInv, NEW t \in Threads, OnlyMine(t),
           UNCHANGED <<m_vHashTable, m_nCapacity>>,
           ~Extending(t), ~Extending(t)', LoopInOrder(t)'
    PROVE  OrderInv'
<1>1. \A u \in Threads \ {t} : /\ Extending(u)' <=> Extending(u)
                               /\ LoopInOrder(u)' /\ NewTableInOrder(u)'
  BY OthersInOrder
<1>2. NewTableInOrder(t)'
  BY DEF NewTableInOrder
<1>3. (\A u \in Threads : ~Extending(u))' => \A u \in Threads : ~Extending(u)
  BY <1>1
<1>4. TableInOrder'
  BY <1>3 DEF OrderInv, TableInOrder, Ascending, NoHoles, At
<1>. QED
  BY <1>1, <1>2, <1>4 DEF OrderInv

LEMMA LockStepsInOrder ==
    ASSUME "remove" \notin Ops, IInv, OrderInv, NEW t \in Threads, NEW c \in Calls,
           Invoke(t, c) \/ AcquireRead(t) \/ AcquireReadAgain(t) \/ AcquireWrite(t) \/ Release(t)
    PROVE  OrderInv'
<1>1. OnlyMine(t)
  BY StepsAreMine DEF IInv, Step
<1>2. UNCHANGED <<m_vHashTable, m_nCapacity>>
  BY DEF Invoke, AcquireRead, AcquireReadAgain, AcquireWrite, Release, tableVars
<1>3. LoopInOrder(t) /\ TypeOK /\ PCInv
  BY DEF OrderInv, IInv
<1>4. ~Extending(t)
  BY DEF Invoke, AcquireRead, AcquireReadAgain, AcquireWrite, Release, Extending
<1>5. ~Extending(t)' /\ LoopInOrder(t)'
  <2>1. CASE Invoke(t, c)
    BY <1>3, <2>1 DEF Invoke, Goto, LoopInOrder, TypeOK, Extending, loopVars
  <2>2. CASE AcquireRead(t)
    <3>1. call[t].op \in ReadOps /\ call[t].op \in {"find", "equalRange", "operator[]", "size", "empty", "capacity"}
      BY <1>3, <2>2 DEF AcquireRead, PCInv, ReadOps
    <3>2. Entry(call[t]) \in {"probe", "scan", "read"}
      BY <3>1 DEF Entry
    <3>. QED
      BY <1>3, <2>2, <3>1, <3>2 DEF AcquireRead, Goto, LoopInOrder, TypeOK, Extending, loopVars
  <2>3. CASE AcquireReadAgain(t)
    <3>1. call[t].op = "find"
      BY <1>3, <2>3 DEF AcquireReadAgain, PCInv
    <3>. QED
      BY <1>3, <2>3, <3>1 DEF AcquireReadAgain, Goto, LoopInOrder, TypeOK, Extending, loopVars
  <2>4. CASE AcquireWrite(t)
    <3>1. call[t].op \in {"insert", "remove", "extend", "clear"}
      BY <1>3, <2>4 DEF AcquireWrite, PCInv, WriteOps
    <3>2. Entry(call[t]) \in {"probe", "extend", "clear"}
      BY <3>1 DEF Entry
    <3>3. ik[t] = 0 /\ call[t].op # "remove"
      BY <1>3, <2>4 DEF AcquireWrite, LoopInOrder
    <3>. QED
      BY <1>3, <2>4, <3>2, <3>3 DEF AcquireWrite, Goto, LoopInOrder, TypeOK, Extending, loopVars
  <2>5. CASE Release(t)
    BY <1>3, <2>5 DEF Release, Goto, LoopInOrder, TypeOK, Extending, loopVars
  <2>. QED
    BY <2>1, <2>2, <2>3, <2>4, <2>5
<1>. QED
  BY <1>1, <1>2, <1>4, <1>5, QuietInOrder

LEMMA ReadersInOrder ==
    ASSUME HashInRange, IInv, OrderInv, NEW t \in Threads, Reader(t)
    PROVE  OrderInv'
<1>1. OnlyMine(t)
  BY StepsAreMine DEF IInv, Step, Reader
<1>2. UNCHANGED <<m_vHashTable, m_nCapacity, call>>
  BY ReaderFrame DEF tableVars
<1>3. LoopInOrder(t) /\ TypeOK /\ PCInv
  BY DEF OrderInv, IInv
<1>4. call[t].op \notin WriteOps /\ pc[t] \in {"probe", "scan", "read"}
  BY DEF Reader, Find, EqualRange, WholeRange, EqualRangeForPos, Size, Empty, Capacity,
         WriteOps, Probing
<1>5. \/ pc'[t] = "unlock" /\ ik'[t] = 0
      \/ pc'[t] = pc[t]
  BY <1>3 DEF Reader, Find, EqualRange, EqualRangeForPos, Size, Empty, Capacity, Leave,
              NextTurn, TypeOK
<1>6. ~Extending(t) /\ ~Extending(t)'
  BY <1>4, <1>5 DEF Extending
<1>7. LoopInOrder(t)'
  BY <1>2, <1>3, <1>4, <1>5 DEF LoopInOrder, WriteOps
<1>. QED
  BY <1>1, <1>2, <1>6, <1>7, QuietInOrder
-----------------------------------------------------------------------------
\* What the steps of a writer may rely on.
LEMMA WriterAlonePremises ==
    ASSUME HashInRange, IInv, OrderInv, NEW t \in Threads, Writing(t)
    PROVE  /\ m_nCapacity \in Nat \ {0}
           /\ m_vHashTable \in [0 .. m_nCapacity - 1 -> Cells]
           /\ ik[t] \in Nat
           /\ LoopInOrder(t) /\ NewTableInOrder(t)
           /\ Ascending(m_vHashTable, m_nCapacity)
           /\ ~Extending(t) => NoHoles(m_vHashTable, m_nCapacity)
           /\ Extending(t) => /\ nNewCapacity[t] \in Nat \ {0}
                              /\ vNewHashTable[t] \in [0 .. nNewCapacity[t] - 1 -> Cells]
<1>1. TypeOK /\ PCInv
  BY DEF IInv
<1>2. \A u \in Threads \ {t} : ~Extending(u)
  BY OneWrites, ExtendersWrite
<1>3. Extending(t) => nNewCapacity[t] \in Nat \ {0}
  BY <1>1 DEF TypeOK, PCInv
<1>4. Extending(t) => vNewHashTable[t] \in [0 .. nNewCapacity[t] - 1 -> Cells]
  BY <1>1 DEF TypeOK
<1>. QED
  BY <1>1, <1>2, <1>3, <1>4 DEF TypeOK, OrderInv, TableInOrder

LEMMA InsertInOrder ==
    ASSUME HashInRange, IInv, PlaceInv, OrderInv, ProbesDoNotRepeat,
           NEW t \in Threads, Insert(t)
    PROVE  OrderInv'
<1>1. OnlyMine(t) /\ TypeOK /\ PCInv
  BY StepsAreMine DEF IInv, Step
<1>2. call[t].op = "insert" /\ pc[t] = "probe" /\ Writing(t) /\ ~Extending(t)
  BY DEF Insert, Probing, Writing, WriteOps, InBody, Extending
<1>3. /\ m_nCapacity \in Nat \ {0}
      /\ m_vHashTable \in [0 .. m_nCapacity - 1 -> Cells]
      /\ ik[t] \in Nat
      /\ LoopInOrder(t)
      /\ Ascending(m_vHashTable, m_nCapacity)
      /\ NoHoles(m_vHashTable, m_nCapacity)
  BY <1>2, WriterAlonePremises
<1>4. /\ call' = call
      /\ \A i \in 0 .. m_nCapacity - 1 :
            i < ik[t] => At(m_vHashTable, m_nCapacity, call[t].tKey, i) # nullptr
      /\ call[t].op # "remove"
  BY <1>2, <1>3 DEF LoopInOrder, Insert
<1>5. CASE /\ Probing(t) /\ Cell(t) = nullptr
           /\ m_vHashTable' = [m_vHashTable EXCEPT ![CellNo(t)] =
                                 [key |-> call[t].tKey, val |-> nPairs + 1]]
           /\ Leave(t, Void)
           /\ UNCHANGED <<m_nCapacity, extendVars>>
  <2> DEFINE k == call[t].tKey
             p == [key |-> k, val |-> nPairs + 1]
  <2>1. k \in Keys /\ ik[t] \in 0 .. m_nCapacity - 1
    BY <1>1, <1>3, <1>5, CellInTable DEF Probing
  <2>2. p \in Pairs /\ p.key = k /\ p.val = nPairs + 1
    BY <1>1, <2>1 DEF Pairs, TypeOK
  <2>3. /\ At(m_vHashTable, m_nCapacity, k, ik[t]) = nullptr
        /\ m_vHashTable' = [m_vHashTable EXCEPT ![hashFunction(m_nCapacity, k, ik[t])] = p]
    BY <1>5 DEF Cell, CellNo, At
  <2> HIDE DEF p
  <2>4. \A i \in 0 .. m_nCapacity - 1 :
           IsOf(At(m_vHashTable, m_nCapacity, k, i), k)
              => At(m_vHashTable, m_nCapacity, k, i).val < p.val
    <3> SUFFICES ASSUME NEW i \in 0 .. m_nCapacity - 1,
                        IsOf(At(m_vHashTable, m_nCapacity, k, i), k)
                 PROVE  At(m_vHashTable, m_nCapacity, k, i).val < p.val
      OBVIOUS
    <3> DEFINE q == At(m_vHashTable, m_nCapacity, k, i)
    <3>1. hashFunction(m_nCapacity, k, i) \in DOMAIN m_vHashTable
      BY <1>3, <2>1, StepInTable
    <3>2. q \in PairsIn(m_vHashTable)
      BY <3>1 DEF At, IsOf, PairsIn
    <3>3. q \in Pairs /\ q.val <= nPairs
      BY <1>3, <3>2 DEF PlaceInv, Stored, PairsIn, Cells
    <3>. QED
      BY <1>1, <2>2, <3>3 DEF Pairs, TypeOK
  <2>5. VisitsOnce(m_nCapacity)
    BY DEF ProbesDoNotRepeat
  <2>6. Ascending(m_vHashTable', m_nCapacity) /\ NoHoles(m_vHashTable', m_nCapacity)
    <3> HIDE DEF k
    <3>1. \A i \in 0 .. m_nCapacity - 1 :
             i < ik[t] => At(m_vHashTable, m_nCapacity, k, i) # nullptr
      BY <1>4 DEF k
    <3>. QED
      BY <1>3, <2>1, <2>2, <2>3, <2>4, <2>5, <3>1, PutOrdered
  <2>7. pc'[t] = "unlock" /\ ik'[t] = 0
    BY <1>1, <1>5 DEF Leave, TypeOK
  <2>8. TableInOrder'
    BY <1>5, <2>6 DEF TableInOrder, Ascending, NoHoles, At
  <2>9. NewTableInOrder(t)' /\ LoopInOrder(t)'
    BY <1>4, <2>7 DEF NewTableInOrder, LoopInOrder, Extending
  <2>. QED
    BY <1>1, <1>2, <2>8, <2>9, OthersInOrder DEF OrderInv
<1>6. CASE /\ Probing(t) /\ Cell(t) # nullptr
           /\ NextTurn(t, iHits[t], lOut[t])
           /\ UNCHANGED <<tableVars, extendVars>>
  <2>1. pc'[t] = "probe" /\ ik'[t] = ik[t] + 1 /\ UNCHANGED <<m_vHashTable, m_nCapacity>>
    BY <1>1, <1>2, <1>6 DEF NextTurn, TypeOK, tableVars
  <2>2. At(m_vHashTable, m_nCapacity, call[t].tKey, ik[t]) # nullptr
    BY <1>6 DEF Cell, CellNo, At
  <2>3. \A i \in 0 .. m_nCapacity - 1 :
           i < ik[t] + 1 => At(m_vHashTable, m_nCapacity, call[t].tKey, i) # nullptr
    BY <1>3, <1>4, <2>2
  <2>4. LoopInOrder(t)' /\ ~Extending(t)'
    BY <1>4, <2>1, <2>3 DEF LoopInOrder, Extending, At
  <2>. QED
    BY <1>1, <1>2, <2>1, <2>4, QuietInOrder
<1>7. CASE Goto(t, "extend") /\ UNCHANGED <<tableVars, loopVars>>
  <2>1. pc'[t] = "extend" /\ UNCHANGED <<m_vHashTable, m_nCapacity>>
    BY <1>1, <1>7 DEF Goto, TypeOK, tableVars
  <2>2. LoopInOrder(t)' /\ ~Extending(t)'
    BY <1>4, <2>1 DEF LoopInOrder, Extending
  <2>. QED
    BY <1>1, <1>2, <2>1, <2>2, QuietInOrder
<1>. QED
  BY <1>5, <1>6, <1>7 DEF Insert

LEMMA ClearInOrder ==
    ASSUME HashInRange, IInv, OrderInv, NEW t \in Threads, Clear(t)
    PROVE  OrderInv'
<1>1. OnlyMine(t) /\ TypeOK
  BY StepsAreMine DEF IInv, Step
<1>2. Writing(t) /\ call' = call /\ call[t].op = "clear"
  BY DEF Clear, Writing, WriteOps, InBody
<1>3. pc'[t] = "unlock" /\ ik'[t] = 0
  BY <1>1 DEF Clear, Leave, TypeOK
<1>4. /\ m_vHashTable' = NewTable(DefaultCapacity) /\ m_nCapacity' = DefaultCapacity
      /\ DefaultCapacity \in Nat \ {0}
  BY InterfaceAssumption DEF Clear
<1>5. TableInOrder'
  <2>1. /\ Ascending(NewTable(DefaultCapacity), DefaultCapacity)
        /\ NoHoles(NewTable(DefaultCapacity), DefaultCapacity)
    BY <1>4, EmptyOrdered
  <2>. QED
    BY <1>4, <2>1 DEF TableInOrder, Ascending, NoHoles, At
<1>6. NewTableInOrder(t)' /\ LoopInOrder(t)'
  BY <1>2, <1>3 DEF NewTableInOrder, LoopInOrder, Extending
<1>. QED
  BY <1>1, <1>2, <1>5, <1>6, OthersInOrder DEF OrderInv

LEMMA ExtendReturnsInOrder ==
    ASSUME NEW t \in Threads, TypeOK, ExtendReturns(t), call' = call, LoopInOrder(t), pc[t] # "idle"
    PROVE  /\ LoopInOrder(t)' /\ NewTableInOrder(t)' /\ ~Extending(t)'
<1>1. \/ pc'[t] = "probe" /\ ik'[t] = 0
      \/ pc'[t] = "unlock" /\ ik'[t] = 0
  BY DEF ExtendReturns, Leave, Goto, TypeOK
<1>2. \A i \in 0 .. m_nCapacity' - 1 : ~ (i < 0)
  OBVIOUS
<1>. QED
  BY <1>1, <1>2 DEF LoopInOrder, NewTableInOrder, Extending

LEMMA ExtendBeginInOrder ==
    ASSUME HashInRange, IInv, OrderInv, NEW t \in Threads, ExtendBegin(t)
    PROVE  OrderInv'
<1>1. OnlyMine(t) /\ TypeOK /\ PCInv
  BY StepsAreMine DEF IInv, Step
<1>2. /\ pc[t] = "extend" /\ Writing(t) /\ call' = call /\ ~Extending(t)
      /\ UNCHANGED <<m_vHashTable, m_nCapacity>>
  BY <1>1 DEF ExtendBegin, Writing, WriteOps, InBody, PCInv, Extending, tableVars
<1>3. LoopInOrder(t) /\ m_nCapacity \in Nat \ {0} /\ Ascending(m_vHashTable, m_nCapacity)
  BY <1>2, WriterAlonePremises
<1>4. CASE ExtendReturns(t)
  BY <1>1, <1>2, <1>3, <1>4, ExtendReturnsInOrder, QuietInOrder
<1>5. CASE /\ nNewCapacity[t] > m_nCapacity
           /\ vNewHashTable' = [vNewHashTable EXCEPT ![t] = NewTable(nNewCapacity[t])]
           /\ Goto(t, "rehash")
           /\ UNCHANGED <<ret, loopVars, nNewCapacity, tMoved>>
  <2> DEFINE n == nNewCapacity[t]
  <2>1. n \in Nat \ {0} /\ nNewCapacity'[t] = n
    BY <1>1, <1>3, <1>5 DEF TypeOK
  <2>2. vNewHashTable'[t] = NewTable(n) /\ pc'[t] = "rehash"
    BY <1>1, <1>5 DEF TypeOK, Goto
  <2> HIDE DEF n
  <2>3. /\ Ascending(NewTable(n), n) /\ NoHoles(NewTable(n), n)
        /\ Older(NewTable(n), n, m_vHashTable, m_nCapacity)
    BY <2>1, EmptyOrdered
  <2>4. NewTableInOrder(t)'
    BY <1>2, <2>1, <2>2, <2>3 DEF NewTableInOrder, Ascending, NoHoles, Older, At
  <2>5. LoopInOrder(t)' /\ Extending(t)'
    BY <1>2, <1>3, <2>2 DEF LoopInOrder, Extending
  <2>6. TableInOrder'
    BY <1>2, <1>3, <2>5 DEF TableInOrder, Ascending, At
  <2>. QED
    BY <1>1, <1>2, <2>4, <2>5, <2>6, OthersInOrder DEF OrderInv
<1>. QED
  BY <1>4, <1>5 DEF ExtendBegin

LEMMA RehashInOrder ==
    ASSUME HashInRange, IInv, OrderInv, NEW t \in Threads, Rehash(t)
    PROVE  OrderInv'
<1>1. OnlyMine(t) /\ TypeOK /\ PCInv
  BY StepsAreMine DEF IInv, Step
<1>2. pc[t] = "rehash" /\ Writing(t) /\ call' = call /\ Extending(t)
  BY <1>1 DEF Rehash, Writing, WriteOps, InBody, PCInv, Extending
<1>3. LoopInOrder(t) /\ NewTableInOrder(t) /\ Ascending(m_vHashTable, m_nCapacity)
  BY <1>2, WriterAlonePremises
<1>4. CASE /\ tMoved' = tMoved' /\ ik' = [ik EXCEPT ![t] = 0] /\ Goto(t, "move")
           /\ UNCHANGED <<tableVars, nNewCapacity, vNewHashTable>>
  <2>1. /\ pc'[t] = "move" /\ ik'[t] = 0
        /\ UNCHANGED <<m_vHashTable, m_nCapacity, nNewCapacity, vNewHashTable>>
    BY <1>1, <1>4 DEF Goto, TypeOK, tableVars
  <2>2. \A i \in 0 .. m_nCapacity' - 1 : ~ (i < 0)
    OBVIOUS
  <2>3. LoopInOrder(t)' /\ Extending(t)'
    BY <1>2, <1>3, <2>1, <2>2 DEF LoopInOrder, Extending
  <2>4. NewTableInOrder(t)'
    BY <1>2, <1>3, <2>1 DEF NewTableInOrder, Ascending, NoHoles, Older, At
  <2>5. TableInOrder'
    BY <1>3, <2>1, <2>3 DEF TableInOrder, Ascending, At
  <2>. QED
    BY <1>1, <1>2, <2>3, <2>4, <2>5, OthersInOrder DEF OrderInv
<1>5. CASE /\ m_vHashTable' = vNewHashTable[t] /\ m_nCapacity' = nNewCapacity[t]
           /\ ExtendReturns(t)
  <2>1. LoopInOrder(t)' /\ NewTableInOrder(t)'
    BY <1>1, <1>2, <1>3, <1>5, ExtendReturnsInOrder
  <2>2. TableInOrder'
    BY <1>2, <1>3, <1>5 DEF NewTableInOrder, TableInOrder, Ascending, NoHoles, At
  <2>. QED
    BY <1>1, <1>2, <2>1, <2>2, OthersInOrder DEF OrderInv
<1>. QED
  BY <1>4, <1>5 DEF Rehash

\* extendImpl's loop leaves pairs of other keys alone and takes those of its key
\* in the order of their probe, so each is younger than those it moved before.
LEMMA MoveInOrder ==
    ASSUME HashInRange, IInv, OrderInv, ProbesDoNotRepeat,
           NEW t \in Threads, Move(t)
    PROVE  OrderInv'
<1> DEFINE k == tMoved[t]
           m == m_nCapacity
           n == nNewCapacity[t]
           p == At(m_vHashTable, m, k, ik[t])
<1>1. OnlyMine(t) /\ TypeOK /\ PCInv
  BY StepsAreMine DEF IInv, Step
<1>2. pc[t] = "move" /\ Writing(t) /\ Extending(t) /\ k \in Keys
  BY <1>1 DEF Move, Writing, WriteOps, InBody, PCInv, Extending
<1>3. UNCHANGED <<m_nCapacity, call, nNewCapacity, tMoved>>
  BY DEF Move
<1>4. /\ m \in Nat \ {0} /\ n \in Nat \ {0} /\ ik[t] \in Nat
      /\ m_vHashTable \in [0 .. m - 1 -> Cells]
      /\ vNewHashTable[t] \in [0 .. n - 1 -> Cells]
      /\ LoopInOrder(t) /\ NewTableInOrder(t) /\ Ascending(m_vHashTable, m)
  BY <1>2, WriterAlonePremises
<1>5. /\ Ascending(vNewHashTable[t], n) /\ NoHoles(vNewHashTable[t], n)
      /\ Older(vNewHashTable[t], n, m_vHashTable, m)
  BY <1>2, <1>4 DEF NewTableInOrder
<1>6. call[t].op # "remove"
  BY <1>2, <1>4 DEF LoopInOrder
<1>7. VisitsOnce(m) /\ VisitsOnce(n)
  BY <1>2 DEF ProbesDoNotRepeat
<1>8. CASE /\ Goto(t, "rehash") /\ UNCHANGED <<m_vHashTable, ik, vNewHashTable>>
  <2>1. pc'[t] = "rehash"
    BY <1>1, <1>8 DEF Goto, TypeOK
  <2>2. LoopInOrder(t)' /\ Extending(t)'
    BY <1>3, <1>6, <2>1 DEF LoopInOrder, Extending
  <2>3. NewTableInOrder(t)' /\ TableInOrder'
    BY <1>3, <1>4, <1>5, <1>8, <2>2
       DEF NewTableInOrder, TableInOrder, Ascending, NoHoles, Older, At
  <2>. QED
    BY <1>1, <1>2, <2>2, <2>3, OthersInOrder DEF OrderInv
<1>9. CASE /\ ik[t] < m /\ ~ (IsOf(p, k) /\ HasFreeStep(t))
           /\ ik' = [ik EXCEPT ![t] = @ + 1]
           /\ UNCHANGED <<m_vHashTable, pc, vNewHashTable>>
  <2>1. ik'[t] = ik[t] + 1 /\ pc'[t] = "move"
    BY <1>1, <1>2, <1>9 DEF TypeOK
  <2>2. HasFreeStep(t)' <=> HasFreeStep(t)
    BY <1>3, <1>9 DEF HasFreeStep, IsFreeStep, NewCellNo
  <2>3. \/ ~HasFreeStep(t)
        \/ \A i \in 0 .. m - 1 : i < ik[t] + 1 => ~IsOf(At(m_vHashTable, m, k, i), k)
    <3>1. \/ ~HasFreeStep(t)
          \/ \A i \in 0 .. m - 1 : i < ik[t] => ~IsOf(At(m_vHashTable, m, k, i), k)
      BY <1>2, <1>4 DEF LoopInOrder
    <3>2. HasFreeStep(t) => ~IsOf(p, k)
      BY <1>9
    <3>3. \A i \in 0 .. m - 1 : i < ik[t] + 1 => i < ik[t] \/ i = ik[t]
      BY <1>4
    <3>. QED
      BY <3>1, <3>2, <3>3
  <2>4. LoopInOrder(t)' /\ Extending(t)'
    BY <1>3, <1>6, <1>9, <2>1, <2>2, <2>3 DEF LoopInOrder, Extending
  <2>5. NewTableInOrder(t)' /\ TableInOrder'
    BY <1>3, <1>4, <1>5, <1>9, <2>4
       DEF NewTableInOrder, TableInOrder, Ascending, NoHoles, Older, At
  <2>. QED
    BY <1>1, <1>2, <2>4, <2>5, OthersInOrder DEF OrderInv
<1>10. ASSUME NEW j \in 0 .. n - 1, IsFirstFreeStep(t, j), HasFreeStep(t), IsOf(p, k),
              ik[t] < m,
              vNewHashTable' = [vNewHashTable EXCEPT ![t][hashFunction(n, k, j)] = p],
              m_vHashTable' = Emptied(m_vHashTable, hashFunction(m, k, ik[t])),
              ik' = [ik EXCEPT ![t] = @ + 1], pc' = pc
       PROVE  OrderInv'
  <2> DEFINE old == m_vHashTable
             tab == Emptied(old, hashFunction(m, k, ik[t]))
             new == [vNewHashTable[t] EXCEPT ![hashFunction(n, k, j)] = p]
  <2>1. ik[t] \in 0 .. m - 1 /\ ik'[t] = ik[t] + 1
    BY <1>1, <1>4, <1>10 DEF TypeOK
  <2>2. vNewHashTable'[t] = new
    BY <1>1, <1>10 DEF TypeOK
  <2>3. hashFunction(m, k, ik[t]) \in 0 .. m - 1
    BY <1>2, <1>4, <2>1, StepInTable
  <2>4. p \in Pairs /\ p.key = k /\ p # nullptr
    <3>1. p \in Cells
      BY <1>4, <2>3 DEF At
    <3> HIDE DEF p, k
    <3>. QED
      BY <1>10, <3>1 DEF IsOf, Cells
  <2>5. /\ \A l \in Keys : \A i \in 0 .. m - 1 :
              At(tab, m, l, i) =
                 IF hashFunction(m, l, i) = hashFunction(m, k, ik[t]) THEN nullptr
                 ELSE At(old, m, l, i)
        /\ Ascending(tab, m)
    BY <1>4, <2>3, TakeOrdered
  <2>6. /\ At(vNewHashTable[t], n, k, j) = nullptr
        /\ \A i \in 0 .. n - 1 : i < j => At(vNewHashTable[t], n, k, i) # nullptr
    BY <1>4, <1>10 DEF IsFirstFreeStep, IsFreeStep, NewCellNo, At
  <2>7. \A i \in 0 .. n - 1 :
           IsOf(At(vNewHashTable[t], n, k, i), k)
             => At(vNewHashTable[t], n, k, i).val < p.val
    BY <1>2, <1>5, <1>10, <2>1 DEF Older
  <2>8. Ascending(new, n) /\ NoHoles(new, n) /\ Adds(new, vNewHashTable[t], n, k, j, p)
    <3> DEFINE vn == vNewHashTable[t]
    <3>1. /\ vn \in [0 .. n - 1 -> Cells] /\ n \in Nat \ {0}
          /\ VisitsOnce(n) /\ Ascending(vn, n) /\ NoHoles(vn, n)
          /\ At(vn, n, k, j) = nullptr
          /\ \A i \in 0 .. n - 1 : i < j => At(vn, n, k, i) # nullptr
          /\ \A i \in 0 .. n - 1 : IsOf(At(vn, n, k, i), k) => At(vn, n, k, i).val < p.val
          /\ k \in Keys /\ new = [vn EXCEPT ![hashFunction(n, k, j)] = p]
      BY <1>2, <1>4, <1>5, <1>7, <2>6, <2>7
    <3> HIDE DEF k, m, n, p, vn, new
    <3>2. Ascending(new, n) /\ NoHoles(new, n) /\ Adds(new, vn, n, k, j, p)
      BY <2>4, <3>1, PutOrdered
    <3>. QED
      BY <3>2 DEF vn
  \* No pair of the key is left that its probe meets before this step.
  <2>9. \A i \in 0 .. m - 1 : i < ik[t] => ~IsOf(At(old, m, k, i), k)
    BY <1>2, <1>4, <1>10 DEF LoopInOrder
  <2>10. \A i \in 0 .. m - 1 :
            IsOf(At(tab, m, k, i), k) => i > ik[t] /\ IsOf(At(old, m, k, i), k)
                                         /\ At(tab, m, k, i) = At(old, m, k, i)
    <3> SUFFICES ASSUME NEW i \in 0 .. m - 1, IsOf(At(tab, m, k, i), k)
                 PROVE  i > ik[t] /\ IsOf(At(old, m, k, i), k)
                        /\ At(tab, m, k, i) = At(old, m, k, i)
      OBVIOUS
    <3>1. At(tab, m, k, i) =
             IF hashFunction(m, k, i) = hashFunction(m, k, ik[t]) THEN nullptr
             ELSE At(old, m, k, i)
      BY <1>2, <2>5
    <3> HIDE DEF k, m, tab, old
    <3>2. hashFunction(m, k, i) # hashFunction(m, k, ik[t])
          /\ At(tab, m, k, i) = At(old, m, k, i) /\ IsOf(At(old, m, k, i), k)
      BY <3>1 DEF IsOf
    <3>3. i # ik[t] /\ ~ (i < ik[t])
      BY <2>9, <3>2
    <3>. QED
      BY <1>4, <2>1, <3>2, <3>3
  <2>11. Older(new, n, tab, m)
    <3> SUFFICES ASSUME NEW l \in Keys, NEW i \in 0 .. n - 1, NEW s \in 0 .. m - 1,
                        IsOf(At(new, n, l, i), l), IsOf(At(tab, m, l, s), l)
                 PROVE  At(new, n, l, i).val < At(tab, m, l, s).val
      BY DEF Older
    <3> HIDE DEF k, m, n, p, new
    <3>1. CASE l = k /\ At(new, n, l, i) = p
      <4>1. s > ik[t] /\ IsOf(At(old, m, k, s), k) /\ At(tab, m, k, s) = At(old, m, k, s)
        BY <2>10, <3>1
      <4>2. At(old, m, k, ik[t]).val < At(old, m, k, s).val
        BY <1>2, <1>4, <1>10, <2>1, <4>1 DEF Ascending, p
      <4>. QED
        BY <3>1, <4>1, <4>2 DEF p
    <3>2. CASE /\ IsOf(At(vNewHashTable[t], n, l, i), l)
               /\ At(new, n, l, i) = At(vNewHashTable[t], n, l, i)
      <4>1. At(tab, m, l, s) = At(old, m, l, s)
        <5> HIDE DEF tab, old
        <5>. QED
          BY <2>5 DEF IsOf
      <4>. QED
        BY <1>5, <3>2, <4>1 DEF Older
    <3>. QED
      BY <2>8, <3>1, <3>2 DEF Adds
  <2>12. Extending(t)' /\ pc'[t] = "move"
    BY <1>2, <1>10 DEF Extending
  <2>13. LoopInOrder(t)'
    <3>1. \A i \in 0 .. m - 1 : i < ik[t] + 1 => ~IsOf(At(tab, m, k, i), k)
      BY <1>4, <2>10
    <3>. QED
      BY <1>3, <1>6, <1>10, <2>1, <2>12, <3>1 DEF LoopInOrder
  <2>14. NewTableInOrder(t)'
    BY <1>3, <1>10, <2>2, <2>8, <2>11
       DEF NewTableInOrder, Ascending, NoHoles, Older, At
  <2>15. TableInOrder'
    BY <1>3, <1>10, <2>5, <2>12 DEF TableInOrder, Ascending, At
  <2>. QED
    BY <1>1, <1>2, <2>13, <2>14, <2>15, OthersInOrder DEF OrderInv
<1>. QED
  <2>1. hashFunction(m_nCapacity, tMoved[t], ik[t]) = hashFunction(m, k, ik[t])
        /\ m_vHashTable[hashFunction(m, k, ik[t])] = p
    BY DEF At
  <2>2. CASE ik[t] >= m_nCapacity /\ Goto(t, "rehash") /\ UNCHANGED <<m_vHashTable, ik, vNewHashTable>>
    BY <1>8, <2>2
  <2>3. CASE /\ ik[t] < m_nCapacity
             /\ IsOf(p, k) /\ HasFreeStep(t)
             /\ \E j \in 0 .. nNewCapacity[t] - 1 :
                   /\ IsFirstFreeStep(t, j)
                   /\ vNewHashTable' = [vNewHashTable EXCEPT ![t][hashFunction(n, k, j)] = p]
             /\ m_vHashTable' = Emptied(m_vHashTable, hashFunction(m, k, ik[t]))
             /\ ik' = [ik EXCEPT ![t] = @ + 1]
             /\ UNCHANGED pc
    BY <1>10, <2>3
  <2>4. CASE /\ ik[t] < m_nCapacity
             /\ ~ (IsOf(p, k) /\ HasFreeStep(t))
             /\ ik' = [ik EXCEPT ![t] = @ + 1]
             /\ UNCHANGED <<m_vHashTable, pc, vNewHashTable>>
    BY <1>9, <2>4
  <2>. QED
    BY <2>1, <2>2, <2>3, <2>4 DEF Move, NewCellNo, IsOf
-----------------------------------------------------------------------------
LEMMA OrderInitially ==
    ASSUME HashInRange
    PROVE  Init => OrderInv
<1> SUFFICES ASSUME Init
             PROVE  OrderInv
  OBVIOUS
<1>1. /\ Ascending(NewTable(DefaultCapacity), DefaultCapacity)
      /\ NoHoles(NewTable(DefaultCapacity), DefaultCapacity)
  BY EmptyOrdered, InterfaceAssumption
<1>2. \A t \in Threads : pc[t] = "idle" /\ ik[t] = 0
  BY DEF Init
<1>3. TableInOrder
  BY <1>1 DEF Init, TableInOrder
<1>. QED
  BY <1>2, <1>3 DEF OrderInv, NewTableInOrder, LoopInOrder, Extending

LEMMA OrderStep ==
    ASSUME HashInRange, "remove" \notin Ops, IInv, PlaceInv, OrderInv, ProbesDoNotRepeat,
           [Next]_vars
    PROVE  OrderInv'
<1>1. CASE UNCHANGED vars
  BY <1>1 DEF vars, tableVars, loopVars, extendVars, OrderInv, TableInOrder, NewTableInOrder,
              LoopInOrder, Extending, HasFreeStep, IsFreeStep, NewCellNo, Ascending, NoHoles,
              Older, At
<1>2. ASSUME NEW t \in Threads, NEW c \in Calls, Invoke(t, c)
      PROVE  OrderInv'
  BY <1>2, LockStepsInOrder
<1>3. ASSUME NEW t \in Threads, Step(t)
      PROVE  OrderInv'
  <2>1. CASE AcquireRead(t) \/ AcquireReadAgain(t) \/ AcquireWrite(t) \/ Release(t)
    <3>1. pc[t] # "idle" => call[t] \in Calls
      BY DEF IInv, PCInv
    <3>2. call[t] \in Calls
      BY <2>1, <3>1 DEF AcquireRead, AcquireReadAgain, AcquireWrite, Release
    <3>. QED
      BY <2>1, <3>2, LockStepsInOrder
  <2>2. CASE Reader(t)
    BY <2>2, ReadersInOrder
  <2>3. CASE Insert(t)
    BY <2>3, InsertInOrder
  <2>4. CASE Remove(t)
    <3>1. pc[t] = "probe" /\ call[t].op = "remove"
      BY <2>4 DEF Remove, Probing
    <3>. QED
      BY <3>1 DEF OrderInv, LoopInOrder
  <2>5. CASE Clear(t)
    BY <2>5, ClearInOrder
  <2>6. CASE ExtendBegin(t)
    BY <2>6, ExtendBeginInOrder
  <2>7. CASE Rehash(t)
    BY <2>7, RehashInOrder
  <2>8. CASE Move(t)
    BY <2>8, MoveInOrder
  <2>. QED
    BY <1>3, <2>1, <2>2, <2>3, <2>4, <2>5, <2>6, <2>7, <2>8 DEF Step, Reader
<1>. QED
  BY <1>1, <1>2, <1>3 DEF Next

\* The tables one after the other list the pairs of a key as InOrder does.
LEMMA InOrderAscends ==
    ASSUME HashInRange, IInv, OrderInv
    PROVE  InsertionOrder
<1> SUFFICES ASSUME NEW k \in Keys
             PROVE  \A i, j \in 1 .. Len(InOrder(k)) :
                       i < j => InOrder(k)[i].val < InOrder(k)[j].val
  BY DEF InsertionOrder
<1> DEFINE Rises(s) == \A i, j \in 1 .. Len(s) : i < j => s[i].val < s[j].val
           FromTable(s, tab, m) ==
              \A a \in 1 .. Len(s) :
                 \E i \in 0 .. m - 1 : IsOf(At(tab, m, k, i), k) /\ s[a] = At(tab, m, k, i)
<1>1. ASSUME NEW m \in Nat \ {0}, NEW tab \in [0 .. m - 1 -> Cells], Ascending(tab, m)
      PROVE  LET s == InProbeOrder(tab, m, k)
             IN  s \in Seq(Pairs) /\ FromTable(s, tab, m) /\ Rises(s)
  <2>1. \A i \in 0 .. m - 1 : At(tab, m, k, i) \in Cells
    BY StepInTable DEF At
  <2>2. \A i, j \in 0 .. m - 1 :
           i < j /\ IsOf(At(tab, m, k, i), k) /\ IsOf(At(tab, m, k, j), k)
              => At(tab, m, k, i).val < At(tab, m, k, j).val
    BY <1>1 DEF Ascending
  <2>. QED
    BY <2>1, <2>2, MetInOrder
<1> DEFINE old == InProbeOrder(m_vHashTable, m_nCapacity, k)
<1>2. old \in Seq(Pairs) /\ FromTable(old, m_vHashTable, m_nCapacity) /\ Rises(old)
  <2> HIDE DEF Rises, FromTable
  <2>1. /\ m_nCapacity \in Nat \ {0} /\ m_vHashTable \in [0 .. m_nCapacity - 1 -> Cells]
        /\ Ascending(m_vHashTable, m_nCapacity)
    BY DEF IInv, TypeOK, OrderInv, TableInOrder
  <2>. QED
    BY <1>1, <2>1
<1>3. CASE ~ \E t \in Threads : Extending(t)
  <2>1. InOrder(k) = old
    BY <1>3 DEF InOrder
  <2> HIDE DEF old
  <2>. QED
    BY <1>2, <2>1
<1>4. CASE \E t \in Threads : Extending(t)
  <2> DEFINE t == CHOOSE u \in Threads : Extending(u)
             m == nNewCapacity[t]
             new == InProbeOrder(vNewHashTable[t], m, k)
  <2>1. t \in Threads /\ Extending(t)
    BY <1>4
  <2>2. InOrder(k) = new \o old
    BY <1>4 DEF InOrder
  <2> HIDE DEF t
  <2>3. /\ m \in Nat \ {0} /\ vNewHashTable[t] \in [0 .. m - 1 -> Cells]
        /\ Ascending(vNewHashTable[t], m)
        /\ Older(vNewHashTable[t], m, m_vHashTable, m_nCapacity)
    BY <2>1 DEF IInv, TypeOK, PCInv, OrderInv, NewTableInOrder
  <2> HIDE DEF m
  <2>4. new \in Seq(Pairs) /\ FromTable(new, vNewHashTable[t], m) /\ Rises(new)
    <3> HIDE DEF Rises, FromTable
    <3>. QED
      BY <1>1, <2>3
  <2>5. \A a \in 1 .. Len(new), b \in 1 .. Len(old) : new[a].val < old[b].val
    <3> HIDE DEF new, old
    <3> SUFFICES ASSUME NEW a \in 1 .. Len(new), NEW b \in 1 .. Len(old)
                 PROVE  new[a].val < old[b].val
      OBVIOUS
    <3>1. PICK i \in 0 .. m - 1 :
             IsOf(At(vNewHashTable[t], m, k, i), k) /\ new[a] = At(vNewHashTable[t], m, k, i)
      BY <2>4
    <3>2. PICK j \in 0 .. m_nCapacity - 1 :
             IsOf(At(m_vHashTable, m_nCapacity, k, j), k)
             /\ old[b] = At(m_vHashTable, m_nCapacity, k, j)
      BY <1>2
    <3>. QED
      BY <2>3, <3>1, <3>2 DEF Older
  <2> HIDE DEF new, old
  <2>6. /\ Len(new) \in Nat /\ Len(old) \in Nat
        /\ Len(new \o old) = Len(new) + Len(old)
        /\ \A i \in 1 .. Len(new) + Len(old) :
              (new \o old)[i] = IF i <= Len(new) THEN new[i] ELSE old[i - Len(new)]
    BY <1>2, <2>4, ConcatProperties, LenProperties
  <2> DEFINE s == new \o old
  <2>7. ASSUME NEW i \in 1 .. Len(s), NEW j \in 1 .. Len(s), i < j
        PROVE  s[i].val < s[j].val
    <3>1. i \in 1 .. Len(new) + Len(old) /\ j \in 1 .. Len(new) + Len(old)
      BY <2>6
    <3>2. s[i] = IF i <= Len(new) THEN new[i] ELSE old[i - Len(new)]
      BY <2>6, <3>1
    <3>3. s[j] = IF j <= Len(new) THEN new[j] ELSE old[j - Len(new)]
      BY <2>6, <3>1
    <3> HIDE DEF s
    <3>4. CASE j <= Len(new)
      <4>1. i \in 1 .. Len(new) /\ j \in 1 .. Len(new)
        BY <2>6, <2>7, <3>1, <3>4
      <4>. QED
        BY <2>4, <2>7, <3>2, <3>3, <4>1
    <3>5. CASE i <= Len(new) /\ ~ (j <= Len(new))
      <4>1. i \in 1 .. Len(new) /\ j - Len(new) \in 1 .. Len(old)
        BY <2>6, <3>1, <3>5
      <4>. QED
        BY <2>5, <3>2, <3>3, <3>5, <4>1
    <3>6. CASE ~ (i <= Len(new)) /\ ~ (j <= Len(new))
      <4>1. /\ i - Len(new) \in 1 .. Len(old) /\ j - Len(new) \in 1 .. Len(old)
            /\ i - Len(new) < j - Len(new)
        BY <2>6, <2>7, <3>1, <3>6
      <4>. QED
        BY <1>2, <3>2, <3>3, <3>6, <4>1
    <3>. QED
      BY <2>6, <2>7, <3>1, <3>4, <3>5, <3>6
  <2>. QED
    BY <2>2, <2>7
<1>. QED
  BY <1>3, <1>4

\* As long as nothing is removed, the pairs of a key are found in the order they
\* were inserted, before, during and after every extension, whatever the threads
\* do and however often the table is extended.
THEOREM InsertionsStayInOrder ==
    ASSUME HashInRange, "remove" \notin Ops
    PROVE  Spec /\ []ProbesDoNotRepeat => []InsertionOrder
<1>1. Init => IInv /\ PlaceInv /\ OrderInv
  BY Initially, PlaceInitially, OrderInitially
<1>2. (IInv /\ PlaceInv /\ OrderInv) /\ ProbesDoNotRepeat /\ [Next]_vars
         => (IInv /\ PlaceInv /\ OrderInv)'
  <2> SUFFICES ASSUME IInv, PlaceInv, OrderInv, ProbesDoNotRepeat, [Next]_vars
               PROVE  IInv' /\ PlaceInv' /\ OrderInv'
    OBVIOUS
  <2>1. IInv'
    BY TypeOKStep, PCInvStep, LockInvStep DEF IInv
  <2>. QED
    BY <2>1, PlaceStep, OrderStep
<1>3. IInv /\ OrderInv => InsertionOrder
  BY InOrderAscends
<1>. QED
  BY <1>1, <1>2, <1>3, PTL DEF Spec
-----------------------------------------------------------------------------
(***************************************************************************)
(* The lists under construction.  A reader's holds pairs from steps of its *)
(* probe that are behind it, which no later step meets again; remove's     *)
(* holds pairs that are no longer in the table.                            *)
(***************************************************************************)
ListInv(t) ==
    /\ \A a, b \in 1 .. Len(lOut[t]) : lOut[t][a] = lOut[t][b] => a = b
    /\ \/ lOut[t] = <<>>
       \/ /\ pc[t] = "probe" /\ call[t].op \in {"equalRange", "operator[]"}
          /\ \A a \in 1 .. Len(lOut[t]) : \E i \in 0 .. m_nCapacity - 1 :
                /\ i < ik[t]
                /\ IsOf(At(m_vHashTable, m_nCapacity, call[t].tKey, i), call[t].tKey)
                /\ lOut[t][a] = At(m_vHashTable, m_nCapacity, call[t].tKey, i)
       \/ /\ pc[t] = "probe" /\ call[t].op = "remove"
          /\ \A a \in 1 .. Len(lOut[t]) : lOut[t][a] \notin PairsIn(m_vHashTable)

ListsInv == \A t \in Threads : ListInv(t)

LEMMA EmptyList ==
    ASSUME NEW t, lOut[t] = <<>>
    PROVE  ListInv(t)
  BY DEF ListInv

LEMMA AppendList ==
    ASSUME NEW s \in Seq(Pairs), NEW p \in Pairs,
           \A a, b \in 1 .. Len(s) : s[a] = s[b] => a = b,
           \A a \in 1 .. Len(s) : s[a] # p,
           NEW r, r = Append(s, p)
    PROVE  /\ \A a, b \in 1 .. Len(r) : r[a] = r[b] => a = b
           /\ \A a \in 1 .. Len(r) : (a \in 1 .. Len(s) /\ r[a] = s[a]) \/ r[a] = p
<1>1. /\ Len(s) \in Nat /\ Len(r) = Len(s) + 1 /\ r[Len(s) + 1] = p
      /\ \A a \in 1 .. Len(s) : r[a] = s[a]
  BY AppendProperties, LenProperties
<1>2. \A a \in 1 .. Len(r) : a \in 1 .. Len(s) \/ a = Len(s) + 1
  BY <1>1
<1>. QED
  BY <1>1, <1>2

\* A table that does not change under a probe.
LEMMA TableStays ==
    ASSUME IInv, [Next]_vars, NEW t \in Threads, InBody(t), call[t].op \in ReadOps
    PROVE  UNCHANGED <<m_vHashTable, m_nCapacity>>
<1>1. m_mSharedMutex.readers[t] > 0
  BY DEF IInv, LockInv, Inside
<1>2. \A u \in Threads : u \notin m_mSharedMutex.writer
  BY <1>1 DEF IInv, LockInv
<1>. QED
  BY <1>2, TableFrame

\* Nor does it change under another thread's writing operation.
LEMMA WriterStays ==
    ASSUME IInv, NEW t \in Threads, NEW u \in Threads \ {t}, NEW c, Step(t) \/ Invoke(t, c),
           Writing(u)
    PROVE  UNCHANGED <<m_vHashTable, m_nCapacity>>
<1> USE DEF tableVars
<1>1. ~ Writing(t)
  BY OneWrites
<1>2. ~ Body(t) \/ Reader(t) \/ ExtendBegin(t)
  <2>1. Body(t) => InBody(t)
    BY BodyFrame DEF IInv
  <2>2. Insert(t) \/ Remove(t) \/ Clear(t) => call[t].op \in WriteOps
    BY DEF Insert, Remove, Clear, WriteOps
  <2>3. Rehash(t) \/ Move(t) => call[t].op \in WriteOps
    BY DEF Rehash, Move, IInv, PCInv, WriteOps
  <2>. QED
    BY <1>1, <2>1, <2>2, <2>3 DEF Writing, Body
<1>. QED
  BY <1>2, ReaderFrame
     DEF Step, Body, Reader, Invoke, AcquireRead, AcquireReadAgain, AcquireWrite, Release,
         ExtendBegin

LEMMA SameList ==
    ASSUME TypeOK, NEW t \in Threads, ListInv(t), lOut'[t] = lOut[t], pc'[t] = pc[t],
           call'[t] = call[t], ik'[t] = ik[t] \/ ik'[t] = ik[t] + 1,
           UNCHANGED <<m_vHashTable, m_nCapacity>>
    PROVE  ListInv(t)'
<1>1. \A i \in 0 .. m_nCapacity - 1 : i < ik[t] => i < ik'[t]
  BY DEF TypeOK
<1>. QED
  BY <1>1 DEF ListInv, At

\* The loops of equalRange and operator []: the next cell is none of those the
\* probe has seen, and a pair is in one cell only.
LEMMA RangeTurn ==
    ASSUME HashInRange, IInv, OnePlacePerPair, VisitsOnce(m_nCapacity),
           NEW t \in Threads, ListInv(t), EqualRange(t) \/ EqualRangeForPos(t)
    PROVE  ListInv(t)'
<1> DEFINE k == call[t].tKey
           p == Cell(t)
<1>1. TypeOK /\ PCInv
  BY DEF IInv
<1>2. /\ call[t].op \in {"equalRange", "operator[]"} /\ pc[t] = "probe"
      /\ UNCHANGED <<m_vHashTable, m_nCapacity, call>>
  BY DEF EqualRange, EqualRangeForPos, WholeRange, LookupOnly, tableVars, Probing
<1>3. CASE lOut'[t] = <<>>
  BY <1>3, EmptyList DEF ListInv
<1>4. CASE lOut'[t] = lOut[t] /\ ik'[t] = ik[t] + 1 /\ pc'[t] = pc[t]
  BY <1>1, <1>2, <1>4, SameList
<1>5. CASE /\ Probing(t) /\ Matches(t) /\ pc'[t] = pc[t]
           /\ lOut'[t] = Append(lOut[t], p) /\ ik'[t] = ik[t] + 1
  <2>1. /\ p \in Pairs /\ p.key = k /\ k \in Keys /\ ik[t] \in 0 .. m_nCapacity - 1
        /\ p = At(m_vHashTable, m_nCapacity, k, ik[t]) /\ IsOf(p, k)
    <3>1. p \in Pairs /\ k \in Keys
      BY <1>1, <1>5, CellInTable
    <3>. QED
      BY <1>1, <1>5, <3>1 DEF TypeOK, Probing, Matches, At, CellNo, Cell, IsOf
  <2>2. \A a \in 1 .. Len(lOut[t]) : \E i \in 0 .. m_nCapacity - 1 :
           /\ i < ik[t] /\ IsOf(At(m_vHashTable, m_nCapacity, k, i), k)
           /\ lOut[t][a] = At(m_vHashTable, m_nCapacity, k, i)
    <3>1. CASE lOut[t] = <<>>
      BY <3>1
    <3>2. CASE lOut[t] # <<>>
      BY <1>2, <3>2 DEF ListInv
    <3>. QED
      BY <3>1, <3>2
  <2> HIDE DEF p, k
  <2>3. ASSUME NEW a \in 1 .. Len(lOut[t])
        PROVE  lOut[t][a] # p
    <3>1. PICK i \in 0 .. m_nCapacity - 1 :
             /\ i < ik[t] /\ IsOf(At(m_vHashTable, m_nCapacity, k, i), k)
             /\ lOut[t][a] = At(m_vHashTable, m_nCapacity, k, i)
      BY <2>2
    <3>2. hashFunction(m_nCapacity, k, i) # hashFunction(m_nCapacity, k, ik[t])
      BY <2>1, <3>1 DEF VisitsOnce
    <3>3. /\ hashFunction(m_nCapacity, k, i) \in DOMAIN m_vHashTable
          /\ hashFunction(m_nCapacity, k, ik[t]) \in DOMAIN m_vHashTable
      BY <1>1, <2>1, <3>1, StepInTable DEF TypeOK
    <3>. QED
      BY <2>1, <3>1, <3>2, <3>3 DEF At, IsOf, OnePlacePerPair, OnceIn
  <2> DEFINE r == Append(lOut[t], p)
  <2>4. /\ \A a, b \in 1 .. Len(r) : r[a] = r[b] => a = b
        /\ \A a \in 1 .. Len(r) : (a \in 1 .. Len(lOut[t]) /\ r[a] = lOut[t][a]) \/ r[a] = p
    <3>1. lOut[t] \in Seq(Pairs)
      BY <1>1 DEF TypeOK
    <3>. QED
      BY <2>1, <2>3, <3>1, AppendList DEF ListInv
  <2>5. lOut'[t] = r
    BY <1>5
  <2> HIDE DEF r
  <2>6. ASSUME NEW a \in 1 .. Len(r)
        PROVE  \E i \in 0 .. m_nCapacity - 1 :
                  /\ i < ik[t] + 1 /\ IsOf(At(m_vHashTable, m_nCapacity, k, i), k)
                  /\ r[a] = At(m_vHashTable, m_nCapacity, k, i)
    <3>1. CASE r[a] = p
      <4>1. ik[t] < ik[t] + 1
        BY <2>1
      <4>. QED
        BY <2>1, <3>1, <4>1
    <3>2. CASE a \in 1 .. Len(lOut[t]) /\ r[a] = lOut[t][a]
      <4>1. PICK i \in 0 .. m_nCapacity - 1 :
               /\ i < ik[t] /\ IsOf(At(m_vHashTable, m_nCapacity, k, i), k)
               /\ lOut[t][a] = At(m_vHashTable, m_nCapacity, k, i)
        BY <2>2, <3>2
      <4>2. i < ik[t] + 1
        BY <2>1, <4>1
      <4>. QED
        BY <3>2, <4>1, <4>2
    <3>. QED
      BY <2>4, <3>1, <3>2
  <2>7. pc'[t] = "probe" /\ call'[t].op \in {"equalRange", "operator[]"} /\ ik'[t] = ik[t] + 1
    BY <1>2, <1>5
  <2>8. \A a \in 1 .. Len(lOut'[t]) : \E i \in 0 .. m_nCapacity' - 1 :
           /\ i < ik'[t]
           /\ IsOf(At(m_vHashTable', m_nCapacity', call'[t].tKey, i), call'[t].tKey)
           /\ lOut'[t][a] = At(m_vHashTable', m_nCapacity', call'[t].tKey, i)
    BY <1>2, <2>5, <2>6, <2>7 DEF k
  <2>. QED
    BY <2>4, <2>5, <2>7, <2>8 DEF ListInv, At
<1>. QED
  BY <1>1, <1>3, <1>4, <1>5 DEF EqualRange, EqualRangeForPos, Leave, NextTurn, TypeOK

\* removeImpl takes a pair out of its cell, the only one it is in.
LEMMA RemoveTurn ==
    ASSUME HashInRange, IInv, OnePlacePerPair, NEW t \in Threads, ListInv(t), Remove(t)
    PROVE  ListInv(t)'
<1> DEFINE p == Cell(t)
<1>1. TypeOK /\ PCInv
  BY DEF IInv
<1>2. call[t].op = "remove" /\ pc[t] = "probe" /\ call' = call /\ m_nCapacity' = m_nCapacity
  BY DEF Remove, Probing
<1>3. CASE lOut'[t] = <<>>
  BY <1>3, EmptyList DEF ListInv
<1>4. CASE /\ lOut'[t] = lOut[t] /\ ik'[t] = ik[t] + 1 /\ pc'[t] = pc[t]
           /\ UNCHANGED m_vHashTable
  BY <1>1, <1>2, <1>4, SameList
<1>5. CASE /\ Probing(t) /\ Matches(t) /\ pc'[t] = pc[t]
           /\ lOut'[t] = Append(lOut[t], p)
           /\ m_vHashTable' = Emptied(m_vHashTable, CellNo(t))
  <2>1. p \in Pairs /\ CellNo(t) \in 0 .. m_nCapacity - 1 /\ p = m_vHashTable[CellNo(t)]
    BY <1>1, <1>5, CellInTable DEF Cell
  <2>2. /\ PairsIn(m_vHashTable') = PairsIn(m_vHashTable) \ {p}
        /\ p \in PairsIn(m_vHashTable)
    <3>1. /\ m_nCapacity \in Nat /\ m_vHashTable \in [0 .. m_nCapacity - 1 -> Cells]
          /\ OnceIn(m_vHashTable)
      BY <1>1 DEF TypeOK, OnePlacePerPair
    <3>2. p # nullptr
      BY <1>5 DEF Matches
    <3> HIDE DEF p
    <3>3. PairsIn(m_vHashTable') = PairsIn(m_vHashTable) \ {p}
      BY <1>5, <2>1, <3>1, TakePair
    <3>. QED
      BY <2>1, <3>1, <3>2, <3>3 DEF PairsIn
  <2>3. \A a \in 1 .. Len(lOut[t]) : lOut[t][a] \notin PairsIn(m_vHashTable)
    <3>1. CASE lOut[t] = <<>>
      BY <3>1
    <3>2. CASE lOut[t] # <<>>
      BY <1>2, <3>2 DEF ListInv
    <3>. QED
      BY <3>1, <3>2
  <2> HIDE DEF p
  <2> DEFINE r == Append(lOut[t], p)
  <2>4. /\ \A a, b \in 1 .. Len(r) : r[a] = r[b] => a = b
        /\ \A a \in 1 .. Len(r) : (a \in 1 .. Len(lOut[t]) /\ r[a] = lOut[t][a]) \/ r[a] = p
    <3>1. lOut[t] \in Seq(Pairs)
      BY <1>1 DEF TypeOK
    <3>. QED
      BY <2>1, <2>2, <2>3, <3>1, AppendList DEF ListInv
  <2>5. lOut'[t] = r
    BY <1>5
  <2> HIDE DEF r
  <2>6. \A a \in 1 .. Len(r) : r[a] \notin PairsIn(m_vHashTable')
    BY <2>2, <2>3, <2>4
  <2>7. pc'[t] = "probe" /\ call'[t].op = "remove"
    BY <1>2, <1>5
  <2>8. \A a \in 1 .. Len(lOut'[t]) : lOut'[t][a] \notin PairsIn(m_vHashTable')
    BY <2>5, <2>6
  <2>. QED
    BY <2>4, <2>5, <2>7, <2>8 DEF ListInv, PairsIn
<1>. QED
  BY <1>1, <1>3, <1>4, <1>5 DEF Remove, Leave, NextTurn, TypeOK

\* All other steps start with an empty list and leave it so.
LEMMA NoListStep ==
    ASSUME IInv, NEW t \in Threads, ListInv(t), NEW c,
           \/ Invoke(t, c)
           \/ Step(t) /\ ~ (EqualRange(t) \/ EqualRangeForPos(t) \/ Remove(t))
    PROVE  lOut'[t] = <<>>
<1> USE DEF loopVars
<1>1. TypeOK /\ PCInv
  BY DEF IInv
<1>2. pc[t] # "probe" \/ call[t].op \notin {"equalRange", "operator[]", "remove"}
        => lOut[t] = <<>>
  BY DEF ListInv
<1>3. CASE Invoke(t, c) \/ AcquireRead(t) \/ AcquireReadAgain(t) \/ AcquireWrite(t) \/ Release(t)
  BY <1>2, <1>3 DEF Invoke, AcquireRead, AcquireReadAgain, AcquireWrite, Release
<1>4. CASE Find(t)
  BY <1>1, <1>2, <1>4 DEF Find, Leave, NextTurn, TypeOK
<1>5. CASE Size(t) \/ Empty(t) \/ Capacity(t)
  BY <1>1, <1>2, <1>5 DEF Size, Empty, Capacity, Leave, NextTurn, TypeOK
<1>6. CASE Insert(t)
  BY <1>1, <1>2, <1>6 DEF Insert, Leave, NextTurn, TypeOK
<1>7. CASE Clear(t)
  BY <1>1, <1>7 DEF Clear, Leave, TypeOK
<1>8. CASE ExtendBegin(t) \/ Rehash(t)
  BY <1>1, <1>2, <1>8 DEF ExtendBegin, Rehash, ExtendReturns, Leave, TypeOK
<1>9. CASE Move(t)
  BY <1>1, <1>2, <1>9 DEF Move
<1>. QED
  BY <1>3, <1>4, <1>5, <1>6, <1>7, <1>8, <1>9 DEF Step

LEMMA ListStep ==
    ASSUME HashInRange, IInv, OnePlacePerPair, ProbesDoNotRepeat, ListsInv, [Next]_vars
    PROVE  ListsInv'
<1>1. CASE UNCHANGED vars
  BY <1>1 DEF vars, tableVars, loopVars, ListsInv, ListInv, At
<1>2. ASSUME NEW t \in Threads, NEW c, Step(t) \/ Invoke(t, c)
      PROVE  ListsInv'
  <2>1. OnlyMine(t) /\ TypeOK
    BY <1>2, StepsAreMine DEF IInv
  <2>2. ListInv(t)'
    <3>1. VisitsOnce(m_nCapacity) /\ ListInv(t)
      BY DEF ProbesDoNotRepeat, ListsInv
    <3>2. CASE EqualRange(t) \/ EqualRangeForPos(t)
      BY <3>1, <3>2, RangeTurn
    <3>3. CASE Remove(t)
      BY <3>1, <3>3, RemoveTurn
    <3>4. CASE ~ (EqualRange(t) \/ EqualRangeForPos(t) \/ Remove(t))
      <4>1. lOut'[t] = <<>>
        BY <1>2, <3>1, <3>4, NoListStep
      <4>. QED
        BY <4>1 DEF ListInv
    <3>. QED
      BY <3>2, <3>3, <3>4
  <2>3. ASSUME NEW u \in Threads \ {t}
        PROVE  ListInv(u)'
    <3>1. /\ pc'[u] = pc[u] /\ call'[u] = call[u] /\ ik'[u] = ik[u] /\ lOut'[u] = lOut[u]
      BY <2>1 DEF OnlyMine
    <3>2. ListInv(u)
      BY DEF ListsInv
    <3>3. CASE lOut[u] = <<>>
      BY <3>1, <3>3 DEF ListInv
    <3>4. CASE lOut[u] # <<>>
      <4>1. InBody(u) /\ (call[u].op \in ReadOps \/ Writing(u))
        BY <3>2, <3>4 DEF ListInv, InBody, Writing, ReadOps, WriteOps
      <4>2. UNCHANGED <<m_vHashTable, m_nCapacity>>
        <5>1. CASE call[u].op \in ReadOps
          BY <4>1, <5>1, TableStays
        <5>2. CASE Writing(u)
          BY <1>2, <5>2, WriterStays
        <5>. QED
          BY <4>1, <5>1, <5>2
      <4>. QED
        BY <2>1, <3>1, <3>2, <4>2, SameList
    <3>. QED
      BY <3>3, <3>4
  <2>. QED
    BY <2>2, <2>3 DEF ListsInv
<1>. QED
  BY <1>1, <1>2 DEF Next

\* A list the map hands out names no pair twice, if no probe visits a cell twice:
\* that is all that the promise of the README needs beyond the locks.
THEOREM RangesNameOnce ==
    ASSUME HashInRange
    PROVE  Spec /\ []ProbesDoNotRepeat => []RangesNameAPairOnce
<1>1. Init => IInv /\ PlaceInv /\ ListsInv
  <2>1. Init => ListsInv
    <3>1. Init => \A t \in Threads : lOut[t] = <<>>
      BY DEF Init
    <3>. QED
      BY <3>1, EmptyList DEF ListsInv
  <2>. QED
    BY <2>1, Initially, PlaceInitially
<1>2. (IInv /\ PlaceInv /\ ListsInv) /\ ProbesDoNotRepeat /\ [Next]_vars
         => (IInv /\ PlaceInv /\ ListsInv)'
  <2> SUFFICES ASSUME IInv, PlaceInv, ListsInv, ProbesDoNotRepeat, [Next]_vars
               PROVE  IInv' /\ PlaceInv' /\ ListsInv'
    OBVIOUS
  <2>1. IInv'
    BY TypeOKStep, PCInvStep, LockInvStep DEF IInv
  <2>2. OnePlacePerPair
    BY DEF PlaceInv
  <2>. QED
    BY <2>1, <2>2, PlaceStep, ListStep
<1>3. IInv /\ ListsInv => RangesNameAPairOnce
  <2> SUFFICES ASSUME IInv, ListsInv, NEW t \in Threads
               PROVE  Seqs!IsInjective(lOut[t])
    BY DEF RangesNameAPairOnce
  <2>1. DOMAIN lOut[t] = 1 .. Len(lOut[t])
    BY LenProperties DEF IInv, TypeOK
  <2>. QED
    BY <2>1 DEF ListsInv, ListInv, Seqs!IsInjective
<1>. QED
  BY <1>1, <1>2, <1>3, PTL DEF Spec
-----------------------------------------------------------------------------
(***************************************************************************)
(* Where the pairs a removal has taken out belong: back among the others.  *)
(***************************************************************************)
\* s with the pairs of out after the first i.
Between(s, i, out) == SubSeq(s, 1, i) \o out \o SubSeq(s, i + 1, Len(s))

\* Place by place: r has y after the first a of q.
Holding(r, S, q, a, y) ==
    /\ r \in Seq(S)
    /\ Len(r) = Len(q) + Len(y)
    /\ \A i \in 1 .. a : r[i] = q[i]
    /\ \A i \in 1 .. Len(y) : r[a + i] = y[i]
    /\ \A i \in a + 1 .. Len(q) : r[i + Len(y)] = q[i]

\* Between puts the pairs where Holding says.
LEMMA Middle ==
    ASSUME NEW S, NEW q \in Seq(S), NEW a \in 0 .. Len(q), NEW y \in Seq(S)
    PROVE  Holding(Between(q, a, y), S, q, a, y)
<1> DEFINE l == Len(q)
           x == SubSeq(q, 1, a)
           z == SubSeq(q, a + 1, l)
<1>1. l \in Nat /\ Len(y) \in Nat /\ a \in Nat /\ a <= l /\ \A i \in 1 .. l : q[i] \in S
  BY LenProperties, ElementOfSeq
<1> HIDE DEF l
<1>2. x \in Seq(S) /\ Len(x) = a /\ \A i \in 1 .. a : x[i] = q[i]
  <2>1. 1 \in Int /\ a \in Int /\ \A i \in 1 .. a : q[i] \in S
    BY <1>1
  <2>2. /\ SubSeq(q, 1, a) \in Seq(S)
        /\ Len(SubSeq(q, 1, a)) = IF 1 <= a THEN a - 1 + 1 ELSE 0
        /\ \A i \in 1 .. a - 1 + 1 : SubSeq(q, 1, a)[i] = q[1 + i - 1]
    BY <2>1, SubSeqProperties
  <2> DEFINE u == SubSeq(q, 1, a)
  <2> HIDE DEF u
  <2>3. u \in Seq(S) /\ Len(u) = (IF 1 <= a THEN a - 1 + 1 ELSE 0)
        /\ \A i \in 1 .. a - 1 + 1 : u[i] = q[1 + i - 1]
    BY <2>2 DEF u
  <2>4. u \in Seq(S) /\ Len(u) = a /\ \A i \in 1 .. a : u[i] = q[i]
    BY <1>1, <2>3
  <2>. QED
    BY <2>4 DEF u
<1>3. z \in Seq(S) /\ Len(z) = l - a /\ \A i \in a + 1 .. l : z[i - a] = q[i]
  <2> DEFINE from == a + 1
             u == SubSeq(q, from, l)
  <2>1. from \in Int /\ l \in Int /\ \A i \in from .. l : q[i] \in S
    BY <1>1
  <2> HIDE DEF from
  <2>2. /\ u \in Seq(S)
        /\ Len(u) = IF from <= l THEN l - from + 1 ELSE 0
        /\ \A i \in 1 .. l - from + 1 : u[i] = q[from + i - 1]
    BY <2>1, SubSeqProperties
  <2> HIDE DEF u
  <2>3. Len(u) = l - a
    BY <1>1, <2>2 DEF from
  <2>4. \A i \in a + 1 .. l : u[i - a] = q[i]
    <3> SUFFICES ASSUME NEW i \in a + 1 .. l
                 PROVE  u[i - a] = q[i]
      OBVIOUS
    <3>1. i - a \in 1 .. l - from + 1 /\ from + (i - a) - 1 = i
      BY <1>1 DEF from
    <3>. QED
      BY <2>2, <3>1
  <2>. QED
    BY <2>2, <2>3, <2>4 DEF u, from
<1> DEFINE w == x \o y
           r == w \o z
<1> HIDE DEF x, z
<1>4. /\ w \in Seq(S) /\ Len(w) = a + Len(y)
      /\ \A i \in 1 .. a + Len(y) : w[i] = IF i <= a THEN x[i] ELSE y[i - a]
  BY <1>2, ConcatProperties
<1> HIDE DEF w
<1>5. /\ r \in Seq(S) /\ Len(r) = Len(w) + Len(z)
      /\ \A i \in 1 .. Len(w) + Len(z) : r[i] = IF i <= Len(w) THEN w[i] ELSE z[i - Len(w)]
  BY <1>3, <1>4, ConcatProperties
<1> HIDE DEF r
<1>6. Len(r) = l + Len(y)
  BY <1>1, <1>3, <1>4, <1>5
<1>7. \A i \in 1 .. a : r[i] = q[i]
  BY <1>1, <1>2, <1>3, <1>4, <1>5
<1>8. \A i \in 1 .. Len(y) : r[a + i] = y[i]
  BY <1>1, <1>3, <1>4, <1>5
<1>9. \A i \in a + 1 .. l : r[i + Len(y)] = q[i]
  <2> SUFFICES ASSUME NEW i \in a + 1 .. l
               PROVE  r[i + Len(y)] = q[i]
    OBVIOUS
  <2>1. i + Len(y) - Len(w) = i - a /\ ~ (i + Len(y) <= Len(w))
        /\ i + Len(y) \in 1 .. Len(w) + Len(z)
    BY <1>1, <1>3, <1>4
  <2>2. r[i + Len(y)] = z[i + Len(y) - Len(w)]
    BY <1>5, <2>1
  <2>. QED
    BY <1>3, <2>1, <2>2
<1>10. r = Between(q, a, y)
  BY DEF r, w, x, z, l, Between
<1>. QED
  BY <1>5, <1>6, <1>7, <1>8, <1>9, <1>10 DEF l, Holding

\* A sequence of one element.
LEMMA One ==
    ASSUME NEW S, NEW p \in S
    PROVE  <<p>> \in Seq(S) /\ Len(<<p>>) = 1 /\ <<p>>[1] = p
  OBVIOUS

\* The place of a new pair, seen from a longer sequence.
LEMMA BetweenAppend ==
    ASSUME NEW S, NEW q \in Seq(S), NEW a \in 0 .. Len(q), NEW p \in S, NEW c \in S
    PROVE  /\ a \in 0 .. Len(Append(q, c))
           /\ Between(Append(q, c), a, <<p>>) = Append(Between(q, a, <<p>>), c)
<1> DEFINE y == <<p>>
           u == Append(q, c)
           l == Len(q)
           r == Between(q, a, y)
           s == Between(u, a, y)
           t == Append(r, c)
<1>1. y \in Seq(S) /\ Len(y) = 1 /\ y[1] = p
  BY One
<1>2. u \in Seq(S) /\ Len(u) = l + 1 /\ (\A i \in 1 .. l : u[i] = q[i]) /\ u[l + 1] = c /\ l \in Nat
  BY AppendProperties, LenProperties
<1>3. a \in 0 .. Len(u) /\ a \in 0 .. l
  BY <1>2
<1> HIDE DEF y, u, l
<1>4. /\ r \in Seq(S) /\ Len(r) = l + 1
      /\ \A i \in 1 .. a : r[i] = q[i]
      /\ \A i \in 1 .. 1 : r[a + i] = y[i]
      /\ \A i \in a + 1 .. l : r[i + 1] = q[i]
  <2>1. Holding(r, S, q, a, y)
    BY <1>1, Middle
  <2> HIDE DEF r
  <2>. QED
    BY <1>1, <2>1 DEF l, Holding
<1>5. /\ s \in Seq(S) /\ Len(s) = l + 2
      /\ \A i \in 1 .. a : s[i] = u[i]
      /\ \A i \in 1 .. 1 : s[a + i] = y[i]
      /\ \A i \in a + 1 .. l + 1 : s[i + 1] = u[i]
  <2>1. Holding(s, S, u, a, y)
    BY <1>1, <1>2, <1>3, Middle
  <2> HIDE DEF s
  <2>. QED
    BY <1>1, <1>2, <2>1 DEF Holding
<1> HIDE DEF r, s
<1>6. t \in Seq(S) /\ Len(t) = l + 2 /\ (\A i \in 1 .. l + 1 : t[i] = r[i]) /\ t[l + 2] = c
  <2>1. /\ t \in Seq(S) /\ Len(t) = Len(r) + 1
        /\ (\A i \in 1 .. Len(r) : t[i] = r[i]) /\ t[Len(r) + 1] = c
    BY <1>4, AppendProperties
  <2> HIDE DEF t
  <2>. QED
    BY <1>2, <1>4, <2>1
<1> HIDE DEF t
<1>7. \A i \in 1 .. Len(s) : s[i] = t[i]
  <2> SUFFICES ASSUME NEW i \in 1 .. l + 2
               PROVE  s[i] = t[i]
    BY <1>5
  <2>1. CASE i <= a
    <3>1. i \in 1 .. a /\ i \in 1 .. l /\ i \in 1 .. l + 1
      BY <1>2, <1>3, <2>1
    <3>. QED
      BY <1>2, <1>4, <1>5, <1>6, <3>1
  <2>2. CASE i = a + 1
    <3>1. 1 \in 1 .. 1 /\ a + 1 \in 1 .. l + 1
      BY <1>2, <1>3
    <3>. QED
      BY <1>4, <1>5, <1>6, <2>2, <3>1
  <2>3. CASE i > a + 1 /\ i < l + 2
    <3> DEFINE j == i - 1
    <3>1. /\ j \in a + 1 .. l /\ j \in a + 1 .. l + 1 /\ j + 1 = i
          /\ i \in 1 .. l + 1 /\ j \in 1 .. l
      BY <1>2, <1>3, <2>3
    <3> HIDE DEF j
    <3>2. s[i] = u[j] /\ u[j] = q[j]
      BY <1>2, <1>5, <3>1
    <3>3. t[i] = r[i] /\ r[i] = q[j]
      BY <1>4, <1>6, <3>1
    <3>. QED
      BY <3>2, <3>3
  <2>4. CASE i = l + 2 /\ i > a + 1
    <3>1. i - 1 = l + 1 /\ l + 1 \in a + 1 .. l + 1 /\ (l + 1) + 1 = i
      BY <1>2, <1>3, <2>4
    <3>. QED
      BY <1>2, <1>5, <1>6, <2>4, <3>1
  <2>. QED
    BY <1>2, <1>3, <2>1, <2>2, <2>3, <2>4
<1>8. s = t
  BY <1>5, <1>6, <1>7, SeqEqual
<1>. QED
  BY <1>3, <1>8 DEF s, t, r, u, y

\* After the last element, Between appends.
LEMMA BetweenEnd ==
    ASSUME NEW S, NEW q \in Seq(S), NEW p \in S
    PROVE  Between(q, Len(q), <<p>>) = Append(q, p)
<1>1. Len(q) \in Nat
  BY LenProperties
<1>2. SubSeq(q, 1, Len(q)) = q
  BY SubSeqFull
<1>3. SubSeq(q, Len(q) + 1, Len(q)) = <<>>
  <2>1. Len(q) + 1 \in Int /\ Len(q) \in Int /\ Len(q) < Len(q) + 1
    BY <1>1
  <2>. QED
    BY <2>1, SubSeqEmpty
<1>4. q \o <<p>> \in Seq(S)
  BY One, ConcatProperties
<1>5. (q \o <<p>>) \o <<>> = q \o <<p>>
  BY <1>4, ConcatEmptySeq
<1>6. Append(q, p) = q \o <<p>>
  BY AppendIsConcat
<1>. QED
  BY <1>2, <1>3, <1>5, <1>6 DEF Between

\* removeImpl moves a pair from the sequence of its key to the list.
LEMMA BetweenTaken ==
    ASSUME NEW S, NEW q \in Seq(S), NEW a \in 0 .. Len(q), NEW p \in S, NEW out \in Seq(S)
    PROVE  /\ a \in 0 .. Len(Between(q, a, <<p>>))
           /\ Between(q, a, Append(out, p)) = Between(Between(q, a, <<p>>), a, out)
<1> DEFINE y == <<p>>
           o == Append(out, p)
           l == Len(q)
           n == Len(out)
           r == Between(q, a, y)
           s == Between(q, a, o)
           t == Between(r, a, out)
<1>1. y \in Seq(S) /\ Len(y) = 1 /\ y[1] = p
  BY One
<1>2. /\ o \in Seq(S) /\ Len(o) = n + 1 /\ (\A i \in 1 .. n : o[i] = out[i]) /\ o[n + 1] = p
      /\ l \in Nat /\ n \in Nat /\ a \in 0 .. l
  BY AppendProperties, LenProperties
<1> HIDE DEF y, o, l, n
<1>3. /\ r \in Seq(S) /\ Len(r) = l + 1
      /\ \A i \in 1 .. a : r[i] = q[i]
      /\ \A i \in 1 .. 1 : r[a + i] = y[i]
      /\ \A i \in a + 1 .. l : r[i + 1] = q[i]
  <2>1. Holding(r, S, q, a, y)
    BY <1>1, Middle
  <2> HIDE DEF r
  <2>. QED
    BY <1>1, <2>1 DEF l, Holding
<1>4. /\ s \in Seq(S) /\ Len(s) = l + (n + 1)
      /\ \A i \in 1 .. a : s[i] = q[i]
      /\ \A i \in 1 .. n + 1 : s[a + i] = o[i]
      /\ \A i \in a + 1 .. l : s[i + (n + 1)] = q[i]
  <2>1. Holding(s, S, q, a, o)
    BY <1>2, Middle
  <2> HIDE DEF s
  <2>. QED
    BY <1>2, <2>1 DEF l, Holding
<1>5. a \in 0 .. Len(r)
  BY <1>2, <1>3
<1> HIDE DEF r
<1>6. /\ t \in Seq(S) /\ Len(t) = Len(r) + n
      /\ \A i \in 1 .. a : t[i] = r[i]
      /\ \A i \in 1 .. n : t[a + i] = out[i]
      /\ \A i \in a + 1 .. Len(r) : t[i + n] = r[i]
  <2>1. Holding(t, S, r, a, out)
    BY <1>3, <1>5, Middle
  <2> HIDE DEF t
  <2>. QED
    BY <2>1 DEF n, Holding
<1> HIDE DEF s, t
<1>7. Len(s) = Len(t) /\ Len(s) = l + n + 1
  BY <1>2, <1>3, <1>4, <1>6
<1>8. \A i \in 1 .. Len(s) : s[i] = t[i]
  <2> SUFFICES ASSUME NEW i \in 1 .. l + n + 1
               PROVE  s[i] = t[i]
    BY <1>7
  <2>1. CASE i <= a
    <3>1. i \in 1 .. a
      BY <2>1
    <3>. QED
      BY <1>3, <1>4, <1>6, <3>1
  <2>2. CASE i > a /\ i <= a + n
    <3> DEFINE j == i - a
    <3>1. j \in 1 .. n /\ j \in 1 .. n + 1 /\ a + j = i
      BY <1>2, <2>2
    <3> HIDE DEF j
    <3>2. s[a + j] = o[j] /\ t[a + j] = out[j]
      BY <1>4, <1>6, <3>1
    <3>. QED
      BY <1>2, <3>1, <3>2
  <2>3. CASE i = a + n + 1
    <3>1. n + 1 \in 1 .. n + 1 /\ a + (n + 1) = i /\ a + 1 \in a + 1 .. Len(r)
          /\ (a + 1) + n = i /\ 1 \in 1 .. 1
      BY <1>2, <1>3, <2>3
    <3>2. s[i] = o[n + 1]
      BY <1>4, <3>1
    <3>3. t[i] = r[a + 1]
      BY <1>6, <3>1
    <3>4. r[a + 1] = y[1]
      BY <1>3, <3>1
    <3>. QED
      BY <1>1, <1>2, <3>2, <3>3, <3>4
  <2>4. CASE i > a + n + 1
    <3> DEFINE j == i - (n + 1)
    <3>1. j \in a + 1 .. l /\ j + (n + 1) = i /\ j + 1 \in a + 1 .. Len(r) /\ (j + 1) + n = i
      BY <1>2, <1>3, <2>4
    <3> HIDE DEF j
    <3>2. s[i] = q[j]
      BY <1>4, <3>1
    <3>3. t[i] = r[j + 1]
      BY <1>6, <3>1
    <3>4. r[j + 1] = q[j]
      BY <1>3, <3>1
    <3>. QED
      BY <3>2, <3>3, <3>4
  <2>5. i <= a \/ (i > a /\ i <= a + n) \/ i = a + n + 1 \/ i > a + n + 1
    BY <1>2
  <2>. QED
    BY <2>1, <2>2, <2>3, <2>4, <2>5
<1>9. s = t
  BY <1>4, <1>6, <1>7, <1>8, SeqEqual
<1>. QED
  BY <1>5, <1>9 DEF s, t, r, o, y

\* out is the piece of s after its first a elements, and q is what surrounds it.
Piece(s, S, q, a, out) ==
    /\ s \in Seq(S) /\ Len(s) = Len(q) + Len(out)
    /\ SubSeq(s, a + 1, a + Len(out)) = out
    /\ SubSeq(s, 1, a) \o SubSeq(s, a + Len(out) + 1, Len(s)) = q

\* And what it has taken is a piece of the sequence there was.
LEMMA BetweenPiece ==
    ASSUME NEW S, NEW q \in Seq(S), NEW a \in 0 .. Len(q), NEW out \in Seq(S),
           NEW s, s = Between(q, a, out)
    PROVE  Piece(s, S, q, a, out)
<1> DEFINE l == Len(q)
           n == Len(out)
           x == SubSeq(s, 1, a)
           from == a + 1
           to == a + n
           y == SubSeq(s, from, to)
           rest == a + n + 1
           z == SubSeq(s, rest, Len(s))
           w == x \o z
<1>1. /\ s \in Seq(S) /\ Len(s) = l + n
      /\ \A i \in 1 .. a : s[i] = q[i]
      /\ \A i \in 1 .. n : s[a + i] = out[i]
      /\ \A i \in a + 1 .. l : s[i + n] = q[i]
  <2>1. Holding(s, S, q, a, out)
    BY Middle
  <2>. QED
    BY <2>1 DEF Holding
<1>2. l \in Nat /\ n \in Nat /\ a \in 0 .. l
  BY LenProperties
<1> HIDE DEF l, n
<1>3. \A i \in 1 .. l + n : s[i] \in S
  BY <1>1, ElementOfSeq
<1>4. x \in Seq(S) /\ Len(x) = a /\ \A i \in 1 .. a : x[i] = s[i]
  <2>1. 1 \in Int /\ a \in Int /\ \A i \in 1 .. a : s[i] \in S
    BY <1>2, <1>3
  <2>2. /\ x \in Seq(S)
        /\ Len(x) = IF 1 <= a THEN a - 1 + 1 ELSE 0
        /\ \A i \in 1 .. a - 1 + 1 : x[i] = s[1 + i - 1]
    BY <2>1, SubSeqProperties
  <2> HIDE DEF x
  <2>. QED
    BY <1>2, <2>2
<1>5. y \in Seq(S) /\ Len(y) = n /\ \A i \in 1 .. n : y[i] = s[a + i]
  <2>1. from \in Int /\ to \in Int /\ \A i \in from .. to : s[i] \in S
    BY <1>2, <1>3
  <2> HIDE DEF from, to
  <2>2. /\ y \in Seq(S)
        /\ Len(y) = IF from <= to THEN to - from + 1 ELSE 0
        /\ \A i \in 1 .. to - from + 1 : y[i] = s[from + i - 1]
    BY <2>1, SubSeqProperties
  <2> HIDE DEF y
  <2>3. Len(y) = n
    BY <1>2, <2>2 DEF from, to
  <2>4. \A i \in 1 .. n : y[i] = s[a + i]
    <3> SUFFICES ASSUME NEW i \in 1 .. n PROVE y[i] = s[a + i]
      OBVIOUS
    <3>1. i \in 1 .. to - from + 1 /\ from + i - 1 = a + i
      BY <1>2 DEF from, to
    <3>. QED
      BY <2>2, <3>1
  <2>. QED
    BY <2>2, <2>3, <2>4
<1>6. z \in Seq(S) /\ Len(z) = l - a /\ \A i \in 1 .. l - a : z[i] = s[a + n + i]
  <2>1. rest \in Int /\ l + n \in Int /\ \A i \in rest .. l + n : s[i] \in S
    BY <1>2, <1>3
  <2> DEFINE v == SubSeq(s, rest, l + n)
             top == l + n
  <2> HIDE DEF rest, top
  <2>2. /\ v \in Seq(S)
        /\ Len(v) = IF rest <= top THEN top - rest + 1 ELSE 0
        /\ \A i \in 1 .. top - rest + 1 : v[i] = s[rest + i - 1]
    BY <2>1, SubSeqProperties DEF top
  <2> HIDE DEF v
  <2>3. Len(v) = l - a
    BY <1>2, <2>2 DEF rest, top
  <2>4. \A i \in 1 .. l - a : v[i] = s[a + n + i]
    <3> SUFFICES ASSUME NEW i \in 1 .. l - a PROVE v[i] = s[a + n + i]
      OBVIOUS
    <3>1. i \in 1 .. top - rest + 1 /\ rest + i - 1 = a + n + i
      BY <1>2 DEF rest, top
    <3>. QED
      BY <2>2, <3>1
  <2>5. z = v
    BY <1>1 DEF v
  <2>. QED
    BY <2>2, <2>3, <2>4, <2>5
<1> HIDE DEF x, y, z
<1>7. y = out
  <2>1. \A i \in 1 .. Len(y) : y[i] = out[i]
    BY <1>1, <1>5
  <2>2. Len(y) = Len(out)
    BY <1>5 DEF n
  <2>. QED
    BY <1>5, <2>1, <2>2, SeqEqual
<1>8. /\ w \in Seq(S) /\ Len(w) = Len(x) + Len(z)
      /\ \A i \in 1 .. Len(x) + Len(z) : w[i] = IF i <= Len(x) THEN x[i] ELSE z[i - Len(x)]
  BY <1>4, <1>6, ConcatProperties
<1> HIDE DEF w
<1>9. w = q
  <2>1. Len(w) = l
    BY <1>2, <1>4, <1>6, <1>8
  <2>2. ASSUME NEW i \in 1 .. l
        PROVE  w[i] = q[i]
    <3>1. CASE i <= a
      <4>1. i \in 1 .. a /\ i \in 1 .. Len(x) + Len(z) /\ i <= Len(x)
        BY <1>2, <1>4, <1>6, <3>1
      <4>. QED
        BY <1>1, <1>4, <1>8, <4>1
    <3>2. CASE i > a
      <4>1. i - a \in 1 .. l - a /\ i \in a + 1 .. l /\ i \in 1 .. Len(x) + Len(z)
            /\ ~ (i <= Len(x)) /\ i - Len(x) = i - a /\ a + n + (i - a) = i + n
        BY <1>2, <1>4, <1>6, <3>2
      <4>2. w[i] = z[i - a]
        BY <1>8, <4>1
      <4>3. z[i - a] = s[i + n]
        BY <1>6, <4>1
      <4>. QED
        BY <1>1, <4>1, <4>2, <4>3
    <3>. QED
      BY <1>2, <3>1, <3>2
  <2>. QED
    BY <1>8, <2>1, <2>2, SeqEqual DEF l
<1>. QED
  BY <1>1, <1>7, <1>9 DEF Piece, l, n, x, y, z, w, from, to, rest

\* Putting no pairs back changes nothing.
LEMMA NothingBetween ==
    ASSUME NEW S, NEW q \in Seq(S), NEW a \in 0 .. Len(q)
    PROVE  Between(q, a, <<>>) = q
<1> DEFINE r == Between(q, a, <<>>)
<1>1. <<>> \in Seq(S) /\ Len(<<>>) = 0 /\ Len(q) \in Nat
  BY EmptySeq, LenProperties
<1>2. /\ r \in Seq(S) /\ Len(r) = Len(q) + 0
      /\ \A i \in 1 .. a : r[i] = q[i]
      /\ \A i \in a + 1 .. Len(q) : r[i + 0] = q[i]
  <2>1. Holding(r, S, q, a, <<>>)
    BY <1>1, Middle
  <2> HIDE DEF r
  <2>. QED
    BY <1>1, <2>1 DEF Holding
<1> HIDE DEF r
<1>3. \A i \in 1 .. Len(r) : r[i] = q[i]
  <2> SUFFICES ASSUME NEW i \in 1 .. Len(q)
               PROVE  r[i] = q[i]
    BY <1>1, <1>2
  <2>1. CASE i <= a
    BY <1>2, <2>1
  <2>2. CASE i > a
    <3>1. i \in a + 1 .. Len(q) /\ i + 0 = i
      BY <1>1, <2>2
    <3>. QED
      BY <1>2, <3>1
  <2>. QED
    BY <2>1, <2>2
<1>. QED
  BY <1>1, <1>2, <1>3, SeqEqual DEF r

-----------------------------------------------------------------------------
(***************************************************************************)
(* What a probe meets, step by step, and how it changes with the table.    *)
(***************************************************************************)
\* What MetSteps says, of one table and one key.
Collects(tab, m, k) ==
    /\ m \in Nat
    /\ \A i \in 0 .. m - 1 : At(tab, m, k, i) \in Cells
    /\ Met(tab, m, k)[0] = <<>>
    /\ \A n \in 0 .. m : Met(tab, m, k)[n] \in Seq(Pairs) /\ Len(Met(tab, m, k)[n]) \in Nat
    /\ \A n \in 0 .. m - 1 : IsOf(At(tab, m, k, n), k) =>
          /\ At(tab, m, k, n) \in Pairs
          /\ Met(tab, m, k)[n + 1] = Append(Met(tab, m, k)[n], At(tab, m, k, n))
    /\ \A n \in 0 .. m - 1 : ~IsOf(At(tab, m, k, n), k) =>
          Met(tab, m, k)[n + 1] = Met(tab, m, k)[n]

\* What a probe has met, in every table.
LEMMA TableCollects ==
    ASSUME HashInRange, NEW m \in Nat \ {0}, NEW tab \in [0 .. m - 1 -> Cells], NEW k \in Keys
    PROVE  Collects(tab, m, k)
<1>1. \A i \in 0 .. m - 1 : At(tab, m, k, i) \in Cells
  BY StepInTable DEF At
<1>2. /\ Met(tab, m, k)[0] = <<>>
      /\ \A n \in 0 .. m : Met(tab, m, k)[n] \in Seq(Pairs)
      /\ \A n \in 0 .. m - 1 :
            Met(tab, m, k)[n + 1] =
               IF IsOf(At(tab, m, k, n), k) THEN Append(Met(tab, m, k)[n], At(tab, m, k, n))
               ELSE Met(tab, m, k)[n]
  BY <1>1, MetSteps
<1>3. \A n \in 0 .. m : Len(Met(tab, m, k)[n]) \in Nat
  BY <1>2, LenProperties
<1>4. \A n \in 0 .. m - 1 : IsOf(At(tab, m, k, n), k) => At(tab, m, k, n) \in Pairs
  BY <1>1 DEF IsOf, Cells
<1>. QED
  BY <1>1, <1>2, <1>3, <1>4 DEF Collects

\* A probe that has gone on has met the same pairs, and maybe more.
Prefixes(M, m) ==
    \A j, n \in 0 .. m : j <= n =>
        /\ Len(M[j]) <= Len(M[n])
        /\ \A a \in 1 .. Len(M[j]) : M[n][a] = M[j][a]

\* What a probe has met after a step begins with what it had met before it.
LEMMA MetGrows ==
    ASSUME NEW m, NEW tab, NEW k, Collects(tab, m, k)
    PROVE  /\ Prefixes(Met(tab, m, k), m)
           /\ \A n \in 0 .. m : Len(Met(tab, m, k)[n]) <= n
<1> DEFINE M == Met(tab, m, k)
           Ok(n) == /\ Len(M[n]) <= n
                    /\ \A j \in 0 .. n : /\ Len(M[j]) <= Len(M[n])
                                         /\ \A a \in 1 .. Len(M[j]) : M[n][a] = M[j][a]
           T == {n \in Nat : n <= m => Ok(n)}
<1>1. /\ m \in Nat /\ M[0] = <<>>
      /\ \A n \in 0 .. m : M[n] \in Seq(Pairs) /\ Len(M[n]) \in Nat
      /\ \A n \in 0 .. m - 1 : \/ M[n + 1] = M[n]
                               \/ \E c \in Pairs : M[n + 1] = Append(M[n], c)
  BY DEF Collects
<1> HIDE DEF M
<1>2. 0 \in T
  <2>1. Len(M[0]) = 0
    BY <1>1
  <2>. QED
    BY <1>1, <2>1
<1>3. ASSUME NEW n \in Nat, n \in T
      PROVE  n + 1 \in T
  <2> SUFFICES ASSUME n + 1 <= m
               PROVE  Ok(n + 1)
    OBVIOUS
  <2>1. n \in 0 .. m - 1 /\ n \in 0 .. m /\ n + 1 \in 0 .. m /\ n <= m
    BY <1>1
  <2>2. Ok(n)
    BY <1>3, <2>1
  <2>3. /\ Len(M[n]) <= Len(M[n + 1]) /\ Len(M[n + 1]) <= Len(M[n]) + 1
        /\ \A a \in 1 .. Len(M[n]) : M[n + 1][a] = M[n][a]
    <3>1. CASE M[n + 1] = M[n]
      BY <1>1, <2>1, <3>1
    <3>2. ASSUME NEW c \in Pairs, M[n + 1] = Append(M[n], c)
          PROVE  /\ Len(M[n]) <= Len(M[n + 1]) /\ Len(M[n + 1]) <= Len(M[n]) + 1
                 /\ \A a \in 1 .. Len(M[n]) : M[n + 1][a] = M[n][a]
      <4>1. M[n] \in Seq(Pairs) /\ Len(M[n]) \in Nat
        BY <1>1, <2>1
      <4>. QED
        BY <3>2, <4>1, AppendProperties
    <3>. QED
      BY <1>1, <2>1, <3>1, <3>2
  <2>4. Len(M[n + 1]) <= n + 1
    BY <1>1, <2>1, <2>2, <2>3
  <2>5. ASSUME NEW j \in 0 .. n + 1
        PROVE  /\ Len(M[j]) <= Len(M[n + 1])
               /\ \A a \in 1 .. Len(M[j]) : M[n + 1][a] = M[j][a]
    <3>1. CASE j = n + 1
      BY <1>1, <2>1, <3>1
    <3>2. CASE j \in 0 .. n
      <4>1. j \in 0 .. m
        BY <1>1, <2>1, <3>2
      <4>2. /\ Len(M[j]) \in Nat /\ Len(M[n]) \in Nat /\ Len(M[n + 1]) \in Nat
            /\ Len(M[j]) <= Len(M[n]) /\ \A a \in 1 .. Len(M[j]) : M[n][a] = M[j][a]
        BY <1>1, <2>1, <2>2, <3>2, <4>1
      <4>3. \A a \in 1 .. Len(M[j]) : a \in 1 .. Len(M[n])
        BY <4>2
      <4>. QED
        BY <2>3, <4>2, <4>3
    <3>. QED
      BY <2>1, <3>1, <3>2
  <2>. QED
    BY <2>4, <2>5
<1> HIDE DEF T
<1>4. Nat \subseteq T
  BY <1>2, <1>3, CountingUp
<1>5. \A n \in 0 .. m : n \in Nat /\ n <= m
  BY <1>1
<1>6. \A n \in 0 .. m : Ok(n)
  BY <1>4, <1>5 DEF T
<1>7. \A n \in 0 .. m : Len(M[n]) <= n
  BY <1>6
<1>8. Prefixes(M, m)
  <2> SUFFICES ASSUME NEW j \in 0 .. m, NEW n \in 0 .. m, j <= n
               PROVE  /\ Len(M[j]) <= Len(M[n])
                      /\ \A a \in 1 .. Len(M[j]) : M[n][a] = M[j][a]
    BY DEF Prefixes
  <2>1. j \in 0 .. n
    BY <1>1
  <2>. QED
    BY <1>6, <2>1
<1>. QED
  BY <1>7, <1>8 DEF M

\* The pairs of a probe's first n steps, in a list.
Lists(s, tab, m, k, n) ==
    /\ \A a \in 1 .. Len(s) :
          \E i \in 0 .. m - 1 : i < n /\ IsOf(At(tab, m, k, i), k) /\ s[a] = At(tab, m, k, i)
    /\ \A i \in 0 .. m - 1 : i < n /\ IsOf(At(tab, m, k, i), k) =>
          \E a \in 1 .. Len(s) : s[a] = At(tab, m, k, i)

\* What a probe has met after n steps are the pairs of its key in the n cells.
LEMMA MetLists ==
    ASSUME NEW m, NEW tab, NEW k, Collects(tab, m, k)
    PROVE  \A n \in 0 .. m : Lists(Met(tab, m, k)[n], tab, m, k, n)
<1> DEFINE M == Met(tab, m, k)
           T == {n \in Nat : n <= m => Lists(M[n], tab, m, k, n)}
<1>1. /\ m \in Nat /\ M[0] = <<>>
      /\ \A n \in 0 .. m : M[n] \in Seq(Pairs) /\ Len(M[n]) \in Nat
      /\ \A n \in 0 .. m - 1 : IsOf(At(tab, m, k, n), k) =>
            At(tab, m, k, n) \in Pairs /\ M[n + 1] = Append(M[n], At(tab, m, k, n))
      /\ \A n \in 0 .. m - 1 : ~IsOf(At(tab, m, k, n), k) => M[n + 1] = M[n]
  BY DEF Collects
<1> HIDE DEF M
<1>2. 0 \in T
  BY <1>1 DEF Lists
<1>3. ASSUME NEW n \in Nat, n \in T
      PROVE  n + 1 \in T
  <2> SUFFICES ASSUME n + 1 <= m
               PROVE  Lists(M[n + 1], tab, m, k, n + 1)
    OBVIOUS
  <2> DEFINE s == M[n]
             d == At(tab, m, k, n)
             r == M[n + 1]
  <2>1. n \in 0 .. m - 1 /\ n \in 0 .. m /\ n <= m
    BY <1>1
  <2>2. Lists(s, tab, m, k, n) /\ s \in Seq(Pairs) /\ Len(s) \in Nat
    BY <1>1, <1>3, <2>1
  <2>3. \A i \in 0 .. m - 1 : i < n + 1 <=> i < n \/ i = n
    BY <2>1
  <2>4. CASE ~IsOf(d, k)
    <3>1. r = s
      BY <1>1, <2>1, <2>4
    <3>2. \A a \in 1 .. Len(s) : \E i \in 0 .. m - 1 :
             i < n + 1 /\ IsOf(At(tab, m, k, i), k) /\ s[a] = At(tab, m, k, i)
      <4> HIDE DEF s
      <4>. QED
        BY <2>2, <2>3 DEF Lists
    <3>3. \A i \in 0 .. m - 1 : i < n + 1 /\ IsOf(At(tab, m, k, i), k) =>
             \E a \in 1 .. Len(s) : s[a] = At(tab, m, k, i)
      <4> HIDE DEF s
      <4>. QED
        BY <2>2, <2>3, <2>4 DEF Lists
    <3>4. Lists(s, tab, m, k, n + 1)
      <4> HIDE DEF s
      <4>. QED
        BY <3>2, <3>3 DEF Lists
    <3>. QED
      BY <3>1, <3>4
  <2>5. CASE IsOf(d, k)
    <3>1. d \in Pairs /\ r = Append(s, d)
      BY <1>1, <2>1, <2>5
    <3> HIDE DEF r, s
    <3>2. Len(r) = Len(s) + 1 /\ r[Len(s) + 1] = d /\ \A a \in 1 .. Len(s) : r[a] = s[a]
      BY <2>2, <3>1, AppendProperties
    <3>3. \A a \in 1 .. Len(r) : a \in 1 .. Len(s) \/ a = Len(s) + 1
      BY <2>2, <3>2
    <3>4. Len(s) + 1 \in 1 .. Len(r) /\ \A a \in 1 .. Len(s) : a \in 1 .. Len(r)
      BY <2>2, <3>2
    <3>5. ASSUME NEW a \in 1 .. Len(r)
          PROVE  \E i \in 0 .. m - 1 :
                    i < n + 1 /\ IsOf(At(tab, m, k, i), k) /\ r[a] = At(tab, m, k, i)
      <4>1. CASE a = Len(s) + 1
        BY <2>1, <2>3, <2>5, <3>2, <4>1
      <4>2. CASE a \in 1 .. Len(s)
        BY <2>2, <2>3, <3>2, <4>2 DEF Lists
      <4>. QED
        BY <3>3, <4>1, <4>2
    <3>6. ASSUME NEW i \in 0 .. m - 1, i < n + 1, IsOf(At(tab, m, k, i), k)
          PROVE  \E a \in 1 .. Len(r) : r[a] = At(tab, m, k, i)
      <4>1. CASE i = n
        BY <3>2, <3>4, <4>1
      <4>2. CASE i < n
        BY <2>2, <3>2, <3>4, <3>6, <4>2 DEF Lists
      <4>. QED
        BY <2>3, <3>6, <4>1, <4>2
    <3>. QED
      BY <3>5, <3>6 DEF Lists, r
  <2>. QED
    BY <2>4, <2>5
<1> HIDE DEF T
<1>4. Nat \subseteq T
  BY <1>2, <1>3, CountingUp
<1>5. \A n \in 0 .. m : n \in Nat /\ n <= m
  BY <1>1
<1>. QED
  BY <1>4, <1>5 DEF T, M

\* Two tables in which the first steps of a probe meet the same pairs.
LEMMA MetSame ==
    ASSUME NEW m, NEW tab, NEW new, NEW k, Collects(tab, m, k), Collects(new, m, k),
           NEW b \in 0 .. m,
           \A i \in 0 .. m - 1 :
              i < b /\ (IsOf(At(tab, m, k, i), k) \/ IsOf(At(new, m, k, i), k))
                 => At(new, m, k, i) = At(tab, m, k, i)
    PROVE  \A n \in 0 .. b : Met(new, m, k)[n] = Met(tab, m, k)[n]
<1> DEFINE M == Met(tab, m, k)
           N == Met(new, m, k)
           T == {n \in Nat : n <= b => N[n] = M[n]}
<1>1. /\ m \in Nat /\ M[0] = <<>> /\ N[0] = <<>>
      /\ \A n \in 0 .. m - 1 : IsOf(At(tab, m, k, n), k) => M[n + 1] = Append(M[n], At(tab, m, k, n))
      /\ \A n \in 0 .. m - 1 : ~IsOf(At(tab, m, k, n), k) => M[n + 1] = M[n]
      /\ \A n \in 0 .. m - 1 : IsOf(At(new, m, k, n), k) => N[n + 1] = Append(N[n], At(new, m, k, n))
      /\ \A n \in 0 .. m - 1 : ~IsOf(At(new, m, k, n), k) => N[n + 1] = N[n]
  BY DEF Collects
<1> HIDE DEF M, N
<1>2. 0 \in T
  BY <1>1
<1>3. ASSUME NEW n \in Nat, n \in T
      PROVE  n + 1 \in T
  <2> SUFFICES ASSUME n + 1 <= b
               PROVE  N[n + 1] = M[n + 1]
    OBVIOUS
  <2>1. n \in 0 .. m - 1 /\ n < b /\ n <= b
    BY <1>1
  <2>2. N[n] = M[n]
    BY <1>3, <2>1
  <2>. QED
    BY <1>1, <2>1, <2>2
<1> HIDE DEF T
<1>4. Nat \subseteq T
  BY <1>2, <1>3, CountingUp
<1>5. \A n \in 0 .. b : n \in Nat /\ n <= b
  BY <1>1
<1>. QED
  BY <1>4, <1>5 DEF T, M, N

\* A probe that meets no pair of its key from step s on.
LEMMA MetRest ==
    ASSUME NEW m, NEW tab, NEW k, Collects(tab, m, k), NEW s \in 0 .. m,
           \A i \in 0 .. m - 1 : i >= s => ~IsOf(At(tab, m, k, i), k)
    PROVE  \A n \in s .. m : Met(tab, m, k)[n] = Met(tab, m, k)[s]
<1> DEFINE M == Met(tab, m, k)
           T == {d \in Nat : s + d <= m => M[s + d] = M[s]}
<1>1. /\ m \in Nat
      /\ \A n \in 0 .. m - 1 : ~IsOf(At(tab, m, k, n), k) => M[n + 1] = M[n]
  BY DEF Collects
<1> HIDE DEF M
<1>2. 0 \in T
  <2>1. s + 0 = s
    BY <1>1
  <2>. QED
    BY <2>1
<1>3. ASSUME NEW d \in Nat, d \in T
      PROVE  d + 1 \in T
  <2> SUFFICES ASSUME s + (d + 1) <= m
               PROVE  M[s + (d + 1)] = M[s]
    OBVIOUS
  <2>1. s + d \in 0 .. m - 1 /\ s + d >= s /\ s + d <= m /\ s + (d + 1) = (s + d) + 1
    BY <1>1
  <2>2. M[s + d] = M[s]
    BY <1>3, <2>1
  <2>. QED
    BY <1>1, <2>1, <2>2
<1> HIDE DEF T
<1>4. Nat \subseteq T
  BY <1>2, <1>3, CountingUp
<1>5. \A n \in s .. m : n - s \in Nat /\ s + (n - s) = n /\ s + (n - s) <= m
  BY <1>1
<1>. QED
  BY <1>4, <1>5 DEF T, M

\* What the probe meets once p is at its step s, where no pair of the key was.
Joins(N, M, m, s, p) ==
    /\ \A n \in 0 .. m : n <= s => N[n] = M[n]
    /\ \A n \in 0 .. m : n > s => /\ Len(M[s]) \in 0 .. Len(M[n])
                                  /\ N[n] = Between(M[n], Len(M[s]), <<p>>)

\* A pair put into a free cell joins what the probe meets from there on.
LEMMA MetPut ==
    ASSUME NEW m, NEW tab, NEW new, NEW k, Collects(tab, m, k), Collects(new, m, k),
           NEW s \in 0 .. m - 1, ~IsOf(At(tab, m, k, s), k), IsOf(At(new, m, k, s), k),
           \A i \in 0 .. m - 1 :
              i # s /\ (IsOf(At(tab, m, k, i), k) \/ IsOf(At(new, m, k, i), k))
                 => At(new, m, k, i) = At(tab, m, k, i)
    PROVE  Joins(Met(new, m, k), Met(tab, m, k), m, s, At(new, m, k, s))
<1> DEFINE M == Met(tab, m, k)
           N == Met(new, m, k)
           p == At(new, m, k, s)
           a == Len(M[s])
           Ok(n) == a \in 0 .. Len(M[n]) /\ N[n] = Between(M[n], a, <<p>>)
           T == {d \in Nat : (s + 1) + d <= m => Ok((s + 1) + d)}
<1>1. /\ m \in Nat /\ p \in Pairs
      /\ \A n \in 0 .. m : M[n] \in Seq(Pairs) /\ Len(M[n]) \in Nat
      /\ \A n \in 0 .. m - 1 : IsOf(At(tab, m, k, n), k) =>
            At(tab, m, k, n) \in Pairs /\ M[n + 1] = Append(M[n], At(tab, m, k, n))
      /\ \A n \in 0 .. m - 1 : ~IsOf(At(tab, m, k, n), k) => M[n + 1] = M[n]
      /\ \A n \in 0 .. m - 1 : IsOf(At(new, m, k, n), k) => N[n + 1] = Append(N[n], At(new, m, k, n))
      /\ \A n \in 0 .. m - 1 : ~IsOf(At(new, m, k, n), k) => N[n + 1] = N[n]
  BY DEF Collects
<1>2. \A n \in 0 .. s : N[n] = M[n]
  <2>1. s \in 0 .. m /\ \A i \in 0 .. m - 1 : i < s => i # s
    BY <1>1
  <2> HIDE DEF M, N
  <2>. QED
    BY <2>1, MetSame DEF M, N
<1>3. 0 \in T
  <2>1. (s + 1) + 0 = s + 1 /\ s \in 0 .. m /\ s \in 0 .. s
    BY <1>1
  <2>2. M[s + 1] = M[s] /\ N[s + 1] = Append(N[s], p) /\ N[s] = M[s]
    BY <1>1, <1>2, <2>1
  <2>3. M[s] \in Seq(Pairs) /\ Len(M[s]) \in Nat
    BY <1>1, <2>1
  <2>4. Between(M[s], Len(M[s]), <<p>>) = Append(M[s], p)
    <3>1. p \in Pairs
      BY <1>1
    <3> HIDE DEF M, p
    <3>. QED
      BY <2>3, <3>1, BetweenEnd
  <2>5. Ok(s + 1)
    <3> HIDE DEF M, N, p
    <3>. QED
      BY <2>2, <2>3, <2>4
  <2> HIDE DEF Ok
  <2>. QED
    BY <2>1, <2>5
<1>4. ASSUME NEW d \in Nat, d \in T
      PROVE  d + 1 \in T
  <2> SUFFICES ASSUME (s + 1) + (d + 1) <= m
               PROVE  Ok((s + 1) + (d + 1))
    OBVIOUS
  <2> DEFINE n == (s + 1) + d
  <2>1. n \in 0 .. m - 1 /\ n \in 0 .. m /\ n <= m /\ n # s /\ (s + 1) + (d + 1) = n + 1
    BY <1>1
  <2>2. Ok(n)
    BY <1>4, <2>1
  <2>3. M[n] \in Seq(Pairs) /\ Len(M[n]) \in Nat
    BY <1>1, <2>1
  <2>4. CASE ~IsOf(At(tab, m, k, n), k)
    <3>1. ~IsOf(At(new, m, k, n), k)
      BY <2>1, <2>4
    <3>2. M[n + 1] = M[n] /\ N[n + 1] = N[n]
      BY <1>1, <2>1, <2>4, <3>1
    <3> HIDE DEF M, N, p, n
    <3>. QED
      BY <2>1, <2>2, <3>2
  <2>5. CASE IsOf(At(tab, m, k, n), k)
    <3> DEFINE c == At(tab, m, k, n)
    <3>1. At(new, m, k, n) = c
      BY <2>1, <2>5
    <3>2. c \in Pairs /\ M[n + 1] = Append(M[n], c) /\ N[n + 1] = Append(N[n], c)
      BY <1>1, <2>1, <2>5, <3>1
    <3>3. p \in Pairs /\ M[n] \in Seq(Pairs) /\ c \in Pairs /\ a \in 0 .. Len(M[n])
      BY <1>1, <2>2, <2>3, <3>2
    <3>4. /\ a \in 0 .. Len(Append(M[n], c))
          /\ Between(Append(M[n], c), a, <<p>>) = Append(Between(M[n], a, <<p>>), c)
      <4> HIDE DEF M, p, n, c, a
      <4>. QED
        BY <3>3, BetweenAppend
    <3>5. Ok(n + 1)
      <4> HIDE DEF M, N, p, n, c, a
      <4>. QED
        BY <2>2, <3>2, <3>4
    <3> HIDE DEF Ok, n
    <3>. QED
      BY <2>1, <3>5
  <2>. QED
    BY <2>4, <2>5
<1> HIDE DEF T
<1>5. Nat \subseteq T
  BY <1>3, <1>4, CountingUp
<1>6. \A n \in 0 .. m : n > s => n - (s + 1) \in Nat /\ (s + 1) + (n - (s + 1)) = n
                                 /\ (s + 1) + (n - (s + 1)) <= m
  BY <1>1
<1>7. \A n \in 0 .. m : n > s => Ok(n)
  BY <1>5, <1>6 DEF T
<1>8. \A n \in 0 .. m : n <= s => n \in 0 .. s
  BY <1>1
<1>. QED
  BY <1>2, <1>7, <1>8 DEF Joins, M, N, p, a

-----------------------------------------------------------------------------
(***************************************************************************)
(* Counting the cells, and the probes that see all of a table.             *)
(***************************************************************************)
\* The pairs of the first n cells.
Before(tab, n) == {tab[i] : i \in 0 .. n - 1} \ {nullptr}

\* One cell more: its pair joins those of the cells before it.
LEMMA BeforeGrows ==
    ASSUME NEW m \in Nat, NEW tab \in [0 .. m - 1 -> Cells], OnceIn(tab), NEW n \in 0 .. m - 1
    PROVE  /\ tab[n] = nullptr => Before(tab, n + 1) = Before(tab, n)
           /\ tab[n] # nullptr => /\ Before(tab, n + 1) = Before(tab, n) \cup {tab[n]}
                                 /\ tab[n] \notin Before(tab, n)
<1>1. \A i \in 0 .. (n + 1) - 1 : i \in 0 .. n - 1 \/ i = n
  OBVIOUS
<1>2. n \in 0 .. (n + 1) - 1 /\ \A i \in 0 .. n - 1 : i \in 0 .. (n + 1) - 1
  OBVIOUS
<1>3. ASSUME tab[n] # nullptr, NEW i \in 0 .. n - 1, tab[i] = tab[n]
      PROVE  FALSE
  <2>1. i \in DOMAIN tab /\ n \in DOMAIN tab /\ i # n
    OBVIOUS
  <2>. QED
    BY <1>3, <2>1 DEF OnceIn
<1>. QED
  BY <1>1, <1>2, <1>3 DEF Before

\* They are counted as sizeImpl counts them.
CountsUp(tab, m) ==
    /\ \A n \in 0 .. m : IsFiniteSet(Before(tab, n)) /\ Cardinality(Before(tab, n)) \in Nat
    /\ Cardinality(Before(tab, 0)) = 0
    /\ \A n \in 0 .. m - 1 :
          Cardinality(Before(tab, n + 1)) =
             Cardinality(Before(tab, n)) + (IF tab[n] # nullptr THEN 1 ELSE 0)
    /\ Before(tab, m) = PairsIn(tab)

\* Counting the full cells one by one counts the pairs.
LEMMA BeforeCounts ==
    ASSUME NEW m \in Nat, NEW tab \in [0 .. m - 1 -> Cells], OnceIn(tab)
    PROVE  CountsUp(tab, m)
<1> DEFINE F(n) == IsFiniteSet(Before(tab, n))
           T == {n \in Nat : n <= m => F(n)}
<1>1. Before(tab, 0) = {}
  BY DEF Before
<1>2. 0 \in T
  BY <1>1, FS_EmptySet
<1>3. ASSUME NEW n \in Nat, n \in T
      PROVE  n + 1 \in T
  <2> SUFFICES ASSUME n + 1 <= m
               PROVE  F(n + 1)
    OBVIOUS
  <2>1. n \in 0 .. m - 1 /\ n <= m
    OBVIOUS
  <2>2. F(n)
    BY <1>3, <2>1
  <2>3. \/ Before(tab, n + 1) = Before(tab, n)
        \/ Before(tab, n + 1) = Before(tab, n) \cup {tab[n]}
    BY <2>1, BeforeGrows
  <2>. QED
    BY <2>2, <2>3, FS_AddElement
<1> HIDE DEF T
<1>4. Nat \subseteq T
  BY <1>2, <1>3, CountingUp
<1>5. \A n \in 0 .. m : F(n)
  BY <1>4 DEF T
<1>6. ASSUME NEW n \in 0 .. m
      PROVE  IsFiniteSet(Before(tab, n)) /\ Cardinality(Before(tab, n)) \in Nat
  BY <1>5, FS_CardinalityType
<1>7. ASSUME NEW n \in 0 .. m - 1
      PROVE  Cardinality(Before(tab, n + 1)) =
                Cardinality(Before(tab, n)) + (IF tab[n] # nullptr THEN 1 ELSE 0)
  <2>1. n \in 0 .. m
    OBVIOUS
  <2>2. IsFiniteSet(Before(tab, n)) /\ Cardinality(Before(tab, n)) \in Nat
    BY <1>6, <2>1
  <2>3. CASE tab[n] # nullptr
    <3>1. Before(tab, n + 1) = Before(tab, n) \cup {tab[n]} /\ tab[n] \notin Before(tab, n)
      BY <2>3, BeforeGrows
    <3>. QED
      BY <2>2, <2>3, <3>1, FS_AddElement
  <2>4. CASE tab[n] = nullptr
    <3>1. Before(tab, n + 1) = Before(tab, n)
      BY <2>4, BeforeGrows
    <3>. QED
      BY <2>2, <2>4, <3>1
  <2>. QED
    BY <2>3, <2>4
<1>8. Before(tab, m) = PairsIn(tab)
  BY DEF Before, PairsIn
<1>. QED
  BY <1>1, <1>6, <1>7, <1>8, FS_EmptySet DEF CountsUp

\* A table with a free cell has fewer pairs than cells, a full one as many.
LEMMA FreeOrFull ==
    ASSUME NEW m \in Nat, NEW tab \in [0 .. m - 1 -> Cells], OnceIn(tab)
    PROVE  /\ IsFiniteSet(PairsIn(tab))
           /\ Cardinality(PairsIn(tab)) \in Nat
           /\ (\E i \in 0 .. m - 1 : tab[i] = nullptr) => Cardinality(PairsIn(tab)) < m
           /\ (\A i \in 0 .. m - 1 : tab[i] # nullptr) => Cardinality(PairsIn(tab)) = m
<1> DEFINE C(n) == Cardinality(Before(tab, n))
           Ok(n) == /\ C(n) <= n
                    /\ (\E i \in 0 .. n - 1 : tab[i] = nullptr) => C(n) < n
                    /\ (\A i \in 0 .. n - 1 : tab[i] # nullptr) => C(n) = n
           T == {n \in Nat : n <= m => Ok(n)}
<1>6. CountsUp(tab, m)
  BY BeforeCounts
<1>1. /\ \A n \in 0 .. m : C(n) \in Nat
      /\ C(0) = 0
      /\ \A n \in 0 .. m - 1 : C(n + 1) = C(n) + (IF tab[n] # nullptr THEN 1 ELSE 0)
      /\ IsFiniteSet(Before(tab, m)) /\ Before(tab, m) = PairsIn(tab)
  BY <1>6 DEF CountsUp
<1> HIDE DEF C
<1>2. 0 \in T
  BY <1>1
<1>3. ASSUME NEW n \in Nat, n \in T
      PROVE  n + 1 \in T
  <2> SUFFICES ASSUME n + 1 <= m
               PROVE  Ok(n + 1)
    OBVIOUS
  <2>1. n \in 0 .. m - 1 /\ n \in 0 .. m /\ n <= m
    OBVIOUS
  <2>2. Ok(n)
    BY <1>3, <2>1
  <2>3. \A i \in 0 .. (n + 1) - 1 : i \in 0 .. n - 1 \/ i = n
    OBVIOUS
  <2>4. n \in 0 .. (n + 1) - 1 /\ \A i \in 0 .. n - 1 : i \in 0 .. (n + 1) - 1
    OBVIOUS
  <2>5. C(n) \in Nat /\ C(n + 1) = C(n) + (IF tab[n] # nullptr THEN 1 ELSE 0)
    BY <1>1, <2>1
  <2>. QED
    BY <2>2, <2>3, <2>4, <2>5
<1> HIDE DEF T
<1>4. Nat \subseteq T
  BY <1>2, <1>3, CountingUp
<1>5. Ok(m) /\ C(m) \in Nat
  BY <1>1, <1>4 DEF T
<1>. QED
  BY <1>1, <1>5 DEF C

\* A probe without a free step has seen the whole table.
LEMMA ProbeSeesAll ==
    ASSUME HashInRange, NEW m \in Nat \ {0}, NEW tab \in [0 .. m - 1 -> Cells],
           VisitsOnce(m), NEW k \in Keys, \A i \in 0 .. m - 1 : At(tab, m, k, i) # nullptr
    PROVE  \A x \in 0 .. m - 1 : tab[x] # nullptr
<1> DEFINE S == 0 .. m - 1
           f == [i \in S |-> hashFunction(m, k, i)]
<1>1. f \in [S -> S]
  BY StepInTable
<1>2. f \in Injection(S, S)
  BY <1>1 DEF VisitsOnce, Injection, IsInjective
<1>3. IsFiniteSet(S)
  BY FS_Interval
<1> HIDE DEF S, f
<1>4. f \in Surjection(S, S)
  BY <1>2, <1>3, FS_Injection
<1>5. \A x \in S : \E i \in S : f[i] = x
  BY <1>4 DEF Surjection
<1>. QED
  BY <1>5 DEF f, S, At

\* The sequences of the keys hold the pairs of the table.
LEMMA OrderHoldsPairs ==
    ASSUME HashInRange, NEW m \in Nat \ {0}, NEW tab \in [0 .. m - 1 -> Cells],
           Reachable(tab, m)
    PROVE  UNION {Seqs!ToSet(InProbeOrder(tab, m, k)) : k \in Keys} = PairsIn(tab)
<1>1. ASSUME NEW k \in Keys
      PROVE  /\ DOMAIN InProbeOrder(tab, m, k) = 1 .. Len(InProbeOrder(tab, m, k))
             /\ Lists(InProbeOrder(tab, m, k), tab, m, k, m)
  <2>1. Collects(tab, m, k)
    BY TableCollects
  <2>2. m \in 0 .. m
    OBVIOUS
  <2>3. InProbeOrder(tab, m, k) \in Seq(Pairs)
    BY <2>1, <2>2 DEF Collects, InProbeOrder
  <2>4. Lists(Met(tab, m, k)[m], tab, m, k, m)
    BY <2>1, <2>2, MetLists
  <2>. QED
    BY <2>3, <2>4, LenProperties DEF InProbeOrder
<1>2. ASSUME NEW k \in Keys, NEW p \in Seqs!ToSet(InProbeOrder(tab, m, k))
      PROVE  p \in PairsIn(tab)
  <2> DEFINE s == InProbeOrder(tab, m, k)
  <2>3. DOMAIN s = 1 .. Len(s) /\ Lists(s, tab, m, k, m)
    BY <1>1
  <2> HIDE DEF s
  <2>4. PICK a \in 1 .. Len(s) : p = s[a]
    BY <1>2, <2>3 DEF Seqs!ToSet, s
  <2>1. PICK i \in 0 .. m - 1 : IsOf(At(tab, m, k, i), k) /\ p = At(tab, m, k, i)
    BY <2>3, <2>4 DEF Lists
  <2>2. hashFunction(m, k, i) \in 0 .. m - 1
    BY StepInTable
  <2>. QED
    BY <2>1, <2>2 DEF PairsIn, At, IsOf
<1>3. ASSUME NEW p \in PairsIn(tab)
      PROVE  \E k \in Keys : p \in Seqs!ToSet(InProbeOrder(tab, m, k))
  <2>1. PICK x \in 0 .. m - 1 : tab[x] = p /\ p # nullptr
    BY DEF PairsIn
  <2>2. p \in Pairs /\ p.key \in Keys
    BY <2>1 DEF Cells, Pairs
  <2>3. PICK j \in 0 .. m - 1 : hashFunction(m, p.key, j) = x
    BY <2>1 DEF Reachable
  <2>4. IsOf(At(tab, m, p.key, j), p.key) /\ At(tab, m, p.key, j) = p /\ j < m
    BY <2>1, <2>3 DEF At, IsOf
  <2>. QED
    BY <1>1, <2>2, <2>4 DEF Lists, Seqs!ToSet
<1>. QED
  BY <1>2, <1>3

-----------------------------------------------------------------------------
(***************************************************************************)
(* Cutting a sequence.                                                     *)
(***************************************************************************)
\* Only the first Len(s) elements count.
LEMMA CutPrefix ==
    ASSUME NEW S, NEW s \in Seq(S), NEW q \in Seq(S), Len(s) <= Len(q),
           \A i \in 1 .. Len(s) : q[i] = s[i],
           NEW a \in Nat, NEW b \in Nat, b <= Len(s)
    PROVE  SubSeq(q, a + 1, b) = SubSeq(s, a + 1, b)
<1> DEFINE from == a + 1
           x == SubSeq(q, from, b)
           y == SubSeq(s, from, b)
<1>1. Len(s) \in Nat /\ Len(q) \in Nat
  BY LenProperties
<1>2. from \in Int /\ b \in Int /\ from >= 1
  OBVIOUS
<1>3. /\ \A i \in from .. b : i \in 1 .. Len(s) /\ i \in 1 .. Len(q)
  BY <1>1
<1>4. (\A i \in from .. b : s[i] \in S) /\ (\A i \in from .. b : q[i] \in S)
  BY <1>3, ElementOfSeq
<1> HIDE DEF from
<1>5. /\ x \in Seq(S) /\ Len(x) = (IF from <= b THEN b - from + 1 ELSE 0)
      /\ \A i \in 1 .. b - from + 1 : x[i] = q[from + i - 1]
  BY <1>2, <1>4, SubSeqProperties
<1>6. /\ y \in Seq(S) /\ Len(y) = (IF from <= b THEN b - from + 1 ELSE 0)
      /\ \A i \in 1 .. b - from + 1 : y[i] = s[from + i - 1]
  BY <1>2, <1>4, SubSeqProperties
<1> HIDE DEF x, y
<1>7. ASSUME NEW i \in 1 .. Len(x)
      PROVE  x[i] = y[i]
  <2>1. i \in 1 .. b - from + 1 /\ from + i - 1 \in from .. b
    BY <1>2, <1>5
  <2>2. from + i - 1 \in 1 .. Len(s)
    BY <1>3, <2>1
  <2>. QED
    BY <1>5, <1>6, <2>1, <2>2
<1>8. Len(x) = Len(y)
  BY <1>5, <1>6
<1>9. x = y
  BY <1>5, <1>6, <1>7, <1>8, SeqEqual
<1>. QED
  BY <1>9 DEF x, y, from

\* The part of a sequence that is one element.
LEMMA CutOne ==
    ASSUME NEW S, NEW q \in Seq(S), NEW a \in Nat, a < Len(q)
    PROVE  SubSeq(q, a + 1, a + 1) = <<q[a + 1]>>
<1> DEFINE j == a + 1
           x == SubSeq(q, j, j)
           c == q[j]
<1>1. Len(q) \in Nat
  BY LenProperties
<1>2. j \in 1 .. Len(q) /\ j \in Int
  BY <1>1
<1>3. c \in S
  BY <1>2, ElementOfSeq
<1> HIDE DEF j
<1>4. \A i \in j .. j : q[i] \in S
  BY <1>2, <1>3
<1>5. /\ x \in Seq(S) /\ Len(x) = (IF j <= j THEN j - j + 1 ELSE 0)
      /\ \A i \in 1 .. j - j + 1 : x[i] = q[j + i - 1]
  BY <1>2, <1>4, SubSeqProperties
<1> HIDE DEF x
<1>6. Len(x) = 1 /\ x[1] = q[j]
  <2>1. j - j + 1 = 1 /\ j + 1 - 1 = j /\ j <= j
    BY <1>2
  <2>2. Len(x) = 1
    BY <1>5, <2>1
  <2>3. x[1] = q[j + 1 - 1]
    BY <1>5, <2>1
  <2>. QED
    BY <2>1, <2>2, <2>3
<1> HIDE DEF c
<1>7. <<c>> \in Seq(S) /\ Len(<<c>>) = 1 /\ <<c>>[1] = c
  BY <1>3, One
<1>8. \A i \in 1 .. Len(x) : x[i] = <<c>>[i]
  BY <1>6, <1>7 DEF c
<1>9. x = <<c>>
  BY <1>5, <1>6, <1>7, <1>8, SeqEqual
<1>. QED
  BY <1>9 DEF x, c, j

\* The end of a sequence that grows by one element.
LEMMA CutAppend ==
    ASSUME NEW S, NEW s \in Seq(S), NEW p \in S, NEW a \in 0 .. Len(s)
    PROVE  SubSeq(Append(s, p), a + 1, Len(s) + 1) = Append(SubSeq(s, a + 1, Len(s)), p)
<1> DEFINE r == Append(s, p)
           l == Len(s)
<1>1. /\ r \in Seq(S) /\ Len(r) = l + 1 /\ (\A i \in 1 .. l : r[i] = s[i]) /\ r[l + 1] = p
      /\ l \in Nat
  BY AppendProperties, LenProperties
<1> HIDE DEF r
<1>2. SubSeq(r, a + 1, l + 1) = SubSeq(r, a + 1, (l + 1) - 1) \o <<r[l + 1]>>
  <2> DEFINE from == a + 1
             to == l + 1
  <2>1. from \in 1 .. Len(r) /\ to \in from .. Len(r)
    BY <1>1
  <2> HIDE DEF from, to, l
  <2>2. SubSeq(r, from, to) = SubSeq(r, from, to - 1) \o <<r[to]>>
    BY <1>1, <2>1, SubSeqRecursiveSecond
  <2>. QED
    BY <2>2 DEF from, to
<1>3. (l + 1) - 1 = l
  BY <1>1
<1>4. SubSeq(r, a + 1, l) = SubSeq(s, a + 1, l)
  <2>1. Len(s) <= Len(r) /\ l <= Len(s) /\ a \in Nat
    BY <1>1
  <2>. QED
    BY <1>1, <2>1, CutPrefix
<1> DEFINE x == SubSeq(s, a + 1, l)
<1>5. x \in Seq(S)
  <2> DEFINE from == a + 1
  <2>1. from \in Int /\ l \in Int /\ \A i \in from .. l : i \in 1 .. Len(s)
    BY <1>1
  <2>2. \A i \in from .. l : s[i] \in S
    BY <2>1, ElementOfSeq
  <2> HIDE DEF from, l
  <2>3. SubSeq(s, from, l) \in Seq(S)
    BY <2>1, <2>2, SubSeqProperties
  <2>. QED
    BY <2>3 DEF from
<1> HIDE DEF x
<1>6. Append(x, p) = x \o <<p>>
  BY <1>5, AppendIsConcat
<1>. QED
  BY <1>1, <1>2, <1>3, <1>4, <1>6 DEF r, l, x
=============================================================================
