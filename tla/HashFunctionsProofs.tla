-------------------------- MODULE HashFunctionsProofs --------------------------
(***************************************************************************)
(* Proofs about the hash functions, for every table and every key: a step  *)
(* of a probe stays inside the table (the hypothesis HashInRange of the    *)
(* theorems about HashMap), which cells a probe visits, which strings      *)
(* collide in every table, and which bytes of its key CityHash reads.      *)
(***************************************************************************)
EXTENDS MCHashFunctions, SequenceTheorems, NatRecursion

LEMMA RemainderIsInt ==
    ASSUME NEW a \in Int, NEW n \in Nat \ {0}
    PROVE  Remainder(a, n) \in Int
  BY DEF Remainder

LEMMA DividerIsPositive ==
    ASSUME NEW m \in Nat
    PROVE  Divider(m) \in Nat \ {0} /\ (m # 0 => Divider(m) = m)
  BY DEF Divider

\* stdHashFunction for integers answers a cell of the table.
THEOREM IntHashInTable ==
    ASSUME NEW m \in Nat \ {0}, NEW k \in Int, NEW ik \in Nat
    PROVE  IntHash(m, k, ik) \in 0 .. m - 1
<1>1. FirstHash(k) \in Int
  <2>1. DEFAULT_A * k + DEFAULT_B \in Int
    BY HashFunctionsAssumption
  <2>2. QED
    BY <2>1, RemainderIsInt, HashFunctionsAssumption DEF FirstHash
<1>2. ToSizeT(FirstHash(k) + ik) \in Nat
  BY <1>1, HashFunctionsAssumption DEF ToSizeT
<1>3. Divider(m) = m
  BY DEF Divider
<1>4. \A h \in Nat : h % m \in 0 .. m - 1
  OBVIOUS
<1>5. QED
  BY <1>2, <1>3, <1>4 DEF IntHash

\* The functions for strings do.
THEOREM StringStepInTable ==
    ASSUME NEW m \in Nat \ {0}, NEW h \in Nat, NEW ik \in Nat
    PROVE  StringStep(m, h, ik) \in 0 .. m - 1
<1>1. ToSizeT(h + ik) \in Nat
  BY HashFunctionsAssumption DEF ToSizeT
<1>2. \A n \in Nat : n % m \in 0 .. m - 1
  OBVIOUS
<1>3. QED
  BY <1>1, <1>2 DEF StringStep, Divider
-----------------------------------------------------------------------------
\* m numbers in a row reach every remainder.
LEMMA RemaindersInARow ==
    ASSUME NEW m \in Nat \ {0}, NEW h \in Nat, NEW c \in 0 .. m - 1
    PROVE  \E ik \in 0 .. m - 1 : (h + ik) % m = c
<1> DEFINE r == h % m
           q == h \div m
<1>1. r \in 0 .. m - 1 /\ q \in Nat /\ h = m * q + r
  OBVIOUS
<1> HIDE DEF r, q
<1>2. \A n \in Nat : (m * n + c) % m = c
  OBVIOUS
<1>3. CASE c >= r
  <2>1. h + (c - r) = m * q + c /\ c - r \in 0 .. m - 1
    BY <1>1, <1>3
  <2>2. QED
    BY <1>1, <1>2, <2>1
<1>4. CASE c < r
  <2>1. h + (c - r + m) = m * (q + 1) + c /\ c - r + m \in 0 .. m - 1
    BY <1>1, <1>4
  <2>2. (m * (q + 1) + c) % m = c
    BY <1>1, <1>2
  <2>3. (h + (c - r + m)) % m = c
    BY <2>1, <2>2
  <2>4. QED
    BY <2>1, <2>3
<1>5. QED
  BY <1>1, <1>3, <1>4

\* m numbers in a row have different remainders.
LEMMA RemaindersDiffer ==
    ASSUME NEW m \in Nat \ {0}, NEW h \in Nat, NEW i \in 0 .. m - 1, NEW j \in 0 .. m - 1,
           (h + i) % m = (h + j) % m
    PROVE  i = j
<1> DEFINE r == (h + i) % m
           p == (h + i) \div m
           q == (h + j) \div m
<1>1. p \in Int /\ q \in Int /\ r \in 0 .. m - 1 /\ h + i = m * p + r /\ h + j = m * q + r
  BY DEF r, p, q
<1> HIDE DEF r, p, q
<1>2. \A a, b \in Int : a > b => m * a >= m * b + m
  <2> SUFFICES ASSUME NEW a \in Int, NEW b \in Int, a > b
               PROVE  m * a >= m * b + m
    OBVIOUS
  <2>1. a - b - 1 \in Nat
    OBVIOUS
  <2>2. m * (a - b - 1) >= 0 /\ m * (a - b - 1) = m * a - m * b - m
    BY <2>1
  <2>3. m * a \in Int /\ m * b \in Int
    OBVIOUS
  <2>. QED
    BY <2>2, <2>3
<1>3. m * p \in Int /\ m * q \in Int
  BY <1>1
<1>4. ~ (p > q)
  BY <1>1, <1>2, <1>3
<1>5. ~ (q > p)
  BY <1>1, <1>2, <1>3
<1>6. p = q
  BY <1>1, <1>4, <1>5
<1>. QED
  BY <1>1, <1>6

\* Where size_t does not wrap, a step adds its number to the hash.
LEMMA StringStepWithoutWrap ==
    ASSUME NEW m \in Nat, NEW h \in Nat, h + Divider(m) <= SizeMod
    PROVE  \A ik \in 0 .. Divider(m) - 1 : StringStep(m, h, ik) = (h + ik) % Divider(m)
<1> SUFFICES ASSUME NEW ik \in 0 .. Divider(m) - 1
             PROVE  StringStep(m, h, ik) = (h + ik) % Divider(m)
  OBVIOUS
<1>1. Divider(m) \in Nat \ {0}
  BY DividerIsPositive
<1>2. h + ik \in Nat /\ h + ik < SizeMod
  BY <1>1, HashFunctionsAssumption
<1>3. (h + ik) % SizeMod = h + ik
  BY <1>2, HashFunctionsAssumption
<1>. QED
  BY <1>3 DEF StringStep, ToSizeT

\* The probe of a string visits every cell, as long as size_t does not wrap
\* under it: insertImpl finds a free cell wherever there is one.
THEOREM StringProbeVisitsEveryCell ==
    ASSUME NEW m \in Nat, NEW h \in Nat, h + Divider(m) <= SizeMod
    PROVE  StringProbe(m, h) = AllCells(m)
<1> DEFINE d == Divider(m)
<1>1. d \in Nat \ {0}
  BY DividerIsPositive
<1>2. \A ik \in 0 .. d - 1 : StringStep(m, h, ik) = (h + ik) % d
  BY StringStepWithoutWrap
<1> HIDE DEF d
<1>3. \A ik \in 0 .. d - 1 : (h + ik) % d \in 0 .. d - 1
  BY <1>1
<1>4. \A c \in 0 .. d - 1 : \E ik \in 0 .. d - 1 : (h + ik) % d = c
  BY <1>1, RemaindersInARow
<1>5. QED
  BY <1>1, <1>2, <1>3, <1>4 DEF StringProbe, AllCells, d

\* It visits none of them twice: no loop of HashMap meets a pair of the key
\* again in the same probe.
THEOREM StringStepsDoNotRepeat ==
    ASSUME NEW m \in Nat, NEW h \in Nat, h + Divider(m) <= SizeMod,
           NEW i \in 0 .. Divider(m) - 1, NEW j \in 0 .. Divider(m) - 1,
           StringStep(m, h, i) = StringStep(m, h, j)
    PROVE  i = j
<1>1. Divider(m) \in Nat \ {0}
  BY DividerIsPositive
<1>2. (h + i) % Divider(m) = (h + j) % Divider(m)
  BY StringStepWithoutWrap
<1>. QED
  BY <1>1, <1>2, RemaindersDiffer

LEMMA FirstHashIsInt ==
    ASSUME NEW k \in Int
    PROVE  FirstHash(k) \in Int
<1>1. DEFAULT_A * k + DEFAULT_B \in Int
  BY HashFunctionsAssumption
<1>2. QED
  BY <1>1, RemainderIsInt, HashFunctionsAssumption DEF FirstHash

\* An integer with a positive first hash is probed as a string with that hash.
LEMMA PositiveIntStep ==
    ASSUME NEW m \in Nat, NEW k \in Int,
           FirstHash(k) > 0, FirstHash(k) + Divider(m) <= SizeMod
    PROVE  \A ik \in 0 .. Divider(m) - 1 : IntHash(m, k, ik) = StringStep(m, FirstHash(k), ik)
<1> SUFFICES ASSUME NEW ik \in 0 .. Divider(m) - 1
             PROVE  IntHash(m, k, ik) = StringStep(m, FirstHash(k), ik)
  OBVIOUS
<1>1. FirstHash(k) \in Nat
  BY FirstHashIsInt
<1>2. Divider(m) \in Nat \ {0}
  BY DividerIsPositive
<1>3. FirstHash(k) + ik \in Nat /\ FirstHash(k) + ik < SizeMod /\ FirstHash(k) + ik # 0
  BY <1>1, <1>2, HashFunctionsAssumption
<1>4. ToSizeT(FirstHash(k) + ik) = FirstHash(k) + ik
  BY <1>3, HashFunctionsAssumption DEF ToSizeT
<1>. QED
  BY <1>3, <1>4 DEF IntHash, StringStep

\* The probe of an integer visits every cell as well, if its first hash is
\* positive.
THEOREM PositiveIntProbeVisitsEveryCell ==
    ASSUME NEW m \in Nat, NEW k \in Int,
           FirstHash(k) > 0, FirstHash(k) + Divider(m) <= SizeMod
    PROVE  IntProbe(m, k) = AllCells(m)
<1>1. FirstHash(k) \in Nat
  BY FirstHashIsInt
<1>2. IntProbe(m, k) = StringProbe(m, FirstHash(k))
  BY PositiveIntStep DEF IntProbe, StringProbe
<1>. QED
  BY <1>1, <1>2, StringProbeVisitsEveryCell

\* And none of them twice.
THEOREM PositiveIntStepsDoNotRepeat ==
    ASSUME NEW m \in Nat, NEW k \in Int,
           FirstHash(k) > 0, FirstHash(k) + Divider(m) <= SizeMod,
           NEW i \in 0 .. Divider(m) - 1, NEW j \in 0 .. Divider(m) - 1,
           IntHash(m, k, i) = IntHash(m, k, j)
    PROVE  i = j
<1>1. FirstHash(k) \in Nat
  BY FirstHashIsInt
<1>2. StringStep(m, FirstHash(k), i) = StringStep(m, FirstHash(k), j)
  BY PositiveIntStep
<1>. QED
  BY <1>1, <1>2, StringStepsDoNotRepeat

\* A probe whose first hash is 0 misses cell 0, and no other cell: the hash 0 is
\* made 1, so that it sees cell 1 twice.
THEOREM ZeroIntProbeMissesCellZero ==
    ASSUME NEW m \in Nat, NEW k \in Int,
           FirstHash(k) = 0, Divider(m) > 1, Divider(m) <= SizeMod
    PROVE  IntProbe(m, k) = AllCells(m) \ {0}
<1> DEFINE d == Divider(m)
<1>1. d \in Nat /\ d > 1 /\ d <= SizeMod
  BY DividerIsPositive
<1>2. \A ik \in 0 .. d - 1 : IntHash(m, k, ik) = IF ik = 0 THEN 1 ELSE ik
  <2> SUFFICES ASSUME NEW ik \in 0 .. d - 1
               PROVE  IntHash(m, k, ik) = IF ik = 0 THEN 1 ELSE ik
    OBVIOUS
  <2> HIDE DEF d
  <2>1. FirstHash(k) + ik = ik /\ ik \in Nat /\ ik < SizeMod
    BY <1>1, HashFunctionsAssumption
  <2>2. ToSizeT(FirstHash(k) + ik) = ik
    BY <2>1, HashFunctionsAssumption DEF ToSizeT
  <2>3. ik % d = ik /\ 1 % d = 1
    BY <1>1
  <2>4. QED
    BY <2>2, <2>3 DEF IntHash, d
<1> HIDE DEF d
<1>3. \A c \in (0 .. d - 1) \ {0} : c \in 0 .. d - 1 /\ IntHash(m, k, c) = c
  BY <1>1, <1>2
<1>4. \A ik \in 0 .. d - 1 : IntHash(m, k, ik) \in (0 .. d - 1) \ {0}
  BY <1>1, <1>2
<1>5. {IntHash(m, k, ik) : ik \in 0 .. d - 1} = (0 .. d - 1) \ {0}
  BY <1>3, <1>4
<1>. QED
  BY <1>5 DEF IntProbe, AllCells, d

\* What is divided by m leaves the same with a multiple of m more.
LEMMA MultiplesVanish ==
    ASSUME NEW m \in Nat \ {0}, NEW x \in Nat, NEW y \in Nat
    PROVE  (m * x + y) % m = y % m
<1> DEFINE q == y \div m
           r == y % m
<1>1. q \in Nat /\ r \in 0 .. m - 1 /\ y = m * q + r
  OBVIOUS
<1> HIDE DEF q, r
<1>2. m * x + y = m * (x + q) + r
  BY <1>1
<1>3. \A n \in Nat : (m * n + r) % m = r
  BY <1>1
<1>4. (m * (x + q) + r) % m = r
  <2>1. x + q \in Nat
    BY <1>1
  <2>. QED
    BY <1>3, <2>1
<1>. QED
  BY <1>2, <1>4 DEF r

-----------------------------------------------------------------------------
(***************************************************************************)
(* The hash of a string (hash_functions.cpp:42-49), named as in the code:  *)
(* the weight pow of each char and the sum of the chars before it.         *)
(***************************************************************************)
pow == CHOOSE f : f = [i \in Nat |-> IF i = 0 THEN 1 ELSE ToSizeT(f[i - 1] * i)]

sum(s) == CHOOSE f : f = [i \in 0 .. Len(s) |->
                             IF i = 0 THEN 0 ELSE ToSizeT(f[i - 1] + (s[i] + 1) * pow[i])]

LEMMA HashIsSum ==
    ASSUME NEW s
    PROVE  StdStringHash(s) = sum(s)[Len(s)]
  BY DEF StdStringHash, sum, pow

LEMMA SizeT ==
    ASSUME NEW a \in Int
    PROVE  /\ ToSizeT(a) \in 0 .. SizeMod - 1
           /\ a \in 0 .. SizeMod - 1 => ToSizeT(a) = a
  BY HashFunctionsAssumption DEF ToSizeT

LEMMA PowSteps ==
    /\ pow \in [Nat -> Nat]
    /\ pow[0] = 1
    /\ \A n \in Nat : pow[n + 1] = ToSizeT(pow[n] * (n + 1))
<1> DEFINE step == [n \in Nat |-> [a \in Nat |-> ToSizeT(a * (n + 1))]]
           Def(f) == f = [i \in Nat |-> IF i = 0 THEN 1 ELSE ToSizeT(f[i - 1] * i)]
<1>1. step \in [Nat -> [Nat -> Nat]]
  <2>1. \A n, a \in Nat : ToSizeT(a * (n + 1)) \in Nat
    <3> \A n, a \in Nat : a * (n + 1) \in Int
      OBVIOUS
    <3>. QED
      BY SizeT
  <2>. QED
    BY <2>1, SizeT
<1>2. \A n, a \in Nat : step[n][a] = ToSizeT(a * (n + 1))
  OBVIOUS
<1> HIDE DEF step
<1>3. PICK f \in [Nat -> Nat] : /\ f[0] = 1
                                /\ \A n \in Nat : f[n + 1] = step[n][f[n]]
  <2> DEFINE base == 1
  <2>1. base \in Nat
    OBVIOUS
  <2> HIDE DEF base
  <2>2. PICK f : Follows(f, Nat, base, step)
    BY <1>1, <2>1, StepByStep
  <2>. QED
    BY <2>2 DEF base, Follows
<1>4. Def(f)
  <2>1. \A i \in Nat : f[i] = IF i = 0 THEN 1 ELSE ToSizeT(f[i - 1] * i)
    <3> TAKE i \in Nat
    <3>1. CASE i = 0
      BY <1>3, <3>1
    <3>2. CASE i # 0
      <4>1. i - 1 \in Nat /\ (i - 1) + 1 = i
        BY <3>2
      <4>2. f[(i - 1) + 1] = step[i - 1][f[i - 1]]
        BY <1>3, <4>1
      <4>3. step[i - 1][f[i - 1]] = ToSizeT(f[i - 1] * ((i - 1) + 1))
        BY <1>2, <1>3, <4>1
      <4>. QED
        BY <3>2, <4>1, <4>2, <4>3
    <3>. QED
      BY <3>1, <3>2
  <2>. QED
    BY <1>3, <2>1
<1>5. pow = CHOOSE f1 : Def(f1)
  BY DEF pow
<1> HIDE DEF Def
<1>6. Def(pow)
  BY <1>4, <1>5
<1>7. \A i \in Nat : pow[i] = IF i = 0 THEN 1 ELSE ToSizeT(pow[i - 1] * i)
  BY <1>6 DEF Def
<1>8. pow = [i \in Nat |-> IF i = 0 THEN 1 ELSE ToSizeT(pow[i - 1] * i)]
  BY <1>6 DEF Def
<1> DEFINE T == {n \in Nat : pow[n] \in Nat}
<1>9. Nat \subseteq T
  <2>1. 0 \in T
    BY <1>7
  <2>2. ASSUME NEW n \in Nat, n \in T
        PROVE  n + 1 \in T
    <3>1. pow[n + 1] = ToSizeT(pow[n] * (n + 1))
      BY <1>7
    <3>2. pow[n] * (n + 1) \in Int
      BY <2>2
    <3>. QED
      BY <3>1, <3>2, SizeT
  <2> HIDE DEF T
  <2>. QED
    BY <2>1, <2>2, CountingUp
<1>10. pow \in [Nat -> Nat]
  <2>1. \A i \in Nat : pow[i] \in Nat
    BY <1>9
  <2>2. DOMAIN pow = Nat
    BY <1>8
  <2>3. pow = [i \in Nat |-> pow[i]]
    BY <1>8
  <2>. QED
    BY <2>1, <2>3
<1>11. pow[0] = 1 /\ \A n \in Nat : pow[n + 1] = ToSizeT(pow[n] * (n + 1))
  <2>1. pow[0] = 1
    BY <1>7
  <2>2. ASSUME NEW n \in Nat
        PROVE  pow[n + 1] = ToSizeT(pow[n] * (n + 1))
    <3>1. n + 1 \in Nat /\ n + 1 # 0 /\ (n + 1) - 1 = n
      OBVIOUS
    <3>. QED
      BY <1>7, <3>1
  <2>. QED
    BY <2>1, <2>2
<1>. QED
  BY <1>10, <1>11

LEMMA FactorialSteps ==
    /\ Factorial \in [Nat -> Nat]
    /\ Factorial[0] = 1
    /\ \A n \in Nat : Factorial[n + 1] = (n + 1) * Factorial[n]
<1> DEFINE step == [n \in Nat |-> [a \in Nat |-> (n + 1) * a]]
           Def(f) == f = [n \in Nat |-> IF n = 0 THEN 1 ELSE n * f[n - 1]]
<1>1. step \in [Nat -> [Nat -> Nat]]
  OBVIOUS
<1>2. \A n, a \in Nat : step[n][a] = (n + 1) * a
  OBVIOUS
<1> HIDE DEF step
<1>3. PICK f \in [Nat -> Nat] : /\ f[0] = 1
                                /\ \A n \in Nat : f[n + 1] = step[n][f[n]]
  <2> DEFINE base == 1
  <2>1. base \in Nat
    OBVIOUS
  <2> HIDE DEF base
  <2>2. PICK f : Follows(f, Nat, base, step)
    BY <1>1, <2>1, StepByStep
  <2>. QED
    BY <2>2 DEF base, Follows
<1>4. Def(f)
  <2>1. \A i \in Nat : f[i] = IF i = 0 THEN 1 ELSE i * f[i - 1]
    <3> TAKE i \in Nat
    <3>1. CASE i = 0
      BY <1>3, <3>1
    <3>2. CASE i # 0
      <4>1. i - 1 \in Nat /\ (i - 1) + 1 = i
        BY <3>2
      <4>2. f[(i - 1) + 1] = step[i - 1][f[i - 1]]
        BY <1>3, <4>1
      <4>3. step[i - 1][f[i - 1]] = ((i - 1) + 1) * f[i - 1]
        BY <1>2, <1>3, <4>1
      <4>. QED
        BY <3>2, <4>1, <4>2, <4>3
    <3>. QED
      BY <3>1, <3>2
  <2>. QED
    BY <1>3, <2>1
<1>5. Factorial = CHOOSE f1 : Def(f1)
  BY DEF Factorial
<1> HIDE DEF Def
<1>6. Def(Factorial)
  BY <1>4, <1>5
<1>7. \A i \in Nat : Factorial[i] = IF i = 0 THEN 1 ELSE i * Factorial[i - 1]
  BY <1>6 DEF Def
<1>8. Factorial = [n \in Nat |-> IF n = 0 THEN 1 ELSE n * Factorial[n - 1]]
  BY <1>6 DEF Def
<1>9. Factorial[0] = 1 /\ \A n \in Nat : Factorial[n + 1] = (n + 1) * Factorial[n]
  <2>1. Factorial[0] = 1
    BY <1>7
  <2>2. ASSUME NEW n \in Nat
        PROVE  Factorial[n + 1] = (n + 1) * Factorial[n]
    <3>1. n + 1 \in Nat /\ n + 1 # 0 /\ (n + 1) - 1 = n
      OBVIOUS
    <3>. QED
      BY <1>7, <3>1
  <2>. QED
    BY <2>1, <2>2
<1> DEFINE T == {n \in Nat : Factorial[n] \in Nat}
<1>10. Nat \subseteq T
  <2>1. 0 \in T
    BY <1>9
  <2>2. ASSUME NEW n \in Nat, n \in T
        PROVE  n + 1 \in T
    <3>1. Factorial[n + 1] = (n + 1) * Factorial[n]
      BY <1>9
    <3>. QED
      BY <2>2, <3>1
  <2> HIDE DEF T
  <2>. QED
    BY <2>1, <2>2, CountingUp
<1>11. Factorial \in [Nat -> Nat]
  <2>1. \A i \in Nat : Factorial[i] \in Nat
    BY <1>10
  <2>2. Factorial = [i \in Nat |-> Factorial[i]]
    BY <1>8
  <2>. QED
    BY <2>1, <2>2
<1>. QED
  BY <1>9, <1>11

LEMMA SumSteps ==
    ASSUME NEW s \in Seq(Int)
    PROVE  /\ \A i \in 0 .. Len(s) : sum(s)[i] \in 0 .. SizeMod - 1
           /\ sum(s)[0] = 0
           /\ \A i \in 1 .. Len(s) :
                 sum(s)[i] = ToSizeT(sum(s)[i - 1] + (s[i] + 1) * pow[i])
<1> DEFINE size_t == 0 .. SizeMod - 1
           Char(i) == IF i \in 1 .. Len(s) THEN s[i] + 1 ELSE 0
           step == [n \in Nat |-> [a \in size_t |-> ToSizeT(a + Char(n + 1) * pow[n + 1])]]
           Def(f) == f = [i \in 0 .. Len(s) |->
                             IF i = 0 THEN 0 ELSE ToSizeT(f[i - 1] + (s[i] + 1) * pow[i])]
<1>1. Len(s) \in Nat /\ \A i \in 1 .. Len(s) : s[i] \in Int
  BY ElementOfSeq, LenProperties
<1>2. \A i \in Nat : pow[i] \in Nat
  BY PowSteps
<1>3. 0 \in size_t /\ size_t \subseteq Nat
  BY HashFunctionsAssumption
<1>4. \A n \in Nat, a \in size_t :
         /\ ToSizeT(a + Char(n + 1) * pow[n + 1]) \in size_t
         /\ step[n][a] = ToSizeT(a + Char(n + 1) * pow[n + 1])
  <2> TAKE n \in Nat, a \in size_t
  <2>1. Char(n + 1) \in Int /\ pow[n + 1] \in Int /\ a \in Int
    BY <1>1, <1>2, <1>3
  <2> HIDE DEF Char
  <2>2. a + Char(n + 1) * pow[n + 1] \in Int
    BY <2>1
  <2>3. ToSizeT(a + Char(n + 1) * pow[n + 1]) \in size_t
    BY <2>2, SizeT
  <2>. QED
    BY <2>3
<1>5. step \in [Nat -> [size_t -> size_t]]
  <2>1. \A n \in Nat, a \in size_t : ToSizeT(a + Char(n + 1) * pow[n + 1]) \in size_t
    <3> HIDE DEF Char, size_t
    <3>. QED
      BY <1>4
  <2> HIDE DEF Char, size_t
  <2>. QED
    BY <2>1
<1> HIDE DEF step
<1>6. PICK g \in [Nat -> size_t] : /\ g[0] = 0
                                   /\ \A n \in Nat : g[n + 1] = step[n][g[n]]
  <2> DEFINE base == 0
  <2>1. base \in size_t
    BY <1>3
  <2> HIDE DEF base, size_t
  <2>2. PICK g : Follows(g, size_t, base, step)
    BY <1>5, <2>1, StepByStep
  <2>. QED
    BY <2>2 DEF base, Follows
<1> DEFINE f == [i \in 0 .. Len(s) |-> g[i]]
<1>7. Def(f)
  <2>1. ASSUME NEW i \in 0 .. Len(s)
        PROVE  f[i] = IF i = 0 THEN 0 ELSE ToSizeT(f[i - 1] + (s[i] + 1) * pow[i])
    <3>1. CASE i = 0
      BY <1>6, <3>1
    <3>2. CASE i # 0
      <4>1. i - 1 \in Nat /\ (i - 1) + 1 = i /\ i - 1 \in 0 .. Len(s) /\ i \in 1 .. Len(s) /\ i \in Nat
        BY <1>1, <3>2
      <4>2. g[i] = step[i - 1][g[i - 1]]
        BY <1>6, <4>1
      <4>3. Char(i) = s[i] + 1
        BY <4>1
      <4>4. step[i - 1][g[i - 1]] = ToSizeT(g[i - 1] + Char(i) * pow[i])
        <5> HIDE DEF Char, size_t
        <5>. QED
          BY <1>4, <1>6, <4>1, ZenonT(30)
      <4>5. f[i] = g[i] /\ f[i - 1] = g[i - 1]
        BY <4>1
      <4> HIDE DEF Char, f
      <4>. QED
        BY <3>2, <4>2, <4>3, <4>4, <4>5
    <3>. QED
      BY <3>1, <3>2
  <2>2. f = [i \in 0 .. Len(s) |-> f[i]]
    OBVIOUS
  <2> HIDE DEF f
  <2>. QED
    BY <2>1, <2>2
<1> HIDE DEF f
<1>8. sum(s) = CHOOSE f1 : Def(f1)
  BY DEF sum
<1> HIDE DEF Def
<1>9. Def(sum(s))
  BY <1>7, <1>8
<1> DEFINE h == sum(s)
<1>10. h = [i \in 0 .. Len(s) |->
               IF i = 0 THEN 0 ELSE ToSizeT(h[i - 1] + (s[i] + 1) * pow[i])]
  BY <1>9 DEF Def
<1> HIDE DEF h
<1>11. h[0] = 0 /\ \A i \in 1 .. Len(s) : h[i] = ToSizeT(h[i - 1] + (s[i] + 1) * pow[i])
  <2>1. 0 \in 0 .. Len(s) /\ \A i \in 1 .. Len(s) : i \in 0 .. Len(s) /\ i # 0
    BY <1>1
  <2>. QED
    BY <1>10, <2>1
<1> DEFINE T == {n \in Nat : n <= Len(s) => h[n] \in size_t}
<1>12. Nat \subseteq T
  <2>1. 0 \in T
    BY <1>3, <1>11
  <2>2. ASSUME NEW n \in Nat, n \in T
        PROVE  n + 1 \in T
    <3> SUFFICES ASSUME n + 1 <= Len(s)
                 PROVE  h[n + 1] \in size_t
      OBVIOUS
    <3>1. n + 1 \in 1 .. Len(s) /\ (n + 1) - 1 = n /\ h[n] \in size_t
      BY <1>1, <2>2
    <3>2. h[n + 1] = ToSizeT(h[n] + (s[n + 1] + 1) * pow[n + 1])
      BY <1>11, <3>1
    <3>3. h[n] \in Int /\ s[n + 1] \in Int /\ pow[n + 1] \in Int
      <4> HIDE DEF size_t
      <4>1. h[n] \in Nat
        BY <1>3, <3>1
      <4>2. s[n + 1] \in Int
        BY <1>1, <3>1
      <4>3. pow[n + 1] \in Nat
        BY <1>2
      <4>. QED
        BY <4>1, <4>2, <4>3
    <3>4. h[n] + (s[n + 1] + 1) * pow[n + 1] \in Int
      <4> \A x, y, z \in Int : x + (y + 1) * z \in Int
        OBVIOUS
      <4>. QED
        BY <3>3
    <3>. QED
      BY <3>2, <3>4, SizeT
  <2> HIDE DEF T
  <2>. QED
    BY <2>1, <2>2, CountingUp
<1>13. \A i \in 0 .. Len(s) : h[i] \in size_t
  BY <1>1, <1>12
<1>. QED
  BY <1>11, <1>13 DEF h

\* The weight of char n is n!, as far as size_t holds it.
LEMMA PowIsFactorial == \A n \in Nat : pow[n + 1] = Factorial[n + 1] % SizeMod
<1> DEFINE T == {n \in Nat : pow[n] % SizeMod = Factorial[n] % SizeMod}
<1>1. SizeMod \in Nat \ {0}
  BY HashFunctionsAssumption
<1>2. \A a, b \in Nat : ((a % SizeMod) * b) % SizeMod = (a * b) % SizeMod
  <2> TAKE a \in Nat, b \in Nat
  <2> DEFINE q == a \div SizeMod
             r == a % SizeMod
  <2>1. q \in Nat /\ r \in Nat /\ a = SizeMod * q + r
    BY <1>1
  <2> HIDE DEF q, r
  <2>2. a * b = SizeMod * (q * b) + r * b
    BY <1>1, <2>1
  <2>3. q * b \in Nat /\ r * b \in Nat
    BY <2>1
  <2>4. (a * b) % SizeMod = (r * b) % SizeMod
    BY <1>1, <2>2, <2>3, MultiplesVanish, ZenonT(30)
  <2>. QED
    BY <2>4 DEF r
<1>3. 0 \in T
  BY PowSteps, FactorialSteps
<1>4. ASSUME NEW n \in Nat, n \in T
      PROVE  n + 1 \in T
  <2>1. Factorial[n] \in Nat /\ pow[n] \in Nat /\ pow[n] % SizeMod = Factorial[n] % SizeMod
    BY <1>4, PowSteps, FactorialSteps
  <2>2. pow[n + 1] = (pow[n] * (n + 1)) % SizeMod
    BY PowSteps DEF ToSizeT
  <2>3. pow[n + 1] = (Factorial[n] * (n + 1)) % SizeMod
    <3>1. (pow[n] * (n + 1)) % SizeMod = ((pow[n] % SizeMod) * (n + 1)) % SizeMod
      BY <1>2, <2>1
    <3>2. ((Factorial[n] % SizeMod) * (n + 1)) % SizeMod = (Factorial[n] * (n + 1)) % SizeMod
      <4>1. Factorial[n] \in Nat /\ n + 1 \in Nat
        BY <2>1
      <4>. QED
        BY <1>2, <4>1
    <3>. QED
      BY <2>1, <2>2, <3>1, <3>2
  <2>4. Factorial[n + 1] = Factorial[n] * (n + 1)
    BY <2>1, FactorialSteps
  <2>5. pow[n + 1] % SizeMod = pow[n + 1]
    BY <1>1, <2>1, <2>3
  <2>. QED
    BY <2>3, <2>4, <2>5
<1> HIDE DEF T
<1>5. Nat \subseteq T
  BY <1>3, <1>4, CountingUp
<1>6. ASSUME NEW n \in Nat
      PROVE  pow[n + 1] = Factorial[n + 1] % SizeMod
  <2>1. n + 1 \in T
    BY <1>5
  <2>2. pow[n + 1] = ToSizeT(pow[n] * (n + 1)) /\ pow[n] * (n + 1) \in Int
    BY PowSteps
  <2>3. pow[n + 1] \in 0 .. SizeMod - 1
    BY <2>2, SizeT
  <2>4. pow[n + 1] % SizeMod = pow[n + 1]
    BY <1>1, <2>3
  <2>. QED
    BY <2>1, <2>4 DEF T
<1>. QED
  BY <1>6

\* Once a weight is 0, all the later ones are.
LEMMA PowStaysZero ==
    ASSUME NEW n \in Nat, pow[n] = 0
    PROVE  \A i \in Nat : i >= n => pow[i] = 0
<1> DEFINE T == {d \in Nat : pow[n + d] = 0}
<1>1. 0 \in T
  OBVIOUS
<1>2. ASSUME NEW d \in Nat, d \in T
      PROVE  d + 1 \in T
  <2>1. n + d \in Nat /\ (n + d) + 1 = n + (d + 1) /\ 0 * ((n + d) + 1) = 0
    OBVIOUS
  <2>2. pow[(n + d) + 1] = ToSizeT(pow[n + d] * ((n + d) + 1))
    BY <2>1, PowSteps
  <2>3. ToSizeT(0) = 0
    BY HashFunctionsAssumption DEF ToSizeT
  <2>. QED
    BY <1>2, <2>1, <2>2, <2>3
<1> HIDE DEF T
<1>3. Nat \subseteq T
  BY <1>1, <1>2, CountingUp
<1>4. ASSUME NEW i \in Nat, i >= n
      PROVE  pow[i] = 0
  <2>1. i - n \in Nat /\ n + (i - n) = i
    BY <1>4
  <2>2. i - n \in T
    BY <1>3, <2>1
  <2>. QED
    BY <2>1, <2>2 DEF T
<1>. QED
  BY <1>4

\* The sums of two strings agree as far as the strings do.
LEMMA SameCharsSameSum ==
    ASSUME NEW s \in Seq(Int), NEW t \in Seq(Int), NEW n \in Nat,
           n <= Len(s), n <= Len(t), \A i \in 1 .. n : s[i] = t[i]
    PROVE  sum(s)[n] = sum(t)[n]
<1> DEFINE T == {i \in Nat : i <= n => sum(s)[i] = sum(t)[i]}
<1>0. Len(s) \in Nat /\ Len(t) \in Nat
  BY LenProperties
<1>1. 0 \in T
  BY SumSteps
<1>2. ASSUME NEW i \in Nat, i \in T
      PROVE  i + 1 \in T
  <2> SUFFICES ASSUME i + 1 <= n
               PROVE  sum(s)[i + 1] = sum(t)[i + 1]
    OBVIOUS
  <2>1. i + 1 \in 1 .. n /\ i + 1 \in 1 .. Len(s) /\ i + 1 \in 1 .. Len(t) /\ (i + 1) - 1 = i
    BY <1>0
  <2>2. sum(s)[i] = sum(t)[i] /\ s[i + 1] = t[i + 1]
    BY <1>2, <2>1
  <2>3. sum(s)[i + 1] = ToSizeT(sum(s)[i] + (s[i + 1] + 1) * pow[i + 1])
    BY <2>1, SumSteps
  <2>4. sum(t)[i + 1] = ToSizeT(sum(t)[i] + (t[i + 1] + 1) * pow[i + 1])
    BY <2>1, SumSteps
  <2>. QED
    BY <2>2, <2>3, <2>4
<1> HIDE DEF T
<1>3. Nat \subseteq T
  BY <1>1, <1>2, CountingUp
<1>. QED
  BY <1>3 DEF T

\* Chars without a weight add nothing.
LEMMA SumStandsStill ==
    ASSUME NEW s \in Seq(Int), NEW n \in 0 .. Len(s), pow[n + 1] = 0
    PROVE  sum(s)[Len(s)] = sum(s)[n]
<1> DEFINE T == {i \in Nat : n + i <= Len(s) => sum(s)[n + i] = sum(s)[n]}
<1>0. Len(s) \in Nat /\ n \in Nat
  BY LenProperties
<1>1. 0 \in T
  BY <1>0
<1>2. ASSUME NEW i \in Nat, i \in T
      PROVE  i + 1 \in T
  <2> SUFFICES ASSUME n + (i + 1) <= Len(s)
               PROVE  sum(s)[n + (i + 1)] = sum(s)[n]
    OBVIOUS
  <2> DEFINE j == n + (i + 1)
  <2>1. j \in 1 .. Len(s) /\ j - 1 = n + i /\ n + i \in 0 .. Len(s) /\ j \in Nat /\ j >= n + 1
    BY <1>0
  <2>2. sum(s)[n + i] = sum(s)[n]
    BY <1>0, <1>2, <2>1
  <2> HIDE DEF j
  <2>3. sum(s)[j] = ToSizeT(sum(s)[j - 1] + (s[j] + 1) * pow[j])
    BY <2>1, SumSteps
  <2>4. pow[j] = 0
    BY <1>0, <2>1, PowStaysZero
  <2>5. s[j] \in Int
    BY <2>1, ElementOfSeq
  <2>6. sum(s)[n + i] \in 0 .. SizeMod - 1
    BY <2>1, SumSteps
  <2>7. sum(s)[j - 1] + (s[j] + 1) * pow[j] = sum(s)[n + i]
    BY <2>1, <2>4, <2>5, <2>6, HashFunctionsAssumption
  <2>8. ToSizeT(sum(s)[n + i]) = sum(s)[n + i]
    BY <2>6, SizeT, HashFunctionsAssumption
  <2>. QED
    BY <2>2, <2>3, <2>7, <2>8 DEF j
<1> HIDE DEF T
<1>3. Nat \subseteq T
  BY <1>1, <1>2, CountingUp
<1>4. Len(s) - n \in Nat /\ n + (Len(s) - n) = Len(s)
  BY <1>0
<1>5. Len(s) - n \in T
  BY <1>3, <1>4
<1>. QED
  BY <1>0, <1>4, <1>5 DEF T

\* The string that is hashed is the given one up to the char before the first
\* zero char, if there is one.
LEMMA CStrings ==
    ASSUME NEW s \in Seq(Int)
    PROVE  /\ CString(s) \in Seq(Int)
           /\ \/ /\ CString(s) = s
                 /\ \A i \in 1 .. Len(s) : s[i] # 0
              \/ \E z \in 1 .. Len(s) : /\ s[z] = 0
                                        /\ \A i \in 1 .. z - 1 : s[i] # 0
                                        /\ CString(s) = SubSeq(s, 1, z - 1)
<1> DEFINE zeros == {i \in 1 .. Len(s) : s[i] = 0}
           First(z) == z \in zeros /\ \A j \in zeros : z <= j
<1>0. Len(s) \in Nat
  BY LenProperties
<1>1. CASE zeros = {}
  BY <1>1 DEF CString
<1>2. CASE zeros # {}
  <2>1. PICK z \in zeros : \A y \in zeros : ~ (<<y, z>> \in OpToRel(<, Nat))
    <3>1. zeros \subseteq Nat
      OBVIOUS
    <3> HIDE DEF zeros
    <3>. QED
      BY <1>2, <3>1, NatLessThanWellFounded, WFMin
  <2>2. First(z)
    <3> SUFFICES ASSUME NEW j \in zeros, j < z
                 PROVE  FALSE
      BY <1>0
    <3>1. <<j, z>> \in OpToRel(<, Nat)
      BY DEF OpToRel
    <3>. QED
      BY <2>1, <3>1
  <2> DEFINE c == CHOOSE i \in zeros : \A j \in zeros : i <= j
  <2>3. First(c)
    <3> HIDE DEF zeros
    <3>. QED
      BY <2>2
  <2>4. CString(s) = SubSeq(s, 1, c - 1)
    BY <1>2 DEF CString
  <2> HIDE DEF c
  <2>5. c \in 1 .. Len(s) /\ s[c] = 0
    BY <2>3
  <2>6. \A i \in 1 .. c - 1 : s[i] # 0
    BY <1>0, <2>3, <2>5
  <2>7. SubSeq(s, 1, c - 1) \in Seq(Int)
    <3>1. 1 \in 1 .. Len(s) + 1 /\ c - 1 \in 0 .. Len(s)
      BY <1>0, <2>5
    <3>. QED
      BY <3>1, <1>0, SubSeqProperties
  <2>. QED
    BY <2>4, <2>5, <2>6, <2>7
<1>. QED
  BY <1>1, <1>2


LEMMA PrefixChars ==
    ASSUME NEW s \in Seq(Int), NEW m \in 0 .. Len(s)
    PROVE  /\ SubSeq(s, 1, m) \in Seq(Int) /\ Len(SubSeq(s, 1, m)) = m
           /\ \A i \in 1 .. m : SubSeq(s, 1, m)[i] = s[i]
<1>1. Len(s) \in Nat /\ m \in Nat
  BY LenProperties
<1>2. \A i \in 1 .. m : s[i] \in Int
  BY <1>1, ElementOfSeq
<1>3. /\ SubSeq(s, 1, m) \in Seq(Int)
      /\ Len(SubSeq(s, 1, m)) = IF 1 <= m THEN m - 1 + 1 ELSE 0
      /\ \A i \in 1 .. m - 1 + 1 : SubSeq(s, 1, m)[i] = s[1 + i - 1]
  BY <1>1, <1>2, SubSeqProperties
<1>4. \A i \in 1 .. m : i \in 1 .. m - 1 + 1 /\ 1 + i - 1 = i
  BY <1>1
<1>5. Len(SubSeq(s, 1, m)) = m
  BY <1>1, <1>3
<1>. QED
  BY <1>3, <1>4, <1>5

\* What the chars after the n-th are does not matter, when the weights after
\* the n-th are 0.
LEMMA TailsCollide ==
    ASSUME NEW s \in Seq(Int), NEW n \in 0 .. Len(s), Factorial[n + 1] % SizeMod = 0
    PROVE  StdStringHash(CString(s)) = StdStringHash(CString(SubSeq(s, 1, n)))
<1> DEFINE u == SubSeq(s, 1, n)
           c == CString(s)
           d == CString(u)
<1>1. Len(s) \in Nat /\ n \in Nat
  BY LenProperties
<1>2. /\ u \in Seq(Int) /\ Len(u) = n
      /\ \A i \in 1 .. n : u[i] = s[i]
  BY PrefixChars
<1>3. pow[n + 1] = 0
  BY <1>1, PowIsFactorial
<1> HIDE DEF u
<1>4. /\ d \in Seq(Int)
      /\ \/ d = u /\ \A i \in 1 .. Len(u) : u[i] # 0
         \/ \E z \in 1 .. Len(u) : /\ u[z] = 0
                                   /\ \A i \in 1 .. z - 1 : u[i] # 0
                                   /\ d = SubSeq(u, 1, z - 1)
  BY <1>2, CStrings
<1>5. /\ c \in Seq(Int)
      /\ \/ c = s /\ \A i \in 1 .. Len(s) : s[i] # 0
         \/ \E z \in 1 .. Len(s) : /\ s[z] = 0
                                   /\ \A i \in 1 .. z - 1 : s[i] # 0
                                   /\ c = SubSeq(s, 1, z - 1)
  BY CStrings
<1> HIDE DEF c, d
<1>6. CASE \A i \in 1 .. n : s[i] # 0
  <2>1. d = u
    BY <1>2, <1>4, <1>6
  <2>2. n <= Len(c) /\ \A i \in 1 .. n : c[i] = s[i]
    <3>1. CASE c = s
      BY <1>1, <3>1
    <3>2. ASSUME NEW z \in 1 .. Len(s), s[z] = 0, c = SubSeq(s, 1, z - 1)
          PROVE  n <= Len(c) /\ \A i \in 1 .. n : c[i] = s[i]
      <4> DEFINE m == z - 1
      <4>1. m \in Nat /\ n <= m /\ m <= Len(s)
        BY <1>1, <1>6, <3>2
      <4> HIDE DEF m
      <4>2. Len(SubSeq(s, 1, m)) = m /\ \A i \in 1 .. m : SubSeq(s, 1, m)[i] = s[i]
        BY <1>1, <4>1, PrefixChars
      <4>3. c = SubSeq(s, 1, m)
        BY <3>2 DEF m
      <4>. QED
        BY <1>1, <4>1, <4>2, <4>3
    <3>. QED
      BY <1>5, <3>1, <3>2
  <2>3. sum(c)[n] = sum(u)[n]
    <3>1. n <= Len(c) /\ n <= Len(u) /\ \A i \in 1 .. n : c[i] = u[i]
      BY <1>1, <1>2, <2>2, SMTT(30)
    <3>. QED
      BY <1>1, <1>2, <1>5, <3>1, SameCharsSameSum
  <2>4. sum(c)[Len(c)] = sum(c)[n]
    <3>1. n \in 0 .. Len(c)
      BY <1>1, <1>5, <2>2, LenProperties
    <3>. QED
      BY <1>3, <1>5, <3>1, SumStandsStill
  <2>5. StdStringHash(c) = sum(c)[Len(c)] /\ StdStringHash(d) = sum(u)[n]
    BY <1>2, <2>1, HashIsSum
  <2>. QED
    BY <2>3, <2>4, <2>5 DEF c, d, u
<1>7. CASE \E i \in 1 .. n : s[i] = 0
  <2>1. PICK y \in 1 .. Len(u) : /\ u[y] = 0
                                 /\ \A i \in 1 .. y - 1 : u[i] # 0
                                 /\ d = SubSeq(u, 1, y - 1)
    BY <1>2, <1>4, <1>7
  <2>2. PICK z \in 1 .. Len(s) : /\ s[z] = 0
                                 /\ \A i \in 1 .. z - 1 : s[i] # 0
                                 /\ c = SubSeq(s, 1, z - 1)
    <3>1. \E i \in 1 .. Len(s) : s[i] = 0
      BY <1>1, <1>7
    <3>. QED
      BY <1>5, <3>1
  <2>3. y = z
    <3>1. y \in 1 .. n /\ z \in 1 .. Len(s) /\ s[y] = 0 /\ s[z] = 0
      BY <1>1, <1>2, <2>1, <2>2
    <3>2. ~ y < z
      <4> SUFFICES ASSUME y < z
                   PROVE  FALSE
        OBVIOUS
      <4>1. y \in 1 .. z - 1
        BY <1>1, <3>1
      <4>. QED
        BY <2>2, <3>1, <4>1
    <3>3. ~ z < y
      <4> SUFFICES ASSUME z < y
                   PROVE  FALSE
        OBVIOUS
      <4>1. z \in 1 .. y - 1 /\ z \in 1 .. n
        BY <1>1, <3>1
      <4>. QED
        BY <1>2, <2>1, <3>1, <4>1
    <3>. QED
      BY <1>1, <3>1, <3>2, <3>3
  <2>4. SubSeq(u, 1, z - 1) = SubSeq(s, 1, z - 1)
    <3>1. \A i \in 1 .. z - 1 : u[i] = s[i]
      BY <1>1, <1>2, <2>1, <2>3
    <3>. QED
      BY <1>1, <2>1, <2>2, <2>3, <3>1
  <2>5. c = d
    BY <2>1, <2>2, <2>3, <2>4
  <2>. QED
    BY <2>5 DEF c, d, u
<1>. QED
  BY <1>6, <1>7

-----------------------------------------------------------------------------
(***************************************************************************)
(* What the runs check of every reachable instance.                        *)
(***************************************************************************)
MCTypeOK == iModulo \in 0 .. MaxModulo /\ iKey \in Int /\ sKey \in Seq(Int)

LEMMA MCTypes == Spec => []MCTypeOK
<1>1. Init => MCTypeOK
  <2>1. <<>> \in Seq(Int)
    BY EmptySeq
  <2>. QED
    BY <2>1, MCHashFunctionsAssumption DEF Init, MCTypeOK
<1>2. MCTypeOK /\ [NextKey \/ NextChar \/ NextLength]_mcvars => MCTypeOK'
  <2> SUFFICES ASSUME MCTypeOK, [NextKey \/ NextChar \/ NextLength]_mcvars
               PROVE  MCTypeOK'
    OBVIOUS
  <2>1. CASE NextKey
    BY <2>1 DEF NextKey, MCTypeOK
  <2>2. CASE NextChar
    <3>1. PICK c \in Chars : sKey' = Append(sKey, c)
      BY <2>2 DEF NextChar
    <3>2. c \in Int
      BY DEF Chars
    <3>3. sKey' \in Seq(Int)
      BY <3>1, <3>2, AppendProperties DEF MCTypeOK
    <3>. QED
      BY <2>2, <3>3 DEF NextChar, MCTypeOK
  <2>3. CASE NextLength
    BY <2>3 DEF NextLength, MCTypeOK
  <2>4. CASE UNCHANGED mcvars
    BY <2>4 DEF mcvars, MCTypeOK
  <2>. QED
    BY <2>1, <2>2, <2>3, <2>4
<1>. QED
  BY <1>1, <1>2, PTL DEF Spec

LEMMA DividerFits ==
    ASSUME MCTypeOK
    PROVE  iModulo \in Nat /\ Divider(iModulo) <= SizeMod
  BY MCHashFunctionsAssumption, HashFunctionsAssumption DEF MCTypeOK, Divider

\* insertImpl finds a free cell for a string in any table that has one
\* (hashmap.h:334), and extendImpl one for each pair (hashmap.h:415).
THEOREM StringProbesVisitAll == Spec => []StringProbesAreComplete
<1>1. ASSUME MCTypeOK
      PROVE  StringProbesAreComplete
  <2> DEFINE s == CString(sKey)
  <2>1. s \in Seq(Int)
    BY <1>1, CStrings DEF MCTypeOK
  <2> HIDE DEF s
  <2>2. Len(s) \in 0 .. Len(s)
    BY <2>1, LenProperties
  <2>3. sum(s)[Len(s)] \in Nat
    BY <2>1, <2>2, SumSteps, HashFunctionsAssumption
  <2>4. StdStringHash(s) \in Nat
    BY <2>3, HashIsSum
  <2>. QED
    BY <1>1, <2>4, DividerFits, StringProbeVisitsEveryCell
       DEF StringProbesAreComplete, NoWrap, s
<1>. QED
  BY <1>1, MCTypes, PTL

\* For an integer they do so except for one cell at most, the first one, and
\* only for a key whose first hash is 0 (hash_functions.cpp:69), as long as no
\* negative hash makes the probe wrap.
THEOREM IntProbesVisitAll == Spec => []IntProbesAreComplete
<1>1. ASSUME MCTypeOK
      PROVE  IntProbesAreComplete
  <2>1. iKey \in Int /\ iModulo \in Nat /\ Divider(iModulo) <= SizeMod
    BY <1>1, DividerFits DEF MCTypeOK
  <2>. QED
    BY <2>1, PositiveIntProbeVisitsEveryCell, ZeroIntProbeMissesCellZero
       DEF IntProbesAreComplete, NoWrap
<1>. QED
  BY <1>1, MCTypes, PTL

\* Strings that agree up to the char whose weight size_t no longer holds have
\* the same hash, so that they take the same way through every table
\* (hash_functions.cpp:46-49).
THEOREM LongStringsCollide == Spec => []LongTailsCollide
<1>1. ASSUME MCTypeOK
      PROVE  LongTailsCollide
  BY <1>1, TailsCollide DEF MCTypeOK, LongTailsCollide
<1>. QED
  BY <1>1, MCTypes, PTL
-----------------------------------------------------------------------------
(***************************************************************************)
(* CityHash: which bytes its functions read, for keys of every length.     *)
(***************************************************************************)
(***************************************************************************)
(* One turn of each loop reads the bytes it goes on by.                    *)
(***************************************************************************)
\* The 32 bytes of WeakHashLen32WithSeeds, the unit of the longer chunks.
LEMMA Weak32 ==
    ASSUME NEW s \in Int
    PROVE  WeakHashLen32WithSeeds(s) = s .. s + 31
  BY DEF WeakHashLen32WithSeeds, Fetch64

\* One turn of the loops of CityHash32, CityMurmur, CityHash64,
\* CityHash128WithSeed and CityHashCrc256Long.
LEMMA Chunks ==
    ASSUME NEW s \in Int
    PROVE  /\ Hash32Chunk(s) = s .. s + 19
           /\ Chunk16(s) = s .. s + 15
           /\ Chunk40(s) = s .. s + 39
           /\ Chunk64(s) = s .. s + 63
           /\ Chunk128(s) = s .. s + 127
<1>1. Hash32Chunk(s) = s .. s + 19
  BY DEF Hash32Chunk, Fetch32
<1>2. Chunk16(s) = s .. s + 15
  BY DEF Chunk16, Fetch64
<1>3. Chunk40(s) = s .. s + 39
  BY DEF Chunk40, Fetch64
<1>4. ASSUME NEW p \in Int PROVE Chunk64(p) = p .. p + 63
  <2>1. /\ WeakHashLen32WithSeeds(p) = p .. p + 31
        /\ WeakHashLen32WithSeeds(p + 32) = p + 32 .. p + 63
    BY Weak32
  <2>. QED BY <2>1 DEF Chunk64, Fetch64
<1>5. Chunk128(s) = s .. s + 127
  <2>1. Chunk64(s) = s .. s + 63 /\ Chunk64(s + 64) = s + 64 .. s + 127
    BY <1>4
  <2>. QED BY <2>1 DEF Chunk128
<1>. QED BY <1>1, <1>2, <1>3, <1>4, <1>5

\* All turns of a loop read everything from where it starts.
LEMMA Loops ==
    ASSUME NEW s \in Int, NEW n \in Nat
    PROVE  /\ Hash32Chunks(s, n) = s .. s + 20 * n - 1
           /\ Chunk16s(s, n) = s .. s + 16 * n - 1
           /\ Chunk40s(s, n) = s .. s + 40 * n - 1
           /\ Chunk64s(s, n) = s .. s + 64 * n - 1
           /\ Chunk128s(s, n) = s .. s + 128 * n - 1
<1>1. Hash32Chunks(s, n) = s .. s + 20 * n - 1
  <2>1. ASSUME NEW i \in 0 .. n - 1
        PROVE  Hash32Chunk(s + 20 * i) = s + 20 * i .. s + 20 * i + 19
    BY Chunks
  <2>2. ASSUME NEW b \in s .. s + 20 * n - 1
        PROVE  /\ (b - s) \div 20 \in 0 .. n - 1
               /\ b \in Hash32Chunk(s + 20 * ((b - s) \div 20))
    BY <2>1
  <2>. QED BY <2>1, <2>2 DEF Hash32Chunks
<1>2. Chunk16s(s, n) = s .. s + 16 * n - 1
  <2>1. ASSUME NEW i \in 0 .. n - 1
        PROVE  Chunk16(s + 16 * i) = s + 16 * i .. s + 16 * i + 15
    BY Chunks
  <2>2. ASSUME NEW b \in s .. s + 16 * n - 1
        PROVE  /\ (b - s) \div 16 \in 0 .. n - 1
               /\ b \in Chunk16(s + 16 * ((b - s) \div 16))
    BY <2>1
  <2>. QED BY <2>1, <2>2 DEF Chunk16s
<1>3. Chunk40s(s, n) = s .. s + 40 * n - 1
  <2>1. ASSUME NEW i \in 0 .. n - 1
        PROVE  Chunk40(s + 40 * i) = s + 40 * i .. s + 40 * i + 39
    BY Chunks
  <2>2. ASSUME NEW b \in s .. s + 40 * n - 1
        PROVE  /\ (b - s) \div 40 \in 0 .. n - 1
               /\ b \in Chunk40(s + 40 * ((b - s) \div 40))
    BY <2>1
  <2>. QED BY <2>1, <2>2 DEF Chunk40s
<1>4. Chunk64s(s, n) = s .. s + 64 * n - 1
  <2>1. ASSUME NEW i \in 0 .. n - 1
        PROVE  Chunk64(s + 64 * i) = s + 64 * i .. s + 64 * i + 63
    BY Chunks
  <2>2. ASSUME NEW b \in s .. s + 64 * n - 1
        PROVE  /\ (b - s) \div 64 \in 0 .. n - 1
               /\ b \in Chunk64(s + 64 * ((b - s) \div 64))
    BY <2>1
  <2>. QED BY <2>1, <2>2 DEF Chunk64s
<1>5. Chunk128s(s, n) = s .. s + 128 * n - 1
  <2>1. ASSUME NEW i \in 0 .. n - 1
        PROVE  Chunk128(s + 128 * i) = s + 128 * i .. s + 128 * i + 127
    BY Chunks
  <2>2. ASSUME NEW b \in s .. s + 128 * n - 1
        PROVE  /\ (b - s) \div 128 \in 0 .. n - 1
               /\ b \in Chunk128(s + 128 * ((b - s) \div 128))
    BY <2>1
  <2>. QED BY <2>1, <2>2 DEF Chunk128s
<1>. QED BY <1>1, <1>2, <1>3, <1>4, <1>5

\* The turns of the loop over 240 bytes, each of six chunks of 40.
LEMMA Loop240 ==
    ASSUME NEW s \in Int, NEW n \in Nat
    PROVE  Chunk240s(s, n) = s .. s + 240 * n - 1
<1>1. ASSUME NEW p \in Int PROVE Chunk240(p) = p .. p + 239
  BY Loops DEF Chunk240
<1>2. ASSUME NEW i \in 0 .. n - 1
      PROVE  Chunk240(s + 240 * i) = s + 240 * i .. s + 240 * i + 239
  BY <1>1
<1>3. ASSUME NEW b \in s .. s + 240 * n - 1
      PROVE  /\ (b - s) \div 240 \in 0 .. n - 1
             /\ b \in Chunk240(s + 240 * ((b - s) \div 240))
  BY <1>2
<1>. QED BY <1>2, <1>3 DEF Chunk240s
-----------------------------------------------------------------------------
(***************************************************************************)
(* The functions, for keys of any length from any place on.                *)
(***************************************************************************)
\* CityHash32 reads exactly the len bytes from s on.
THEOREM CityHash32Reads ==
    ASSUME NEW s \in Int, NEW len \in Nat
    PROVE  CityHash32(s, len) = s .. s + len - 1
<1>1. CASE len <= 4
  BY <1>1 DEF CityHash32, Hash32Len0to4
<1>2. CASE len \in 5 .. 12
  <2>1. CityHash32(s, len) = Hash32Len5to12(s, len)
    BY <1>2 DEF CityHash32
  <2>2. CASE len \in 5 .. 7
    <3>1. (len \div 2) % 8 \in 0 .. 3
      BY <2>2
    <3>2. Hash32Len5to12(s, len)
            = Fetch32(s) \cup Fetch32(s + len - 4) \cup Fetch32(s)
      BY <3>1 DEF Hash32Len5to12
    <3>. QED BY <2>1, <2>2, <3>2 DEF Fetch32
  <2>3. CASE len \in 8 .. 12
    <3>1. (len \div 2) % 8 \in 4 .. 6
      BY <2>3
    <3>2. Hash32Len5to12(s, len)
            = Fetch32(s) \cup Fetch32(s + len - 4) \cup Fetch32(s + 4)
      BY <3>1 DEF Hash32Len5to12
    <3>. QED BY <2>1, <2>3, <3>2 DEF Fetch32
  <2>. QED BY <1>2, <2>2, <2>3
<1>3. CASE len \in 13 .. 24
  <2>1. CityHash32(s, len) = Hash32Len13to24(s, len)
    BY <1>3 DEF CityHash32
  <2>2. PICK half \in Int : /\ half = s + len \div 2
                            /\ 2 * (half - s) \in len - 1 .. len
    BY <1>3
  <2>3. Hash32Len13to24(s, len)
          = Fetch32(half - 4) \cup Fetch32(s + 4) \cup Fetch32(s + len - 8)
              \cup Fetch32(half) \cup Fetch32(s) \cup Fetch32(s + len - 4)
    BY <2>2 DEF Hash32Len13to24
  <2>. QED BY <1>3, <2>1, <2>2, <2>3 DEF Fetch32
<1>4. CASE len > 24
  <2>1. Hash32Chunk(s + len - 20) = s + len - 20 .. s + len - 1
    BY Chunks
  <2>2. Hash32Chunks(s, (len - 1) \div 20)
          = s .. s + 20 * ((len - 1) \div 20) - 1
    <3>1. (len - 1) \div 20 \in Nat
      BY <1>4
    <3>. QED BY <3>1, Loops
  <2>3. CityHash32(s, len) = Hash32Chunk(s + len - 20)
                               \cup Hash32Chunks(s, (len - 1) \div 20)
    BY <1>4 DEF CityHash32
  <2>. QED BY <1>4, <2>1, <2>2, <2>3
<1>. QED BY <1>1, <1>2, <1>3, <1>4

\* The short keys of CityHash64, and of CityMurmur.
LEMMA Len0to16 ==
    ASSUME NEW s \in Int, NEW len \in 0 .. 16
    PROVE  HashLen0to16(s, len) = s .. s + len - 1
<1>1. CASE len >= 8
  <2>1. HashLen0to16(s, len) = Fetch64(s) \cup Fetch64(s + len - 8)
    BY <1>1 DEF HashLen0to16
  <2>. QED BY <1>1, <2>1 DEF Fetch64
<1>2. CASE len \in 4 .. 7
  <2>1. HashLen0to16(s, len) = Fetch32(s) \cup Fetch32(s + len - 4)
    BY <1>2 DEF HashLen0to16
  <2>. QED BY <1>2, <2>1 DEF Fetch32
<1>3. CASE len \in 1 .. 3
  <2>1. HashLen0to16(s, len) = {s, s + len \div 2, s + len - 1}
    BY <1>3 DEF HashLen0to16
  <2>2. len = 1 \/ len = 2 \/ len = 3
    BY <1>3
  <2>3. 1 \div 2 = 0 /\ 2 \div 2 = 1 /\ 3 \div 2 = 1
    OBVIOUS
  <2>. QED BY <2>1, <2>2, <2>3
<1>4. CASE len = 0
  <2>1. HashLen0to16(s, len) = {}
    BY <1>4 DEF HashLen0to16
  <2>. QED BY <1>4, <2>1
<1>. QED BY <1>1, <1>2, <1>3, <1>4

\* CityHash64 reads exactly the len bytes from s on.
THEOREM CityHash64Reads ==
    ASSUME NEW s \in Int, NEW len \in Nat
    PROVE  CityHash64(s, len) = s .. s + len - 1
<1>1. CASE len <= 16
  <2>1. CityHash64(s, len) = HashLen0to16(s, len)
    BY <1>1 DEF CityHash64
  <2>2. len \in 0 .. 16
    BY <1>1
  <2>. QED BY <2>1, <2>2, Len0to16
<1>2. CASE len \in 17 .. 32
  <2>1. CityHash64(s, len) = HashLen17to32(s, len)
    BY <1>2 DEF CityHash64
  <2>. QED BY <1>2, <2>1 DEF HashLen17to32, Fetch64
<1>3. CASE len \in 33 .. 64
  <2>1. CityHash64(s, len) = HashLen33to64(s, len)
    BY <1>3 DEF CityHash64
  <2>2. /\ WeakHashLen32WithSeeds(s) = s .. s + 31
        /\ WeakHashLen32WithSeeds(s + len - 32) = s + len - 32 .. s + len - 1
    BY Weak32
  <2>. QED BY <1>3, <2>1, <2>2 DEF HashLen33to64
<1>4. CASE len > 64
  <2>1. Chunk64s(s, (len - 1) \div 64)
          = s .. s + 64 * ((len - 1) \div 64) - 1
    <3>1. (len - 1) \div 64 \in Nat
      BY <1>4
    <3>. QED BY <3>1, Loops
  <2>2. Tail64(s, len) = s + len - 64 .. s + len - 1
    <3>1. /\ WeakHashLen32WithSeeds(s + len - 64) = s + len - 64 .. s + len - 33
          /\ WeakHashLen32WithSeeds(s + len - 32) = s + len - 32 .. s + len - 1
      BY Weak32
    <3>. QED BY <3>1 DEF Tail64, Fetch64
  <2>3. CityHash64(s, len) = Tail64(s, len) \cup Fetch64(s)
                               \cup Chunk64s(s, (len - 1) \div 64)
    BY <1>4 DEF CityHash64
  <2>. QED BY <1>4, <2>1, <2>2, <2>3 DEF Fetch64
<1>. QED BY <1>1, <1>2, <1>3, <1>4

\* CityMurmur, the short keys of CityHash128WithSeed.
LEMMA MurmurReads ==
    ASSUME NEW s \in Int, NEW len \in Nat
    PROVE  CityMurmur(s, len) = s .. s + len - 1
<1>1. CASE len < 8
  <2>1. CityMurmur(s, len) = HashLen0to16(s, len) \cup {}
    BY <1>1 DEF CityMurmur
  <2>2. len \in 0 .. 16
    BY <1>1
  <2>. QED BY <2>1, <2>2, Len0to16
<1>2. CASE len \in 8 .. 16
  <2>1. CityMurmur(s, len) = HashLen0to16(s, len) \cup Fetch64(s)
    BY <1>2 DEF CityMurmur
  <2>2. len \in 0 .. 16
    BY <1>2
  <2>3. HashLen0to16(s, len) = s .. s + len - 1
    BY <2>2, Len0to16
  <2>. QED BY <1>2, <2>1, <2>3 DEF Fetch64
<1>3. CASE len > 16
  <2>1. PICK n \in Nat : /\ n = CeilDiv(len - 16, 16)
                         /\ 16 * n \in len - 16 .. len - 1
    BY <1>3 DEF CeilDiv
  <2>2. Chunk16s(s, n) = s .. s + 16 * n - 1
    BY Loops
  <2>3. Chunk16(s + len - 16) = s + len - 16 .. s + len - 1
    BY Chunks
  <2>4. CityMurmur(s, len) = Chunk16(s + len - 16) \cup Chunk16s(s, n)
    BY <1>3, <2>1 DEF CityMurmur
  <2>. QED BY <1>3, <2>1, <2>2, <2>3, <2>4
<1>. QED BY <1>1, <1>2, <1>3

\* CityHash128WithSeed: the pieces of 32 bytes taken from the end cover what its
\* loop leaves, and the last of them begins inside the key.
LEMMA Hash128WithSeedReads ==
    ASSUME NEW s \in Int, NEW len \in Nat
    PROVE  CityHash128WithSeed(s, len) = s .. s + len - 1
<1>1. CASE len < 128
  <2>1. CityHash128WithSeed(s, len) = CityMurmur(s, len)
    BY <1>1 DEF CityHash128WithSeed
  <2>. QED BY <2>1, MurmurReads
<1>2. CASE len >= 128
  <2> DEFINE Piece(i) == WeakHashLen32WithSeeds(s + len - 32 * i)
             Pieces(m) == UNION {Piece(i) : i \in 1 .. m}
  <2>1. PICK n \in Nat : /\ n = len \div 128
                         /\ 128 * n \in len - 127 .. len
                         /\ len % 128 = len - 128 * n
    BY <1>2
  <2>2. PICK m \in Nat : /\ m = CeilDiv(len % 128, 32)
                         /\ 32 * m \in len - 128 * n .. len - 128 * n + 31
                         /\ m \in 0 .. 4
    BY <2>1 DEF CeilDiv
  <2>3. ASSUME NEW i \in 1 .. m
        PROVE  Piece(i) = s + len - 32 * i .. s + len - 32 * i + 31
    <3>1. i \in Int /\ s + len - 32 * i \in Int
      BY <2>2
    <3>. QED BY <3>1, Weak32
  <2>4. ASSUME NEW b \in s + len - 32 * m .. s + len - 1
        PROVE  \E i \in 1 .. m : b \in Piece(i)
    <3>1. PICK k \in Nat : s + len - 1 - b \in 32 * k .. 32 * k + 31
      <4> DEFINE k == (s + len - 1 - b) \div 32
      <4>1. s + len - 1 - b \in Nat
        BY <2>2
      <4>2. k \in Nat /\ s + len - 1 - b \in 32 * k .. 32 * k + 31
        BY <4>1
      <4>. QED BY <4>2
    <3>2. k + 1 \in 1 .. m
      BY <2>2, <3>1
    <3>3. b \in s + len - 32 * (k + 1) .. s + len - 32 * (k + 1) + 31
      BY <3>1
    <3>. QED BY <2>3, <3>2, <3>3
  <2>5. Pieces(m) = s + len - 32 * m .. s + len - 1
    <3>1. ASSUME NEW i \in 1 .. m
          PROVE  Piece(i) \subseteq s + len - 32 * m .. s + len - 1
      <4>1. /\ 32 * i \in 32 .. 32 * m
            /\ Piece(i) = s + len - 32 * i .. s + len - 32 * i + 31
        BY <2>2, <2>3
      <4>. HIDE DEF Piece
      <4>. QED BY <4>1
    <3>. HIDE DEF Piece
    <3>. QED BY <2>4, <3>1
  <2>6. Chunk128s(s, n) = s .. s + 128 * n - 1
    BY Loops
  <2>7. Chunk16(s) = s .. s + 15
    BY Chunks
  <2>8. CityHash128WithSeed(s, len)
          = Chunk16(s) \cup Fetch64(s + 88) \cup Chunk128s(s, n)
              \cup Pieces(m)
    BY <1>2, <2>1, <2>2 DEF CityHash128WithSeed
  <2>. HIDE DEF Pieces
  <2>9. /\ s + len - 32 * m \in s .. s + 128 * n
        /\ s + 128 * n \in s + 128 .. s + len
    BY <1>2, <2>1, <2>2
  <2>. QED BY <2>5, <2>6, <2>7, <2>8, <2>9 DEF Fetch64
<1>. QED BY <1>1, <1>2

\* CityHash128 reads exactly the len bytes from s on.
THEOREM CityHash128Reads ==
    ASSUME NEW s \in Int, NEW len \in Nat
    PROVE  CityHash128(s, len) = s .. s + len - 1
<1>1. CASE len < 16
  <2>1. CityHash128(s, len) = CityHash128WithSeed(s, len)
    BY <1>1 DEF CityHash128
  <2>. QED BY <2>1, Hash128WithSeedReads
<1>2. CASE len >= 16
  <2>1. CityHash128(s, len) = Chunk16(s) \cup CityHash128WithSeed(s + 16, len - 16)
    BY <1>2 DEF CityHash128
  <2>2. CityHash128WithSeed(s + 16, len - 16) = s + 16 .. s + len - 1
    <3>1. s + 16 \in Int /\ len - 16 \in Nat
      BY <1>2
    <3>2. CityHash128WithSeed(s + 16, len - 16)
            = s + 16 .. (s + 16) + (len - 16) - 1
      BY <3>1, Hash128WithSeedReads
    <3>. QED BY <3>2
  <2>3. Chunk16(s) = s .. s + 15
    BY Chunks
  <2>. QED BY <1>2, <2>1, <2>2, <2>3
<1>. QED BY <1>1, <1>2

\* CityHashCrc256 reads exactly the len bytes from s on.
THEOREM CityHashCrc256Reads ==
    ASSUME NEW s \in Int, NEW len \in Nat
    PROVE  CityHashCrc256(s, len) = s .. s + len - 1
<1>1. CASE len < 240
  BY <1>1 DEF CityHashCrc256, CityHashCrc256Short
<1>2. CASE len >= 240
  <2>1. PICK n \in Nat : /\ n = len \div 240
                         /\ 240 * n \in len - 239 .. len
                         /\ len % 240 = len - 240 * n
    BY <1>2
  <2>2. PICK rest \in Nat : rest = len % 240 /\ rest = len - 240 * n
    BY <2>1
  <2>3. PICK m \in Nat : /\ m = rest \div 40
                         /\ 40 * m \in rest - 39 .. rest
                         /\ rest % 40 = rest - 40 * m
    BY <2>2
  <2> DEFINE start == s + len - rest
             Last == IF rest % 40 > 0 THEN Chunk40(s + len - 40) ELSE {}
  <2>4. Chunk240s(s, n) = s .. start - 1
    <3>1. Chunk240s(s, n) = s .. s + 240 * n - 1
      BY Loop240
    <3>. QED BY <2>2, <3>1
  <2>5. Chunk40s(start, m) = start .. start + 40 * m - 1
    BY Loops
  <2>6. Chunk40(s + len - 40) = s + len - 40 .. s + len - 1
    BY Chunks
  <2>7. CityHashCrc256(s, len)
          = Fetch64(s + 56) \cup Fetch64(s + 96) \cup Fetch64(s + 120)
              \cup Fetch64(s + 184)
              \cup Chunk240s(s, n) \cup Chunk40s(start, m) \cup Last
    BY <1>2, <2>1, <2>2, <2>3 DEF CityHashCrc256, CityHashCrc256Long
  <2>8. /\ start \in Int /\ start >= s + 240
         /\ s + len = start + rest
         /\ 40 * m \in rest - 39 .. rest
    BY <1>2, <2>1, <2>2, <2>3
  <2>9. Fetch64(s + 56) \cup Fetch64(s + 96) \cup Fetch64(s + 120) \cup Fetch64(s + 184)
           \subseteq s .. start - 1
    <3>. HIDE DEF start
    <3>. QED BY <2>8 DEF Fetch64
  <2>10. CityHashCrc256(s, len)
           = (s .. start - 1) \cup (start .. start + 40 * m - 1) \cup Last
    <3>. HIDE DEF start, Last
    <3>. QED BY <2>4, <2>5, <2>7, <2>9
  <2>11. CASE rest % 40 > 0
    <3>1. Last = start + rest - 40 .. start + rest - 1
      BY <2>6, <2>11, <2>8
    <3>. HIDE DEF start, Last
    <3>. QED BY <2>8, <2>10, <3>1
  <2>12. CASE rest % 40 = 0
    <3>1. Last = {}
      BY <2>12
    <3>2. 40 * m = rest
      BY <2>3, <2>12
    <3>. HIDE DEF start, Last
    <3>. QED BY <2>8, <2>10, <3>1, <3>2
  <2>. QED BY <2>2, <2>11, <2>12
<1>. QED BY <1>1, <1>2
-----------------------------------------------------------------------------
(***************************************************************************)
(* The invariants of the runs, for keys of every length.                   *)
(***************************************************************************)
\* Each function reads the bytes of the key, all of them and no others.
LEMMA ReadingsAreTheKey ==
    ASSUME NEW len \in Nat
    PROVE  ReadsStayInside(len) /\ EveryByteIsRead(len)
<1>1. /\ CityHash32(0, len) = 0 .. 0 + len - 1
      /\ CityHash64(0, len) = 0 .. 0 + len - 1
      /\ CityHash128WithSeed(0, len) = 0 .. 0 + len - 1
      /\ CityHash128(0, len) = 0 .. 0 + len - 1
      /\ CityHashCrc256(0, len) = 0 .. 0 + len - 1
  BY CityHash32Reads, CityHash64Reads, Hash128WithSeedReads, CityHash128Reads,
     CityHashCrc256Reads
<1>2. 0 .. 0 + len - 1 = Key(len)
  BY DEF Key
<1>3. CityHashCrc128(0, len) = Key(len)
  <2>1. CASE len <= 900
    BY <1>1, <1>2, <2>1 DEF CityHashCrc128
  <2>2. CASE len > 900
    BY <1>1, <1>2, <2>2 DEF CityHashCrc128
  <2>. QED BY <2>1, <2>2
<1>4. CityHashCrc128WithSeed(0, len) = Key(len)
  <2>1. CASE len <= 900
    BY <1>1, <1>2, <2>1 DEF CityHashCrc128WithSeed
  <2>2. CASE len > 900
    BY <1>1, <1>2, <2>2 DEF CityHashCrc128WithSeed
  <2>. QED BY <2>1, <2>2
<1>5. CityHash64WithSeeds(0, len) = Key(len)
  BY <1>1, <1>2 DEF CityHash64WithSeeds
<1>6. \A r \in Readings(len) : r = Key(len)
  BY <1>1, <1>2, <1>3, <1>4, <1>5 DEF Readings
<1>. QED BY <1>6 DEF ReadsStayInside, EveryByteIsRead

\* The length of the key stays a natural number.
LEMMA LengthIsNat == Spec => [](nKeyLen \in Nat)
<1> DEFINE Inv == nKeyLen \in Nat
<1>1. Init => Inv
  BY DEF Init
<1>2. Inv /\ [NextKey \/ NextChar \/ NextLength]_mcvars => Inv'
  BY DEF NextKey, NextChar, NextLength, mcvars
<1>. HIDE DEF Inv
<1>3. Spec => []Inv
  BY <1>1, <1>2, PTL DEF Spec
<1>. QED BY <1>3 DEF Inv

\* No function of CityHash reads outside the key (city.cc:386 and the offsets
\* from the end of the other functions), whatever its length.
THEOREM CityInside == Spec => []CityStaysInside
<1>1. nKeyLen \in Nat => CityStaysInside
  BY ReadingsAreTheKey DEF CityStaysInside
<1>. QED BY <1>1, LengthIsNat, PTL

\* None leaves a byte of the key out, whatever its length.
THEOREM CityComplete == Spec => []CityReadsEveryByte
<1>1. nKeyLen \in Nat => CityReadsEveryByte
  BY ReadingsAreTheKey DEF CityReadsEveryByte
<1>. QED BY <1>1, LengthIsNat, PTL
=============================================================================
