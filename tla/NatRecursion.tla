----------------------------- MODULE NatRecursion -----------------------------
(***************************************************************************)
(* Induction over the natural numbers, and sequences of values defined by  *)
(* recursion.  The library's theorems on both take an operator, and none   *)
(* of the provers can instantiate one; these take a set and a function.    *)
(***************************************************************************)
EXTENDS Integers, WellFoundedInduction, TLAPS

\* A property of 0 that passes from n to n + 1 is one of every number: T is the
\* set of the numbers that have it.
LEMMA CountingUp ==
    ASSUME NEW T, 0 \in T, \A n \in Nat : n \in T => n + 1 \in T
    PROVE  Nat \subseteq T
<1> SUFFICES ASSUME Nat \ T # {}
             PROVE  FALSE
  OBVIOUS
<1>1. PICK x \in Nat \ T : \A y \in Nat \ T : ~ (<<y, x>> \in OpToRel(<, Nat))
  <2>1. Nat \ T \subseteq Nat
    OBVIOUS
  <2>. QED
    BY <2>1, NatLessThanWellFounded, WFMin
<1>2. x # 0 /\ x - 1 \in Nat /\ x - 1 < x /\ x = (x - 1) + 1
  <2>1. x \in Nat /\ x \notin T
    BY <1>1
  <2>2. x # 0
    BY <2>1
  <2>. QED
    BY <2>1, <2>2
<1>3. <<x - 1, x>> \in OpToRel(<, Nat)
  BY <1>1, <1>2 DEF OpToRel
<1>4. x - 1 \in T
  BY <1>1, <1>2, <1>3
<1>. QED
  BY <1>1, <1>2, <1>4

\* f goes from base, one step after the other.
Follows(f, S, base, step) ==
    /\ f \in [Nat -> S]
    /\ f[0] = base
    /\ \A n \in Nat : f[n + 1] = step[n][f[n]]

\* A step that leads from each value to the next defines a sequence of values.
LEMMA StepByStep ==
    ASSUME NEW S, NEW base \in S, NEW step \in [Nat -> [S -> S]]
    PROVE  \E f : Follows(f, S, base, step)
<1> DEFINE Begins(n, g) == /\ g \in [Nat -> S]
                           /\ g[0] = base
                           /\ \A i \in 0 .. n - 1 : g[i + 1] = step[i][g[i]]
           T == {n \in Nat : \E g \in [Nat -> S] : Begins(n, g)}
           Same(i) == \A n, m \in Nat : \A g, h \in [Nat -> S] :
                         i <= n /\ i <= m /\ Begins(n, g) /\ Begins(m, h) => g[i] = h[i]
           U == {i \in Nat : Same(i)}
           pick == [n \in Nat |-> CHOOSE g \in [Nat -> S] : Begins(n, g)]
           f == [n \in Nat |-> pick[n][n]]
<1>1. Nat \subseteq T
  <2>1. 0 \in T
    <3>1. Begins(0, [i \in Nat |-> base])
      OBVIOUS
    <3>. QED
      BY <3>1
  <2>2. ASSUME NEW n \in Nat, n \in T
        PROVE  n + 1 \in T
    <3>1. PICK g \in [Nat -> S] : Begins(n, g)
      BY <2>2
    <3> DEFINE h == [g EXCEPT ![n + 1] = step[n][g[n]]]
    <3>2. step[n][g[n]] \in S
      BY <3>1
    <3>3. h \in [Nat -> S] /\ h[0] = base
      BY <3>1, <3>2
    <3>4. \A i \in 0 .. n : h[i + 1] = step[i][h[i]]
      <4> TAKE i \in 0 .. n
      <4>1. h[i] = g[i]
        BY <3>1
      <4>2. CASE i = n
        BY <3>1, <4>1, <4>2
      <4>3. CASE i \in 0 .. n - 1
        BY <3>1, <4>1, <4>3
      <4>. QED
        BY <4>2, <4>3
    <3>5. Begins(n + 1, h)
      BY <3>3, <3>4
    <3> HIDE DEF h, Begins
    <3>. QED
      BY <3>3, <3>5
  <2> HIDE DEF T
  <2>. QED
    BY <2>1, <2>2, CountingUp
<1>2. Nat \subseteq U
  <2>1. Same(0)
    OBVIOUS
  <2>2. ASSUME NEW i \in Nat, Same(i)
        PROVE  Same(i + 1)
    <3> SUFFICES ASSUME NEW n \in Nat, NEW m \in Nat,
                        NEW g \in [Nat -> S], NEW h \in [Nat -> S],
                        i + 1 <= n, i + 1 <= m, Begins(n, g), Begins(m, h)
                 PROVE  g[i + 1] = h[i + 1]
      BY ZenonT(30)
    <3>1. i <= n /\ i <= m /\ i \in 0 .. n - 1 /\ i \in 0 .. m - 1
      OBVIOUS
    <3>2. g[i] = h[i]
      <4> HIDE DEF Begins
      <4>. QED
        BY <2>2, <3>1
    <3>3. g[i + 1] = step[i][g[i]] /\ h[i + 1] = step[i][h[i]]
      BY <3>1
    <3>. QED
      BY <3>2, <3>3
  <2> HIDE DEF Same
  <2>3. 0 \in U
    BY <2>1
  <2>4. \A n \in Nat : n \in U => n + 1 \in U
    BY <2>2
  <2> HIDE DEF U
  <2>. QED
    BY <2>3, <2>4, CountingUp
<1>3. ASSUME NEW n \in Nat
      PROVE  pick[n] \in [Nat -> S] /\ Begins(n, pick[n])
  <2> HIDE DEF Begins
  <2>1. \E g \in [Nat -> S] : Begins(n, g)
    BY <1>1
  <2>. QED
    BY <2>1
<1> HIDE DEF pick
<1>4. f \in [Nat -> S]
  BY <1>3
<1>5. f[0] = base
  BY <1>3
<1>6. ASSUME NEW n \in Nat
      PROVE  f[n + 1] = step[n][f[n]]
  <2>1. pick[n + 1][n + 1] = step[n][pick[n + 1][n]]
    BY <1>3
  <2>2. pick[n + 1][n] = pick[n][n]
    <3>1. n \in U
      BY <1>2
    <3>2. Begins(n + 1, pick[n + 1]) /\ Begins(n, pick[n]) /\ pick[n] \in [Nat -> S] /\ pick[n + 1] \in [Nat -> S]
      BY <1>3
    <3> HIDE DEF Begins
    <3>. QED
      BY <3>1, <3>2
  <2>. QED
    BY <2>1, <2>2
<1>. QED
  BY <1>4, <1>5, <1>6 DEF Follows
=============================================================================
