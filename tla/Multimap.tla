------------------------------ MODULE Multimap ------------------------------
(***************************************************************************)
(* What the class HashMap promises its callers: a multimap that keeps the  *)
(* pairs of each key in a sequence, whose operations take effect one at a  *)
(* time, each at some moment between its call and its return.              *)
(*                                                                         *)
(* Positions count from 0; nCount = 0 asks for everything from iPos on.    *)
(* A new pair enters the sequence of its key at any place: removals leave  *)
(* holes, and the next insertion fills the first of them.  Nothing else    *)
(* changes the order, and growing the table changes no sequence at all.    *)
(***************************************************************************)
EXTENDS HashMapInterface, FiniteSets, SequencesExt

VARIABLES items,      \* key -> the sequence of its pairs
          capacity,   \* what capacity() reports: never fewer than the pairs
          nPairs,     \* pairs ever made
          call,       \* the call each thread is in
          ret         \* and its result, once it has taken effect

mvars == <<items, capacity, nPairs, call, ret>>

Init ==
    /\ items = [k \in Keys |-> <<>>]
    /\ capacity = DefaultCapacity
    /\ nPairs = 0
    /\ call = [t \in Threads |-> NoCall]
    /\ ret = [t \in Threads |-> NoRet]

\* The pairs that are there, and how many they are.
Present == UNION {ToSet(items[k]) : k \in Keys}
Total   == Cardinality(Present)

Upto(n) == IF n < 0 THEN 0 ELSE n

\* The first n of the pairs of s from position i on, and s without them.
Slice(s, i, n)   == SubSeq(s, i + 1, i + n)
Without(s, i, n) == SubSeq(s, 1, i) \o SubSeq(s, i + n + 1, Len(s))

\* How many of the Len(s) - i pairs a limit lets through.
Taken(s, i, limit) ==
    IF Len(s) - i < limit THEN Upto(Len(s) - i) ELSE limit

\* remove without nCount stops one short of the capacity, as the code does.
Limit(c) ==
    IF c.nCount # 0 THEN c.nCount
    ELSE IF c.op = "remove" THEN capacity - 1 ELSE Len(items[c.tKey])

Answer(t, r) == ret' = [ret EXCEPT ![t] = r]

ReadEffect(t, c) ==
    /\ CASE c.op = "find" ->
              Answer(t, Range_(Slice(items[c.tKey], c.iPos,
                                     Taken(items[c.tKey], c.iPos, 1))))
         [] c.op = "equalRange" ->
              Answer(t, Range_(Slice(items[c.tKey], c.iPos,
                                     Taken(items[c.tKey], c.iPos, Limit(c)))))
         [] c.op = "operator[]" -> Answer(t, Range_(items[c.tKey]))
         [] c.op = "size" -> Answer(t, Number(Total))
         [] c.op = "empty" -> Answer(t, Truth(Total = 0))
         [] c.op = "capacity" -> Answer(t, Number(capacity))
    /\ UNCHANGED <<items, capacity, nPairs>>

InsertEffect(t, c) ==
    /\ nPairs' = nPairs + 1
    /\ \E i \in 0 .. Len(items[c.tKey]) :
          items' = [items EXCEPT ![c.tKey] =
                      InsertAt(@, i + 1, [key |-> c.tKey, val |-> nPairs'])]
    /\ Total < capacity
    /\ Answer(t, Void)
    /\ UNCHANGED capacity

RemoveEffect(t, c) ==
    LET s == items[c.tKey]
        n == Taken(s, c.iPos, Limit(c))
    IN  /\ Answer(t, Range_(Slice(s, c.iPos, n)))
        /\ items' = [items EXCEPT ![c.tKey] = IF n = 0 THEN s ELSE Without(s, c.iPos, n)]
        /\ UNCHANGED <<capacity, nPairs>>

ExtendEffect(t, c) ==
    /\ capacity' = IF c.nNewCapacity > capacity THEN c.nNewCapacity ELSE capacity
    /\ Answer(t, Void)
    /\ UNCHANGED <<items, nPairs>>

ClearEffect(t) ==
    /\ items' = [k \in Keys |-> <<>>]
    /\ capacity' = DefaultCapacity
    /\ Answer(t, Void)
    /\ UNCHANGED nPairs

\* The call of t takes effect.
Effect(t) ==
    LET c == call[t]
    IN  /\ c # NoCall /\ ret[t] = NoRet
        /\ \/ c.op \in ReadOps /\ ReadEffect(t, c)
           \/ c.op = "insert" /\ InsertEffect(t, c)
           \/ c.op = "remove" /\ RemoveEffect(t, c)
           \/ c.op = "extend" /\ ExtendEffect(t, c)
           \/ c.op = "clear" /\ ClearEffect(t)
        /\ UNCHANGED call

\* An insertion into a full map makes room first.
Grow(t) ==
    /\ call[t] # NoCall /\ call[t].op = "insert" /\ ret[t] = NoRet
    /\ Total = capacity
    /\ capacity' = capacity + DefaultCapacity
    /\ UNCHANGED <<items, nPairs, call, ret>>

Call(t, c) ==
    /\ call[t] = NoCall /\ c.op \in Ops
    /\ call' = [call EXCEPT ![t] = c]
    /\ UNCHANGED <<items, capacity, nPairs, ret>>

Return(t) ==
    /\ ret[t] # NoRet
    /\ call' = [call EXCEPT ![t] = NoCall]
    /\ ret' = [ret EXCEPT ![t] = NoRet]
    /\ UNCHANGED <<items, capacity, nPairs>>

Next == \E t \in Threads :
            \/ \E c \in Calls : Call(t, c)
            \/ Effect(t) \/ Grow(t) \/ Return(t)

Spec == Init /\ [][Next]_mvars
=============================================================================
