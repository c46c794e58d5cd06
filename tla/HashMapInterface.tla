-------------------------- MODULE HashMapInterface --------------------------
(***************************************************************************)
(* The public operations of the class HashMap (src/src/hashmap.h): what a  *)
(* thread may call, with which arguments, and what it may get back.  Both  *)
(* the promise (Multimap) and the code (HashMap) are written over it.      *)
(***************************************************************************)
EXTENDS Integers, Sequences

CONSTANTS
    Threads,          \* the threads that share one map
    Keys,             \* KeyT: keys, told apart by == only
    Ops,              \* the operations the threads call, a subset of AllOps
    Positions,        \* the values passed as iPos
    Counts,           \* the values passed as nCount
    NewCapacities,    \* the values passed to extend
    DefaultCapacity,  \* DEFAULT_CAPACITY
    SizeMod           \* 2^w, w the width of size_t

ReadOps  == {"find", "equalRange", "operator[]", "size", "empty", "capacity"}
WriteOps == {"insert", "remove", "extend", "clear"}
AllOps   == ReadOps \cup WriteOps

ASSUME InterfaceAssumption ==
    /\ Ops \subseteq AllOps
    /\ Positions \subseteq Nat
    /\ Counts \subseteq Nat
    /\ NewCapacities \subseteq Nat
    /\ DefaultCapacity \in Nat \ {0}
    /\ SizeMod \in Nat \ {0}

(***************************************************************************)
(* A pair is the object make_shared creates; val numbers the pairs in the  *)
(* order of their creation and stands for the identity of the object, so   *)
(* two pairs that compare equal in C++ stay two pairs here.                *)
(***************************************************************************)
Pairs == [key : Keys, val : Nat]

FindCalls       == [op : {"find"}, tKey : Keys, iPos : Positions]
RangeCalls      == [op : {"equalRange"}, tKey : Keys, iPos : Positions, nCount : Counts]
SubscriptCalls  == [op : {"operator[]"}, tKey : Keys]
InsertCalls     == [op : {"insert"}, tKey : Keys]
RemoveCalls     == [op : {"remove"}, tKey : Keys, iPos : Positions, nCount : Counts]
ExtendCalls     == [op : {"extend"}, nNewCapacity : NewCapacities]
PlainCalls      == [op : {"size", "empty", "capacity", "clear"}]

Calls == FindCalls \cup RangeCalls \cup SubscriptCalls \cup InsertCalls
            \cup RemoveCalls \cup ExtendCalls \cup PlainCalls

\* What a thread that is in no call has in place of a call and of a result.
NoCall == [op |-> "none"]
NoRet  == [kind |-> "none"]

(***************************************************************************)
(* Results.  A range is the sequence of pairs the returned list points to; *)
(* find returns a range of one pair, or an empty one for oDefaultPair.     *)
(***************************************************************************)
Range_(s)  == [kind |-> "range", pairs |-> s]
Number(n)  == [kind |-> "number", n |-> n]
Truth(b)   == [kind |-> "bool", b |-> b]
Void       == [kind |-> "void"]

Results == [kind : {"range"}, pairs : Seq(Pairs)] \cup [kind : {"number"}, n : Nat]
              \cup [kind : {"bool"}, b : BOOLEAN] \cup {Void}
=============================================================================
