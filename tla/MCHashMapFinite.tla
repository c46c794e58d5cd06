--------------------------- MODULE MCHashMapFinite ---------------------------
(***************************************************************************)
(* HashMap used as the test programs use it: every thread makes a finite   *)
(* number of calls, at most MaxCalls (a bound of the instance), of any     *)
(* operations in any order.                                                *)
(***************************************************************************)
EXTENDS MCHashMap

CONSTANT MaxCalls

VARIABLE nCalls   \* calls each thread has made

fvars == <<vars, nCalls>>

FiniteStep(t) == Step(t) /\ UNCHANGED nCalls

FiniteInvoke(t) ==
    /\ nCalls[t] < MaxCalls
    /\ \E c \in Calls : Invoke(t, c)
    /\ nCalls' = [nCalls EXCEPT ![t] = @ + 1]

FiniteSpec ==
    /\ Init /\ nCalls = [t \in Threads |-> 0]
    /\ [][\E t \in Threads : FiniteStep(t) \/ FiniteInvoke(t)]_fvars
    /\ \A t \in Threads : WF_fvars(FiniteStep(t))
=============================================================================
