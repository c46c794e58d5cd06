------------------------------ MODULE MCTestable ------------------------------
(***************************************************************************)
(* A small instance of TestableHashMap for TLC.                            *)
(***************************************************************************)
EXTENDS LockTimesCheck, TLC

ThreadSymmetry == Permutations(Threads)
=============================================================================
