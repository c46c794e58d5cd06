------------------------------ MODULE MCHashMap ------------------------------
(***************************************************************************)
(* Small instances of HashMap for TLC.                                     *)
(***************************************************************************)
EXTENDS HashMapProperties, TLC

\* The functions of hash_functions.cpp with constants scaled to the tables.
HF == INSTANCE HashFunctions WITH DEFAULT_A <- 7, DEFAULT_B <- 2, DEFAULT_P <- 11

\* String keys: each with the hash of its characters, and linear probing.
StringHashes == [a |-> 1, b |-> 2, c |-> 1]
LinearHash(m, k, i) == HF!StringStep(m, StringHashes[k], i)

\* Integer keys, and the stepping of stdHashFunction for integers.
IntegerHash(m, k, i) == HF!IntHash(m, k, i)

\* Integer keys one of which has a negative hash (a .cfg cannot write them).
SignedKeys == {6, 10, -10}

ThreadSymmetry == Permutations(Threads)
=============================================================================
