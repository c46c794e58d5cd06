-------------------------- MODULE MCHashMapObjects --------------------------
(***************************************************************************)
(* A small instance of HashMapObjects for TLC.                             *)
(***************************************************************************)
EXTENDS HashMapObjects, TLC

\* Places, pairs and addresses of tables are interchangeable.
ObjectSymmetry ==
    Permutations(Maps) \cup Permutations(Pairs) \cup Permutations(Tables)
=============================================================================
