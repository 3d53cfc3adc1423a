---------------------------- MODULE MCSystemInit ----------------------------
(***************************************************************************)
(* A small instance of SystemInit for TLC: requests, user names and         *)
(* database files are interchangeable.                                      *)
(***************************************************************************)
EXTENDS SystemInit, TLC

Symmetry == Permutations(Requests) \cup Permutations(Names) \cup Permutations(Dbs)
=============================================================================
