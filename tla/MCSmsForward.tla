---------------------------- MODULE MCSmsForward ----------------------------
(***************************************************************************)
(* SmsForward for TLC: worker goroutines are interchangeable.               *)
(***************************************************************************)
EXTENDS SmsForward, TLC

Symmetry == Permutations(Workers)
=============================================================================
