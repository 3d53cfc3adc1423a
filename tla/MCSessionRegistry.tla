------------------------- MODULE MCSessionRegistry -------------------------
(***************************************************************************)
(* Small instances of SessionRegistry for TLC.  Connections and handlers    *)
(* are interchangeable, which the runs of safety properties use.            *)
(***************************************************************************)
EXTENDS SessionRegistry, TLC

Symmetry == Permutations(Conns) \cup Permutations(Handlers)
=============================================================================
