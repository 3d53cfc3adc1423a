------------------------------ MODULE MCMihomo ------------------------------
(***************************************************************************)
(* A small instance of Mihomo for TLC.                                      *)
(***************************************************************************)
EXTENDS Mihomo, TLC

MCDataFiles == <<"geoip", "geosite">>

Symmetry == Permutations(InstallJobs) \cup Permutations(DataJobs)
=============================================================================
