--------------------------- MODULE MCLocalBackend ---------------------------
(* Constants for the runs of LocalBackend that only check safety. *)
EXTENDS LocalBackend, TLC

\* Client processes run the same program and no property names one of them.
ClientSymmetry == Permutations(Client)
=============================================================================
