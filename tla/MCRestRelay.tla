----------------------------- MODULE MCRestRelay -----------------------------
(* Symmetric clients, names and connections for TLC. *)
EXTENDS RestRelay, TLC

RelaySymmetry ==
  Permutations(Client) \cup Permutations(Name) \cup Permutations(Conn)
=============================================================================
