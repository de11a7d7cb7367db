------------------------- MODULE MCFirestoreBackend -------------------------
(* FirestoreBackend on small instances; see the firestore_*.cfg files.       *)
EXTENDS FirestoreBackend, TLC

\* Clients are interchangeable: no definition tells them apart.
ClientSymmetry == Permutations(Client)
=============================================================================
