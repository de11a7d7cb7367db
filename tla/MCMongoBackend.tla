--------------------------- MODULE MCMongoBackend ---------------------------
(* MongoBackend on small instances; see the mongo_*.cfg files.               *)
EXTENDS MongoBackend

\* Clients are interchangeable: no definition tells them apart.
ClientSymmetry == Permutations(Client)
=============================================================================
