--------------------------- MODULE MCBackendStore ---------------------------
(* BackendStore for TLC.                                                   *)
EXTENDS BackendStore, TLC

\* The clients are alike, and the properties do not tell them apart.
Symmetry == Permutations(Clients)
=============================================================================
