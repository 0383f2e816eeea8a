-------------------------- MODULE MCBackendRequests --------------------------
(* BackendRequests for TLC.                                                *)
EXTENDS BackendRequests, TLC

\* The requests are alike, and the properties do not tell them apart.
Symmetry == Permutations(Requests)
=============================================================================
