-------------------------- MODULE MCKindProtection --------------------------
(* KindProtection for TLC. *)
EXTENDS KindProtection
=============================================================================
