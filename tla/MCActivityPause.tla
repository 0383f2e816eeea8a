--------------------------- MODULE MCActivityPause --------------------------
(* ActivityPause for TLC; the intervals and bounds are in the configurations. *)
EXTENDS ActivityPause
=============================================================================
