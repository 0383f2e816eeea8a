------------------------- MODULE MCWorkspaceRollout -------------------------
(* WorkspaceRollout for TLC; the bounds are in the configurations. *)
EXTENDS WorkspaceRollout

\* The options are interchangeable, so it does not matter which one a
\* Workspace is created with; a paused Workspace is one that a user paused.
MCInit == Init /\ Ws.option = (CHOOSE o \in Options : TRUE) /\ ~Ws.paused

MCLiveSpec == MCInit /\ [][Next]_vars /\ Fairness
=============================================================================
