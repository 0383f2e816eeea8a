-------------------------- MODULE MCOwnedResources --------------------------
(* OwnedResources for TLC: settings that go deep in one direction each.    *)
EXTENDS OwnedResources

Late == {"ServiceAccount", "RoleBinding"}

MCSettings ==
    {\* the Workspace is deleted and created again
     [useIstio |-> FALSE, edits |-> 2, mishaps |-> 0, lag |-> 3, late |-> {}],
     \* an edit, with caches that miss what was just created
     [useIstio |-> FALSE, edits |-> 1, mishaps |-> 0, lag |-> 2, late |-> Late],
     \* failures, foreign edits and restarts
     [useIstio |-> TRUE, edits |-> 0, mishaps |-> 1, lag |-> 2, late |-> Late],
     [useIstio |-> TRUE, edits |-> 0, mishaps |-> 2, lag |-> 2, late |-> {}]}
=============================================================================
