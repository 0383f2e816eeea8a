---------------------------- MODULE KindAdmission ---------------------------
(***************************************************************************)
(* What the validating webhook of WorkspaceKinds admits, and what the      *)
(* Workspace controller does with an admitted kind.                        *)
(*                                                                         *)
(* ValidateCreate checks everything; ValidateUpdate only checks what the   *)
(* update may have made wrong.  Labels, annotations, templates and scripts *)
(* are data that is well formed or not.  A WorkspaceKind has               *)
(*   name, podMetadata, statefulSetMetadata, serviceAccountMetadata,       *)
(*   extraEnv, probe  : data (probe may be "none")                         *)
(*   ports            : port id -> the request header templates            *)
(*   images           : id -> [spec : port id -> port number, redirect,    *)
(*                             labels]                                     *)
(*   pods             : id -> [spec : [metadata, extraEnv], redirect,      *)
(*                             labels]                                     *)
(*   defaultImage, defaultPod : ids                                        *)
(*   filterRules, activityRules : see FilterRules                          *)
(***************************************************************************)
EXTENDS FilterRules, Sequences, SequencesExt

WellFormed(data) == data # "malformed"

NoRedirect == ""
-----------------------------------------------------------------------------
(***************************************************************************)
(* Redirects between options.                                              *)
(***************************************************************************)
\* The redirect map of a list of option values.
RedirectMap(values) ==
    [v \in {u \in DOMAIN values : values[u].redirect # NoRedirect} |-> values[v].redirect]

\* The n-th node of the walk along the edges from a node.
Walk(start, edges) ==
    LET node[n \in Nat] ==
            IF n = 0 THEN start
            ELSE IF node[n - 1] \in DOMAIN edges THEN edges[node[n - 1]] ELSE node[n - 1]
    IN node

\* Mutant: only a cycle through the start is one.
DetectOwnCycle(start, checked, edges) ==
    LET node  == Walk(start, edges)
        steps == 0 .. Cardinality(DOMAIN edges)
    IN [cycle   |-> start \notin checked /\ \E n \in steps \ {0} : node[n] = start,
        checked |-> checked \cup {node[n] : n \in steps}]

\* DetectGraphCycle: walk until a checked node, a node without an edge, or a
\* node of the walk itself, which is a cycle; otherwise all of it is checked.
DetectGraphCycle(start, checked, edges) ==
    LET node  == Walk(start, edges)
        last  == Cardinality(DOMAIN edges)
        stops == {n \in 0 .. last : node[n] \in checked \/ node[n] \notin DOMAIN edges}
    IN IF stops = {}
       THEN [cycle |-> TRUE, checked |-> checked]
       ELSE [cycle |-> FALSE,
             checked |-> checked \cup
                 {node[n] : n \in {m \in 0 .. last : \A k \in stops : m <= k}}]

\* One turn of the loop over the redirect map, which stops at a cycle.
CheckRedirect(acc, id, ids, edges) ==
    LET found == DetectGraphCycle(id, acc.checked, edges)
    IN IF acc.cycle THEN acc
       ELSE IF found.cycle THEN [acc EXCEPT !.cycle = TRUE, !.ok = FALSE]
       ELSE [acc EXCEPT !.checked = found.checked,
                        !.ok = acc.ok /\ edges[id] \in ids]

\* validateImageConfigRedirects, validatePodConfigRedirects.  The order is the
\* one in which Go ranges over the map: any order.
RedirectsPass(ids, edges, order) ==
    LET turn(acc, id) == CheckRedirect(acc, id, ids, edges)
    IN FoldLeft(turn, [checked |-> {}, cycle |-> FALSE, ok |-> TRUE], order).ok

\* Some run of the loop accepts the redirects.
validateRedirects(values) ==
    \E order \in SetToSeqs(DOMAIN RedirectMap(values)) :
        RedirectsPass(DOMAIN values, RedirectMap(values), order)
-----------------------------------------------------------------------------
(***************************************************************************)
(* The other checks.                                                       *)
(***************************************************************************)
validateRequestHeaders(kind) == \A p \in DOMAIN kind.ports : WellFormed(kind.ports[p])

validateFilterRules(kind) ==
    \A i \in DOMAIN kind.filterRules :
        LET rule == kind.filterRules[i]
        IN /\ rule.effect.uiHide \/ rule.effect.apiHide \/ rule.effect.deny
           /\ \A c \in rule.match :
                 c.compiles /\ (c.on # "namespace" => rule.scope # "kind")

validateDefaults(kind) ==
    kind.defaultImage \in DOMAIN kind.images /\ kind.defaultPod \in DOMAIN kind.pods

\* No port number twice, and every port is one of spec.podTemplate.ports.
validateImageConfigValue(value, ports) ==
    /\ \A p, q \in DOMAIN value.spec : value.spec[p] = value.spec[q] => p = q
    /\ DOMAIN value.spec \subseteq DOMAIN ports

validatePodConfigValue(value) ==
    WellFormed(value.spec.metadata) /\ WellFormed(value.spec.extraEnv)

validateActivityProbe(kind) == WellFormed(kind.probe)

\* Selectors compile; a catch-all for the pause effect is the last rule that
\* sets it; a rule that pauses needs a probe.
validateActivityRules(kind) ==
    LET rules == kind.activityRules
    IN /\ \A i \in DOMAIN rules : \A c \in rules[i].match : c.compiles
       /\ \A i, j \in DOMAIN rules :
             rules[i].pause # "unset" /\ rules[i].match = {} /\ j > i =>
                 rules[j].pause = "unset"
       /\ (\E i \in DOMAIN rules : rules[i].pause = "yes") => kind.probe # "none"

\* ValidateCreate.
ValidateCreate(kind) ==
    /\ WellFormed(kind.name)
    /\ WellFormed(kind.podMetadata)
    /\ WellFormed(kind.statefulSetMetadata)
    /\ WellFormed(kind.serviceAccountMetadata)
    /\ WellFormed(kind.extraEnv)
    /\ validateRequestHeaders(kind)
    /\ validateFilterRules(kind)
    /\ validateActivityProbe(kind)
    /\ validateDefaults(kind)
    /\ \A i \in DOMAIN kind.images : validateImageConfigValue(kind.images[i], kind.ports)
    /\ \A p \in DOMAIN kind.pods : validatePodConfigValue(kind.pods[p])
    /\ validateRedirects(kind.images)
    /\ validateRedirects(kind.pods)
    /\ validateActivityRules(kind)
-----------------------------------------------------------------------------
(***************************************************************************)
(* ValidateUpdate.                                                         *)
(***************************************************************************)
\* The values an update adds, those whose spec it changes, those it removes.
Added(old, new) == DOMAIN new \ DOMAIN old

Changed(old, new) == {v \in DOMAIN new \cap DOMAIN old : new[v].spec # old[v].spec}

Removed(old, new) == DOMAIN old \ DOMAIN new

\* shouldValidateImageConfigRedirects, shouldValidatePodConfigRedirects.
RedirectsAffected(old, new) ==
    \/ Added(old, new) # {} \/ Removed(old, new) # {}
    \/ \E v \in DOMAIN new \cap DOMAIN old : new[v].redirect # old[v].redirect

\* Mutant: a value in use may go as long as it is not changed.
UsedValuesUnchanged(old, new, used) == used \cap Changed(old, new) = {}

\* The option values in use keep their spec and stay.
UsedValuesKept(old, new, used) == used \cap (Changed(old, new) \cup Removed(old, new)) = {}

\* Mutant: changed ports do not bring the image values up for validation.
ImagesToValidateAlone(old, new) ==
    Added(old.images, new.images) \cup Changed(old.images, new.images)

\* toValidateImageConfigIds.
ImagesToValidate(old, new) ==
    IF new.ports # old.ports THEN DOMAIN new.images
    ELSE Added(old.images, new.images) \cup Changed(old.images, new.images)

\* toValidatePodConfigIds.
PodsToValidate(old, new) == Added(old.pods, new.pods) \cup Changed(old.pods, new.pods)

\* The activity rules need validation.
ActivityRulesAffected(old, new) ==
    new.activityRules # old.activityRules \/ new.probe # old.probe

\* ValidateUpdate; usedImages and usedPods are the ids that some Workspace the
\* webhook knows of uses.
ValidateUpdate(old, new, usedImages, usedPods) ==
    /\ new.podMetadata # old.podMetadata => WellFormed(new.podMetadata)
    /\ new.statefulSetMetadata # old.statefulSetMetadata => WellFormed(new.statefulSetMetadata)
    /\ new.serviceAccountMetadata # old.serviceAccountMetadata =>
          WellFormed(new.serviceAccountMetadata)
    /\ new.extraEnv # old.extraEnv => WellFormed(new.extraEnv)
    /\ new.ports # old.ports => validateRequestHeaders(new)
    /\ new.filterRules # old.filterRules => validateFilterRules(new)
    /\ new.probe # old.probe => validateActivityProbe(new)
    /\ ActivityRulesAffected(old, new) => validateActivityRules(new)
    /\ validateDefaults(new)
    /\ \A i \in ImagesToValidate(old, new) : validateImageConfigValue(new.images[i], new.ports)
    /\ \A p \in PodsToValidate(old, new) : validatePodConfigValue(new.pods[p])
    /\ UsedValuesKept(old.images, new.images, usedImages)
    /\ UsedValuesKept(old.pods, new.pods, usedPods)
    /\ RedirectsAffected(old.images, new.images) => validateRedirects(new.images)
    /\ RedirectsAffected(old.pods, new.pods) => validateRedirects(new.pods)
-----------------------------------------------------------------------------
(***************************************************************************)
(* The controller's side.                                                  *)
(***************************************************************************)
\* getImageConfig, getPodConfig: from the selected id, follow the redirects to
\* a value without one; a missing value or a second visit is an error.
ConfigResolves(values, id) ==
    LET edges == RedirectMap(values)
        node  == Walk(id, edges)
    IN \E n \in 0 .. Cardinality(DOMAIN values) :
          /\ node[n] \in DOMAIN values \ DOMAIN edges
          /\ \A m \in 0 .. n : node[m] \in DOMAIN values

\* What generateStatefulSet, generateContainerEnv and generateVirtualService
\* need: templates that render, metadata the API server takes, and for each
\* port of the image its entry in spec.podTemplate.ports.
Generates(kind, image, pod) ==
    /\ WellFormed(kind.podMetadata) /\ WellFormed(kind.statefulSetMetadata)
    /\ WellFormed(kind.serviceAccountMetadata) /\ WellFormed(kind.extraEnv)
    /\ WellFormed(kind.pods[pod].spec.metadata) /\ WellFormed(kind.pods[pod].spec.extraEnv)
    /\ \A p \in DOMAIN kind.images[image].spec :
          p \in DOMAIN kind.ports /\ WellFormed(kind.ports[p])
=============================================================================
