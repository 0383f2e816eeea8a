------------------------- MODULE MCWorkspaceOptions -------------------------
(* WorkspaceOptions for TLC: a WorkspaceKind and, around it, the kinds that  *)
(* differ in the fields that are validated together.                         *)
EXTENDS WorkspaceOptions

MCImages == {"i1", "i2", "i3"}
MCPods == {"p1", "p2"}
MCLabelings == {{}, {"team"}}

Image(spec, redirect, spawner) == [spec |-> spec, redirect |-> redirect, labels |-> spawner]
Pod(redirect, spawner) ==
    [spec |-> [metadata |-> "a", extraEnv |-> "a"], redirect |-> redirect, labels |-> spawner]
Http == [http |-> 1]

Base ==
    [name |-> "valid", podMetadata |-> "a", statefulSetMetadata |-> "a",
     serviceAccountMetadata |-> "a", extraEnv |-> "a", probe |-> "none",
     ports |-> [http |-> "a"],
     images |-> [i1 |-> Image(Http, NoRedirect, {}), i2 |-> Image(Http, NoRedirect, {"gpu"})],
     pods |-> [p1 |-> Pod(NoRedirect, {}), p2 |-> Pod(NoRedirect, {"big"})],
     defaultImage |-> "i1", defaultPod |-> "p1", filterRules |-> <<>>, activityRules |-> <<>>]

\* Redirects among up to three image configs; of three, none to itself.
RedirectKinds ==
    LET Redirecting(to) == [Base EXCEPT !.images = [i \in DOMAIN to |-> Image(Http, to[i], {})]]
        AnyTo(ids) == [ids -> {NoRedirect} \cup MCImages]
    IN {Redirecting(to) : to \in AnyTo({"i1"}) \cup AnyTo({"i1", "i2"})
                                \cup {to \in AnyTo(MCImages) : \A i \in MCImages : to[i] # i}}

PodKinds ==
    {[Base EXCEPT !.pods = [p1 |-> Pod(to1, {}), p2 |-> Pod(to2, {"big"})]] :
        to1 \in {NoRedirect, "p2"}, to2 \in {NoRedirect, "p1"}}
    \cup {[Base EXCEPT !.pods["p2"].spec = [metadata |-> m, extraEnv |-> e]] :
             m \in {"b", "malformed"}, e \in {"a", "malformed"}}

PortKinds ==
    {[Base EXCEPT !.ports = ports, !.images["i2"].spec = spec] :
        ports \in {[http |-> "a"], [http |-> "a", alt |-> "a"], [http |-> "a", alt |-> "malformed"]},
        spec \in {Http, [http |-> 1, alt |-> 1], [http |-> 1, alt |-> 2]}}

On(what, selector) == [on |-> what, selector |-> selector, compiles |-> TRUE]
Bad == [on |-> "namespace", selector |-> "team", compiles |-> FALSE]

Activity(pause, match) == [pause |-> pause, match |-> match]

ActivityKinds ==
    {[Base EXCEPT !.probe = probe, !.activityRules = rules] :
        probe \in {"none", "a", "malformed"},
        rules \in {<<>>, <<Activity("yes", {On("namespace", "team")})>>,
                   <<Activity("no", {}), Activity("unset", {})>>,
                   <<Activity("no", {}), Activity("yes", {On("pod", "big")})>>,
                   <<Activity("no", {Bad})>>}}

Rule(scope, ui, hide, deny, match) ==
    [scope |-> scope, effect |-> [uiHide |-> ui, apiHide |-> hide, deny |-> deny], match |-> match]

RuleKinds ==
    {[Base EXCEPT !.filterRules = rules] :
        rules \in {<<Rule("pod", FALSE, FALSE, TRUE, {On("image", "gpu"), On("pod", "big")})>>,
                   <<Rule("pod", TRUE, FALSE, FALSE, {On("image", "gpu")}),
                     Rule("pod", FALSE, TRUE, FALSE, {On("namespace", "team")})>>,
                   <<Rule("image", FALSE, TRUE, FALSE, {On("image", "gpu"), On("namespace", "team")}),
                     Rule("kind", FALSE, FALSE, TRUE, {On("namespace", "team")})>>,
                   <<Rule("kind", FALSE, FALSE, TRUE, {On("image", "gpu")})>>,
                   <<Rule("image", FALSE, FALSE, FALSE, {On("pod", "big")})>>,
                   <<Rule("image", FALSE, FALSE, TRUE, {Bad, On("pod", "big")})>>}}

DataKinds ==
    {[Base EXCEPT !.podMetadata = "malformed"], [Base EXCEPT !.statefulSetMetadata = "malformed"],
     [Base EXCEPT !.serviceAccountMetadata = "malformed"], [Base EXCEPT !.extraEnv = "malformed"],
     [Base EXCEPT !.name = "malformed"], [Base EXCEPT !.defaultPod = "p3"],
     [Base EXCEPT !.extraEnv = "b"]}

MCKinds ==
    RedirectKinds \cup PodKinds \cup PortKinds \cup ActivityKinds \cup RuleKinds \cup DataKinds
=============================================================================
