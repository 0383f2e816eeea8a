----------------------------- MODULE FilterRules ----------------------------
(***************************************************************************)
(* The rules of a WorkspaceKind that depend on labels: `filterRules`, with *)
(* which the backend hides or denies kinds and options, and                *)
(* `activityRules`, with which the controller decides whether an idle      *)
(* Workspace is paused.                                                    *)
(*                                                                         *)
(* A set of labels is a set, and a selector asks for one label of it; it   *)
(* may also be one that does not compile.  Labels a request gives or does  *)
(* not give (a nil map in the code) are a set of at most one set: {L} are  *)
(* the labels L, {} is "absent", and {{}} is "present, but no labels".     *)
(*                                                                         *)
(* A filter rule is [scope, effect, match]; scope is "kind", "image" or    *)
(* "pod"; a condition of `match` is on the labels of the "namespace", of   *)
(* an "image" or of a "pod".                                               *)
(***************************************************************************)
EXTENDS Naturals

\* EvalResult: what the first matching rule does.
NoEffect == [uiHide |-> FALSE, apiHide |-> FALSE, deny |-> FALSE]

\* EvalContext: the labels of the namespace and of the options the request
\* selects.
EvalContext(namespace, image, pod) ==
    [namespace |-> namespace, image |-> image, pod |-> pod]

\* compileRules: the conditions whose selector compiles; the others are dropped.
compileRules(rule) == {c \in rule.match : c.compiles}

\* matchSelector.
matchSelector(selector, given) == \E labels \in given : selector \in labels

\* conditionMatches, imageConfigLabels, podConfigLabels: a condition on the
\* kind of option being evaluated is about that option's own labels.
conditionMatches(c, scope, own, ctx) ==
    matchSelector(c.selector, IF c.on = scope THEN {own} ELSE ctx[c.on])

\* The rules for this scope all of whose conditions hold.
Matching(rules, scope, own, ctx) ==
    {i \in DOMAIN rules :
        /\ rules[i].scope = scope
        /\ compileRules(rules[i]) # {}
        /\ \A c \in compileRules(rules[i]) : conditionMatches(c, scope, own, ctx)}

\* Evaluate: the first matching rule decides.
Evaluate(rules, scope, own, ctx) ==
    LET hits == Matching(rules, scope, own, ctx)
    IN IF hits = {} THEN NoEffect
       ELSE rules[CHOOSE i \in hits : \A j \in hits : i <= j].effect

\* EvaluateWorkspaceKindFilterScopeRule: no option is selected.
EvaluateWorkspaceKindFilterScopeRule(kind, namespace) ==
    Evaluate(kind.filterRules, "kind", {}, EvalContext(namespace, {}, {}))

\* BuildEvalContextForImageAndPodCfg: the labels of the selected options; an id
\* that the kind does not have gives no labels.
BuildEvalContextForImageAndPodCfg(kind, namespace, image, pod) ==
    EvalContext(namespace,
                {kind.images[i].labels : i \in {image} \cap DOMAIN kind.images},
                {kind.pods[p].labels : p \in {pod} \cap DOMAIN kind.pods})
-----------------------------------------------------------------------------
(***************************************************************************)
(* What the backend answers.                                               *)
(***************************************************************************)
\* GetWorkspaceKinds with a namespaceFilter: is the kind listed, and may it be
\* used.
ListedKind(kind, namespace) ==
    ~EvaluateWorkspaceKindFilterScopeRule(kind, namespace).apiHide

DeniedKind(kind, namespace) ==
    EvaluateWorkspaceKindFilterScopeRule(kind, namespace).deny

\* buildImageConfigValues, buildPodConfigValues: a value named in the context
\* is the only one listed; api.hide leaves a value out.  The result maps the
\* listed ids to `restrictions.deny`.
buildValues(values, named, rules, scope, ctx) ==
    LET result(v) == Evaluate(rules, scope, values[v].labels, ctx)
        shown == {v \in DOMAIN values : (named # {} => v \in named) /\ ~result(v).apiHide}
    IN [v \in shown |-> result(v).deny]

\* ListPodTemplateOptionsValues, with the ids the request names, if any.
ListPodTemplateOptionsValues(kind, namespace, images, pods) ==
    LET ctx == EvalContext(namespace, {kind.images[i].labels : i \in images},
                           {kind.pods[p].labels : p \in pods})
    IN [images |-> buildValues(kind.images, images, kind.filterRules, "image", ctx),
        pods   |-> buildValues(kind.pods, pods, kind.filterRules, "pod", ctx)]

\* enforceWorkspaceKindFilterRules.
enforceWorkspaceKindFilterRules(kind, namespace) ==
    LET result == EvaluateWorkspaceKindFilterScopeRule(kind, namespace)
    IN ~result.apiHide /\ ~result.deny

\* enforceImageConfigFilterRule, enforcePodConfigFilterRule: silent about an id
\* the kind does not have.
enforceImageConfigFilterRule(kind, ctx, image) ==
    image \in DOMAIN kind.images =>
        LET result == Evaluate(kind.filterRules, "image", kind.images[image].labels, ctx)
        IN ~result.apiHide /\ ~result.deny

enforcePodConfigFilterRule(kind, ctx, pod) ==
    pod \in DOMAIN kind.pods =>
        LET result == Evaluate(kind.filterRules, "pod", kind.pods[pod].labels, ctx)
        IN ~result.apiHide /\ ~result.deny
-----------------------------------------------------------------------------
(***************************************************************************)
(* The controller's pause rule.  An activity rule is [pause, match]; pause *)
(* is "unset", "yes" or "no", and an empty match is a catch-all.           *)
(***************************************************************************)
\* activityRuleMatches: the conditions in turn; the first that fails decides,
\* and a selector that does not compile is an error.
RuleMatches(rule, namespaceLabels, podLabels) ==
    \A c \in rule.match :
        c.selector \in (IF c.on = "namespace" THEN namespaceLabels ELSE podLabels)

\* EvaluatePauseWorkspaceRule fails when it may come to a selector that does
\* not compile: a rule that sets the effect and that no earlier rule hides.
PauseRuleFails(rules, namespaceLabels, podLabels) ==
    \E i \in DOMAIN rules :
        /\ rules[i].pause # "unset"
        /\ \E c \in rules[i].match : ~c.compiles
        /\ \A j \in 1 .. i - 1 :
              ~(rules[j].pause # "unset" /\ RuleMatches(rules[j], namespaceLabels, podLabels))
=============================================================================
