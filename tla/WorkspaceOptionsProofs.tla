----------------------- MODULE WorkspaceOptionsProofs -----------------------
(***************************************************************************)
(* What the webhooks admit the controller can work with, and what the      *)
(* backend offers it accepts, for any kinds, options and labels.           *)
(*                                                                         *)
(* First, the incremental checks of WorkspaceKind's ValidateUpdate add up: *)
(* the stored kind passes ValidateCreate.  The argument is one lemma per   *)
(* group of fields: what ValidateUpdate skips depends only on fields that  *)
(* the update leaves alone.  Second, the redirects that ValidateCreate     *)
(* accepts lead from every option to one that has no redirect.  Third, the *)
(* two paths on which the backend evaluates the filter rules agree.        *)
(***************************************************************************)
EXTENDS WorkspaceOptions, FiniteSetTheorems, WellFoundedInduction, TLAPS

\* shouldValidate*Redirects is false: the redirect graph is the one that was
\* validated before, and so is the set of options it must stay in.
LEMMA RedirectsUnaffected ==
    ASSUME NEW old, NEW new, ~RedirectsAffected(old, new), validateRedirects(old)
    PROVE  validateRedirects(new)
<1>1. DOMAIN new = DOMAIN old
  BY DEF RedirectsAffected, Added, Removed
<1>2. \A v \in DOMAIN old : new[v].redirect = old[v].redirect
  BY <1>1 DEF RedirectsAffected
<1>3. RedirectMap(new) = RedirectMap(old)
  <2>1. {u \in DOMAIN new : new[u].redirect # NoRedirect}
          = {u \in DOMAIN old : old[u].redirect # NoRedirect}
    BY <1>1, <1>2
  <2>2. QED
    BY <1>2, <2>1 DEF RedirectMap
<1>4. QED
  BY <1>1, <1>3 DEF validateRedirects

\* toValidateImageConfigIds leaves out only values whose spec and whose ports
\* are those that were validated before.
LEMMA ImagesStayValid ==
    ASSUME NEW old, NEW new,
           \A i \in DOMAIN old.images : validateImageConfigValue(old.images[i], old.ports),
           \A i \in ImagesToValidate(old, new) :
               validateImageConfigValue(new.images[i], new.ports)
    PROVE  \A i \in DOMAIN new.images : validateImageConfigValue(new.images[i], new.ports)
<1> SUFFICES ASSUME NEW i \in DOMAIN new.images, i \notin ImagesToValidate(old, new)
             PROVE  validateImageConfigValue(new.images[i], new.ports)
  OBVIOUS
<1>1. new.ports = old.ports /\ i \in DOMAIN old.images
  BY DEF ImagesToValidate, Added
<1>2. new.images[i].spec = old.images[i].spec
  BY <1>1 DEF ImagesToValidate, Changed
<1>3. validateImageConfigValue(old.images[i], old.ports)
  BY <1>1
<1>4. QED
  BY <1>1, <1>2, <1>3 DEF validateImageConfigValue

\* toValidatePodConfigIds likewise.
LEMMA PodsStayValid ==
    ASSUME NEW old, NEW new,
           \A p \in DOMAIN old.pods : validatePodConfigValue(old.pods[p]),
           \A p \in PodsToValidate(old, new) : validatePodConfigValue(new.pods[p])
    PROVE  \A p \in DOMAIN new.pods : validatePodConfigValue(new.pods[p])
<1> SUFFICES ASSUME NEW p \in DOMAIN new.pods, p \notin PodsToValidate(old, new)
             PROVE  validatePodConfigValue(new.pods[p])
  OBVIOUS
<1>1. p \in DOMAIN old.pods /\ new.pods[p].spec = old.pods[p].spec
  BY DEF PodsToValidate, Added, Changed
<1>2. QED
  BY <1>1 DEF validatePodConfigValue

\* A kind that passes ValidateCreate passes it again after an update that
\* passes ValidateUpdate, whatever options are in use.
LEMMA UpdateKeepsValid ==
    ASSUME NEW old, NEW new, NEW usedImages, NEW usedPods,
           ValidateCreate(old), new.name = old.name,
           ValidateUpdate(old, new, usedImages, usedPods)
    PROVE  ValidateCreate(new)
<1>1. /\ WellFormed(new.name) /\ WellFormed(new.podMetadata)
      /\ WellFormed(new.statefulSetMetadata) /\ WellFormed(new.serviceAccountMetadata)
      /\ WellFormed(new.extraEnv)
  BY DEF ValidateCreate, ValidateUpdate
<1>2. validateRequestHeaders(new)
  BY DEF ValidateCreate, ValidateUpdate, validateRequestHeaders
<1>3. validateFilterRules(new)
  <2>1. CASE new.filterRules = old.filterRules
    BY <2>1 DEF ValidateCreate, validateFilterRules
  <2>2. CASE new.filterRules # old.filterRules
    BY <2>2 DEF ValidateUpdate
  <2>3. QED
    BY <2>1, <2>2
<1>4. validateActivityProbe(new)
  BY DEF ValidateCreate, ValidateUpdate, validateActivityProbe
<1>5. validateDefaults(new)
  BY DEF ValidateUpdate
<1>6. \A i \in DOMAIN new.images : validateImageConfigValue(new.images[i], new.ports)
  BY ImagesStayValid DEF ValidateCreate, ValidateUpdate
<1>7. \A p \in DOMAIN new.pods : validatePodConfigValue(new.pods[p])
  BY PodsStayValid DEF ValidateCreate, ValidateUpdate
<1>8. validateRedirects(new.images) /\ validateRedirects(new.pods)
  BY RedirectsUnaffected DEF ValidateCreate, ValidateUpdate
<1>9. validateActivityRules(new)
  <2>1. CASE ActivityRulesAffected(old, new)
    BY <2>1 DEF ValidateUpdate
  <2>2. CASE ~ActivityRulesAffected(old, new)
    <3>1. new.activityRules = old.activityRules /\ new.probe = old.probe
      BY <2>2 DEF ActivityRulesAffected
    <3>2. validateActivityRules(old)
      BY DEF ValidateCreate
    <3>3. QED
      BY <3>1, <3>2 DEF validateActivityRules
  <2>3. QED
    BY <2>1, <2>2
<1>10. QED
  BY <1>1, <1>2, <1>3, <1>4, <1>5, <1>6, <1>7, <1>8, <1>9 DEF ValidateCreate

\* The stored WorkspaceKind would pass all of ValidateCreate, although after
\* its creation ValidateUpdate only ever looked at what an update changed.
THEOREM StoredKindStaysValid == Spec => []StoredKindValid
<1>1. Init => StoredKindValid
  BY DEF Init, StoredKindValid
<1>2. StoredKindValid /\ [Next]_vars => StoredKindValid'
  <2> SUFFICES ASSUME StoredKindValid, [Next]_vars, kind' # NoKind
               PROVE  ValidateCreate(kind')
    BY DEF StoredKindValid, ValidateCreate
  <2>1. CASE kind' = kind
    BY <2>1 DEF StoredKindValid
  <2>2. ASSUME NEW new \in Kinds, CreateKind(new)
        PROVE  ValidateCreate(kind')
    BY <2>2 DEF CreateKind
  <2>3. ASSUME NEW new \in Kinds, UpdateKind(new)
        PROVE  ValidateCreate(kind')
    <3>1. ValidateCreate(kind) /\ new.name = kind.name /\ kind' = new
      BY <2>3 DEF UpdateKind, StoredKindValid
    <3>2. ValidateUpdate(kind, new, UsedImages, UsedPods)
      BY <2>3 DEF UpdateKind
    <3>3. QED
      BY <3>1, <3>2, UpdateKeepsValid
  <2>4. QED
    BY <2>1, <2>2, <2>3 DEF Next, vars, DeleteKind, PublishUse, RelabelNamespace, Observe,
       ObserveKind, CreateWorkspace, UpdateWorkspace, ApplyWorkspace, StoreWorkspace, DeleteWorkspace
<1>3. QED
  BY <1>1, <1>2, PTL DEF Spec
-----------------------------------------------------------------------------
(***************************************************************************)
(* Redirects.  What follows shows that a redirect graph that some run of   *)
(* the loop of validateRedirects accepts leads every option to an option   *)
(* without a redirect, so that the controller resolves each of them.       *)
(***************************************************************************)
\* Every set of naturals with an element has a least one.
LEMMA LeastNatural ==
    ASSUME NEW T \in SUBSET Nat, T # {}
    PROVE  \E m \in T : \A k \in T : m <= k
<1> DEFINE R == {ss \in Nat \X Nat : ss[1] < ss[2]}
<1>1. IsWellFoundedOn(R, Nat)
  BY NatLessThanWellFounded, Zenon DEF OpToRel
<1>2. PICK m \in T : \A k \in T : ~(<<k, m>> \in R)
  <2> HIDE DEF R
  <2> QED
    BY <1>1, WFMin
<1>3. \A k \in T : ~(k < m)
  <2> TAKE k \in T
  <2>1. <<k, m>> \in Nat \X Nat
    OBVIOUS
  <2>2. <<k, m>> \in R <=> <<k, m>>[1] < <<k, m>>[2]
    BY <2>1
  <2>3. QED
    BY <1>2, <2>2
<1>4. QED
  BY <1>3

\* Induction over the naturals, for the set of numbers that have a property.
LEMMA NaturalsAreInductive ==
    ASSUME NEW T \in SUBSET Nat, 0 \in T, \A n \in Nat : n \in T => n + 1 \in T
    PROVE  T = Nat
<1> SUFFICES ASSUME T # Nat
             PROVE  FALSE
  OBVIOUS
<1>1. PICK m \in Nat \ T : \A k \in Nat \ T : m <= k
  BY LeastNatural
<1>2. m # 0 /\ m - 1 \in Nat
  BY <1>1
<1>3. m - 1 \in T
  BY <1>1, <1>2
<1>4. QED
  BY <1>1, <1>2, <1>3

\* The node after x on the walk along the edges.
Successor(edges, x) == IF x \in DOMAIN edges THEN edges[x] ELSE x

\* A finite beginning of the walk from `start`, up to the n-th node.
IsWalkTo(g, n, start, edges) ==
    g[0] = start /\ \A k \in 1 .. n : g[k] = Successor(edges, g[k - 1])

\* The walk has a beginning of any length.
LEMMA WalksExist ==
    ASSUME NEW start, NEW edges
    PROVE  \A n \in Nat : \E g : IsWalkTo(g, n, start, edges)
<1> DEFINE T == {n \in Nat : \E g : IsWalkTo(g, n, start, edges)}
<1>1. 0 \in T
  <2>1. IsWalkTo([k \in {0} |-> start], 0, start, edges)
    BY DEF IsWalkTo
  <2>2. QED
    BY <2>1
<1>2. ASSUME NEW n \in Nat, n \in T
      PROVE  n + 1 \in T
  <2>1. PICK g : IsWalkTo(g, n, start, edges)
    BY <1>2
  <2> DEFINE h == [k \in 0 .. n + 1 |-> IF k <= n THEN g[k] ELSE Successor(edges, g[n])]
  <2>2. h[0] = start
    BY <2>1 DEF IsWalkTo
  <2>3. ASSUME NEW k \in 1 .. n + 1
        PROVE  h[k] = Successor(edges, h[k - 1])
    <3>1. CASE k = n + 1
      BY <3>1
    <3>2. CASE k # n + 1
      <4>1. k \in 1 .. n /\ k - 1 \in 0 .. n
        BY <3>2
      <4>2. h[k] = g[k] /\ h[k - 1] = g[k - 1]
        BY <4>1
      <4>3. QED
        BY <2>1, <4>1, <4>2 DEF IsWalkTo
    <3>3. QED
      BY <3>1, <3>2
  <2> HIDE DEF h
  <2>4. IsWalkTo(h, n + 1, start, edges)
    BY <2>2, <2>3 DEF IsWalkTo
  <2>5. QED
    BY <2>4
<1> HIDE DEF T
<1>3. T = Nat
  <2>1. T \in SUBSET Nat
    BY DEF T
  <2>2. QED
    BY <1>1, <1>2, <2>1, NaturalsAreInductive
<1>4. QED
  BY <1>3 DEF T

\* Two beginnings of the same walk agree.
LEMMA WalksAgree ==
    ASSUME NEW start, NEW edges, NEW n \in Nat, NEW g, IsWalkTo(g, n, start, edges),
           NEW m \in Nat, NEW h, IsWalkTo(h, m, start, edges)
    PROVE  \A k \in Nat : k <= n /\ k <= m => g[k] = h[k]
<1> DEFINE T == {k \in Nat : k <= n /\ k <= m => g[k] = h[k]}
<1>1. 0 \in T
  BY DEF IsWalkTo
<1>2. ASSUME NEW k \in Nat, k \in T
      PROVE  k + 1 \in T
  <2> SUFFICES ASSUME k + 1 <= n, k + 1 <= m
               PROVE  g[k + 1] = h[k + 1]
    OBVIOUS
  <2>1. g[k] = h[k]
    BY <1>2
  <2>2. k + 1 \in 1 .. n /\ k + 1 \in 1 .. m /\ k + 1 - 1 = k
    OBVIOUS
  <2>3. g[k + 1] = Successor(edges, g[k]) /\ h[k + 1] = Successor(edges, h[k])
    BY <2>2 DEF IsWalkTo
  <2>4. QED
    BY <2>1, <2>3
<1> HIDE DEF T
<1>3. T = Nat
  <2>1. T \in SUBSET Nat
    BY DEF T
  <2>2. QED
    BY <1>1, <1>2, <2>1, NaturalsAreInductive
<1>4. QED
  BY <1>3 DEF T

\* The walk is what its recursive definition says.
LEMMA WalkDef ==
    ASSUME NEW start, NEW edges
    PROVE  /\ Walk(start, edges)[0] = start
           /\ \A n \in Nat : Walk(start, edges)[n + 1] = Successor(edges, Walk(start, edges)[n])
<1> DEFINE P(n) == CHOOSE g : IsWalkTo(g, n, start, edges)
           w == [n \in Nat |-> P(n)[n]]
<1>1. \A n \in Nat : IsWalkTo(P(n), n, start, edges)
  BY WalksExist
<1> HIDE DEF P
<1>2. w[0] = start
  BY <1>1 DEF IsWalkTo
<1>3. ASSUME NEW n \in Nat
      PROVE  w[n + 1] = Successor(edges, w[n])
  <2>1. P(n)[n] = P(n + 1)[n]
    <3>1. IsWalkTo(P(n), n, start, edges) /\ IsWalkTo(P(n + 1), n + 1, start, edges) /\ n + 1 \in Nat
      BY <1>1
    <3>2. n <= n /\ n <= n + 1
      OBVIOUS
    <3>3. QED
      BY <3>1, <3>2, WalksAgree
  <2>2. P(n + 1)[n + 1] = Successor(edges, P(n + 1)[n])
    <3>1. n + 1 \in 1 .. n + 1 /\ n + 1 - 1 = n
      OBVIOUS
    <3>2. QED
      BY <1>1, <3>1 DEF IsWalkTo
  <2>3. QED
    BY <2>1, <2>2
<1>4. w = [n \in Nat |->
              IF n = 0 THEN start
              ELSE IF w[n - 1] \in DOMAIN edges THEN edges[w[n - 1]] ELSE w[n - 1]]
  <2> SUFFICES ASSUME NEW n \in Nat, n # 0
               PROVE  w[n] = IF w[n - 1] \in DOMAIN edges THEN edges[w[n - 1]] ELSE w[n - 1]
    <3> HIDE DEF w
    <3>1. w = [n \in Nat |-> w[n]]
      BY DEF w
    <3>2. QED
      BY <1>2, <3>1
  <2>1. n - 1 \in Nat /\ n - 1 + 1 = n
    OBVIOUS
  <2> HIDE DEF w
  <2>2. QED
    BY <1>3, <2>1 DEF Successor
<1> HIDE DEF w
<1>5. LET node == Walk(start, edges)
      IN node = [n \in Nat |->
              IF n = 0 THEN start
              ELSE IF node[n - 1] \in DOMAIN edges THEN edges[node[n - 1]] ELSE node[n - 1]]
  BY <1>4, Zenon DEF Walk
<1> DEFINE v == Walk(start, edges)
<1> HIDE DEF v
<1>6. v = [n \in Nat |->
              IF n = 0 THEN start
              ELSE IF v[n - 1] \in DOMAIN edges THEN edges[v[n - 1]] ELSE v[n - 1]]
  BY <1>5 DEF v
<1>7. v[0] = start
  BY <1>6
<1>8. ASSUME NEW n \in Nat
      PROVE  v[n + 1] = Successor(edges, v[n])
  <2>1. n + 1 \in Nat /\ n + 1 # 0 /\ n + 1 - 1 = n
    OBVIOUS
  <2>2. QED
    BY <1>6, <2>1 DEF Successor
<1>9. QED
  BY <1>7, <1>8 DEF v

\* The walk from a node of a walk is the rest of that walk.
LEMMA WalkShift ==
    ASSUME NEW start, NEW edges, NEW m \in Nat
    PROVE  \A n \in Nat : Walk(Walk(start, edges)[m], edges)[n] = Walk(start, edges)[m + n]
<1> DEFINE w == Walk(start, edges)
           u == Walk(w[m], edges)
           T == {n \in Nat : u[n] = w[m + n]}
<1>1. /\ u[0] = w[m]
      /\ \A n \in Nat : u[n + 1] = Successor(edges, u[n])
      /\ \A n \in Nat : w[n + 1] = Successor(edges, w[n])
  BY WalkDef
<1> HIDE DEF u, w
<1>2. 0 \in T
  BY <1>1
<1>3. ASSUME NEW n \in Nat, n \in T
      PROVE  n + 1 \in T
  <2>1. u[n] = w[m + n] /\ m + n \in Nat /\ m + (n + 1) = (m + n) + 1
    BY <1>3
  <2>2. QED
    BY <1>1, <2>1
<1> HIDE DEF T
<1>4. T = Nat
  <2>1. T \in SUBSET Nat
    BY DEF T
  <2>2. QED
    BY <1>2, <1>3, <2>1, NaturalsAreInductive
<1>5. QED
  BY <1>4 DEF T, u, w

\* A walk that comes to a node again repeats itself.
LEMMA WalkRepeats ==
    ASSUME NEW start, NEW edges, NEW i \in Nat, NEW j \in Nat, NEW d \in Nat
    PROVE  Walk(start, edges)[i] = Walk(start, edges)[j]
             => Walk(start, edges)[i + d] = Walk(start, edges)[j + d]
<1>1. Walk(Walk(start, edges)[i], edges)[d] = Walk(start, edges)[i + d]
  BY WalkShift
<1>2. Walk(Walk(start, edges)[j], edges)[d] = Walk(start, edges)[j + d]
  BY WalkShift
<1>3. QED
  BY <1>1, <1>2

\* The walk from a node comes to a node without an edge.
Terminates(v, edges) == \E n \in Nat : Walk(v, edges)[n] \notin DOMAIN edges

\* A node from which the walk leads to a terminating one terminates.
LEMMA TerminatesEarlier ==
    ASSUME NEW v, NEW edges, NEW m \in Nat, Terminates(Walk(v, edges)[m], edges)
    PROVE  Terminates(v, edges)
<1>1. PICK n \in Nat : Walk(Walk(v, edges)[m], edges)[n] \notin DOMAIN edges
  BY DEF Terminates
<1>2. Walk(v, edges)[m + n] \notin DOMAIN edges /\ m + n \in Nat
  BY <1>1, WalkShift
<1>3. QED
  BY <1>2 DEF Terminates

\* A turn of DetectGraphCycle that finds no cycle only checks nodes that
\* terminate, and its start is one of them.
LEMMA CheckedTerminate ==
    ASSUME NEW start, NEW checked, NEW edges, Cardinality(DOMAIN edges) \in Nat,
           \A v \in checked : Terminates(v, edges),
           ~DetectGraphCycle(start, checked, edges).cycle
    PROVE  LET found == DetectGraphCycle(start, checked, edges).checked
           IN /\ checked \subseteq found /\ start \in found
              /\ \A v \in found : Terminates(v, edges)
<1> DEFINE node  == Walk(start, edges)
           last  == Cardinality(DOMAIN edges)
           stops == {n \in 0 .. last : node[n] \in checked \/ node[n] \notin DOMAIN edges}
           reached == {m \in 0 .. last : \A k \in stops : m <= k}
           found == checked \cup {node[n] : n \in reached}
<1>1. stops # {} /\ DetectGraphCycle(start, checked, edges).checked = found
  BY DEF DetectGraphCycle
<1>2. start \in found
  <2>1. 0 \in reached
    OBVIOUS
  <2>2. node[0] = start
    BY WalkDef
  <2>3. QED
    BY <2>1, <2>2
<1>3. ASSUME NEW m \in reached
      PROVE  Terminates(node[m], edges)
  <2>1. PICK k \in stops : TRUE
    BY <1>1
  <2>2. m \in Nat /\ k \in Nat /\ m <= k /\ k - m \in Nat /\ m + (k - m) = k
    OBVIOUS
  <2>3. Walk(node[m], edges)[k - m] = node[k]
    BY <2>2, WalkShift
  <2>4. CASE node[k] \in checked
    <3>1. Terminates(Walk(node[m], edges)[k - m], edges)
      BY <2>3, <2>4
    <3>2. QED
      BY <2>2, <3>1, TerminatesEarlier
  <2>5. CASE node[k] \notin DOMAIN edges
    BY <2>2, <2>3, <2>5 DEF Terminates
  <2>6. QED
    BY <2>4, <2>5
<1>4. \A v \in found : Terminates(v, edges)
  <2> HIDE DEF reached
  <2> QED
    BY <1>3
<1>5. QED
  BY <1>1, <1>2, <1>4

\* The values of acc in the loop over the redirect map, by the set of turns
\* taken, satisfy the loop's recursive definition.
IsLoop(g, top, ids, edges, order) ==
    \A s \in SUBSET (1 .. top) :
        g[s] = IF s = {} THEN [checked |-> {}, cycle |-> FALSE, ok |-> TRUE]
               ELSE CheckRedirect(g[s \ {Max(s)}], order[Max(s)], ids, edges)

\* The largest element of a set that reaches its bound.
LEMMA MaxOfBounded ==
    ASSUME NEW n \in Nat, NEW s \in SUBSET (1 .. n), n \in s
    PROVE  Max(s) = n
<1>1. \A y \in s : n >= y
  OBVIOUS
<1>2. Max(s) \in s /\ \A y \in s : Max(s) >= y
  BY <1>1 DEF Max
<1>3. PICK m : m = Max(s)
  OBVIOUS
<1>4. m \in s /\ m >= n
  BY <1>2, <1>3
<1>5. m \in Nat /\ n >= m
  BY <1>1, <1>4
<1>6. QED
  BY <1>3, <1>4, <1>5

LEMMA LoopsExist ==
    ASSUME NEW ids, NEW edges, NEW order
    PROVE  \A n \in Nat : \E g : IsLoop(g, n, ids, edges, order)
<1> DEFINE T == {n \in Nat : \E g : IsLoop(g, n, ids, edges, order)}
           base == [checked |-> {}, cycle |-> FALSE, ok |-> TRUE]
<1> HIDE DEF base
<1>1. 0 \in T
  <2>1. IsLoop([s \in {{}} |-> base], 0, ids, edges, order)
    <3>1. SUBSET (1 .. 0) = {{}}
      OBVIOUS
    <3>2. QED
      BY <3>1 DEF IsLoop, base
  <2>2. QED
    BY <2>1
<1>2. ASSUME NEW n \in Nat, n \in T
      PROVE  n + 1 \in T
  <2>1. PICK g : IsLoop(g, n, ids, edges, order)
    BY <1>2
  <2> DEFINE h == [s \in SUBSET (1 .. n + 1) |->
                      IF n + 1 \in s
                      THEN CheckRedirect(g[s \ {n + 1}], order[n + 1], ids, edges)
                      ELSE g[s]]
  <2>2. \A s \in SUBSET (1 .. n + 1) : n + 1 \notin s => s \in SUBSET (1 .. n) /\ h[s] = g[s]
    OBVIOUS
  <2>3. \A s \in SUBSET (1 .. n + 1) : n + 1 \in s =>
          h[s] = CheckRedirect(g[s \ {n + 1}], order[n + 1], ids, edges)
    OBVIOUS
  <2> HIDE DEF h
  <2>4. ASSUME NEW s \in SUBSET (1 .. n + 1)
        PROVE  h[s] = IF s = {} THEN base
                      ELSE CheckRedirect(h[s \ {Max(s)}], order[Max(s)], ids, edges)
    <3>1. CASE n + 1 \in s
      <4>1. Max(s) = n + 1 /\ s # {}
        BY <3>1, MaxOfBounded
      <4>2. s \ {n + 1} \in SUBSET (1 .. n + 1) /\ n + 1 \notin s \ {n + 1}
        OBVIOUS
      <4>3. h[s \ {n + 1}] = g[s \ {n + 1}]
        BY <2>2, <4>2
      <4>4. QED
        BY <2>3, <3>1, <4>1, <4>3
    <3>2. CASE n + 1 \notin s
      <4>1. s \in SUBSET (1 .. n) /\ h[s] = g[s]
        BY <2>2, <3>2
      <4>2. h[s \ {Max(s)}] = g[s \ {Max(s)}]
        <5>1. s \ {Max(s)} \in SUBSET (1 .. n + 1) /\ n + 1 \notin s \ {Max(s)}
          BY <3>2
        <5>2. QED
          BY <2>2, <5>1
      <4>3. QED
        BY <2>1, <4>1, <4>2 DEF IsLoop, base
    <3>3. QED
      BY <3>1, <3>2
  <2>5. IsLoop(h, n + 1, ids, edges, order)
    BY <2>4 DEF IsLoop, base
  <2>6. QED
    BY <2>5
<1> HIDE DEF T
<1>3. T = Nat
  <2>1. T \in SUBSET Nat
    BY DEF T
  <2>2. QED
    BY <1>1, <1>2, <2>1, NaturalsAreInductive
<1>4. QED
  BY <1>3 DEF T

\* The loop of validateRedirects runs through such values.
LEMMA LoopRuns ==
    ASSUME NEW ids, NEW edges, NEW top \in Nat, NEW order, DOMAIN order = 1 .. top
    PROVE  \E g : /\ IsLoop(g, top, ids, edges, order)
                  /\ RedirectsPass(ids, edges, order) <=> g[1 .. top].ok
<1> DEFINE base == [checked |-> {}, cycle |-> FALSE, ok |-> TRUE]
           Turn(g, s) == IF s = {} THEN base
                         ELSE CheckRedirect(g[s \ {Max(s)}], order[Max(s)], ids, edges)
           loop == CHOOSE g : g = [s \in SUBSET (1 .. top) |-> Turn(g, s)]
<1>1. RedirectsPass(ids, edges, order) <=> loop[1 .. top].ok
  BY Zenon DEF RedirectsPass, FoldLeft, MapThenFoldSet
<1>2. \E g : g = [s \in SUBSET (1 .. top) |-> Turn(g, s)]
  <2>1. PICK g : IsLoop(g, top, ids, edges, order)
    BY LoopsExist
  <2> DEFINE h == [s \in SUBSET (1 .. top) |-> g[s]]
  <2>2. \A s \in SUBSET (1 .. top) : h[s] = Turn(h, s)
    <3> TAKE s \in SUBSET (1 .. top)
    <3>1. s \ {Max(s)} \in SUBSET (1 .. top)
      OBVIOUS
    <3>2. h[s] = g[s] /\ h[s \ {Max(s)}] = g[s \ {Max(s)}]
      BY <3>1
    <3> HIDE DEF h
    <3>3. QED
      BY <2>1, <3>2 DEF IsLoop
  <2>3. h = [s \in SUBSET (1 .. top) |-> h[s]]
    OBVIOUS
  <2> HIDE DEF h, Turn
  <2>4. h = [s \in SUBSET (1 .. top) |-> Turn(h, s)]
    BY <2>2, <2>3
  <2>5. QED
    BY <2>4
<1>3. loop = [s \in SUBSET (1 .. top) |-> Turn(loop, s)]
  BY <1>2, Zenon
<1> HIDE DEF loop
<1>4. IsLoop(loop, top, ids, edges, order)
  <2>1. \A s \in SUBSET (1 .. top) : loop[s] = Turn(loop, s)
    BY <1>3, Zenon
  <2>2. QED
    BY <2>1 DEF IsLoop
<1>5. QED
  BY <1>1, <1>4

\* What holds of acc after some turns: an error is remembered, and without one
\* the nodes of these turns are checked, and they lead where they should.
LoopFits(acc, turns, ids, edges, order) ==
    /\ acc.cycle \in BOOLEAN /\ acc.ok \in BOOLEAN /\ DOMAIN acc = {"checked", "cycle", "ok"}
    /\ acc.cycle => ~acc.ok
    /\ acc.ok => /\ \A v \in acc.checked : Terminates(v, edges)
                 /\ \A k \in turns : order[k] \in acc.checked /\ edges[order[k]] \in ids

LEMMA TurnFits ==
    ASSUME NEW ids, NEW edges, NEW order, NEW acc, NEW turns, NEW k,
           Cardinality(DOMAIN edges) \in Nat, LoopFits(acc, turns, ids, edges, order)
    PROVE  LoopFits(CheckRedirect(acc, order[k], ids, edges), turns \cup {k}, ids, edges, order)
<1> DEFINE found == DetectGraphCycle(order[k], acc.checked, edges)
           next  == CheckRedirect(acc, order[k], ids, edges)
<1>1. CASE acc.cycle
  <2>1. next = acc
    BY <1>1 DEF CheckRedirect
  <2>2. QED
    BY <1>1, <2>1 DEF LoopFits
<1>2. CASE ~acc.cycle /\ found.cycle
  <2>1. next = [acc EXCEPT !.cycle = TRUE, !.ok = FALSE]
    BY <1>2 DEF CheckRedirect
  <2>2. DOMAIN next = DOMAIN acc /\ next.cycle = TRUE /\ next.ok = FALSE
    BY <2>1 DEF LoopFits
  <2>3. QED
    BY <2>2 DEF LoopFits
<1>3. CASE ~acc.cycle /\ ~found.cycle
  <2>1. next = [acc EXCEPT !.checked = found.checked, !.ok = acc.ok /\ edges[order[k]] \in ids]
    BY <1>3 DEF CheckRedirect
  <2>2. /\ DOMAIN next = DOMAIN acc /\ next.cycle = acc.cycle /\ next.checked = found.checked
        /\ next.ok = (acc.ok /\ edges[order[k]] \in ids)
    BY <2>1 DEF LoopFits
  <2>3. ASSUME acc.ok
        PROVE  /\ acc.checked \subseteq found.checked /\ order[k] \in found.checked
               /\ \A v \in found.checked : Terminates(v, edges)
    BY <1>3, <2>3, CheckedTerminate DEF LoopFits
  <2> HIDE DEF found, next
  <2>4. LoopFits(next, turns \cup {k}, ids, edges, order)
    BY <1>3, <2>2, <2>3 DEF LoopFits
  <2>5. QED
    BY <2>4 DEF next
<1>4. QED
  BY <1>1, <1>2, <1>3

\* A loop that ends without an error has found every redirect to lead to an
\* option that exists and, in the end, to one without a redirect.
LEMMA PassingRedirects ==
    ASSUME NEW ids, NEW edges, IsFiniteSet(DOMAIN edges),
           NEW order \in SetToSeqs(DOMAIN edges), RedirectsPass(ids, edges, order)
    PROVE  \A v \in DOMAIN edges : edges[v] \in ids /\ Terminates(v, edges)
<1> DEFINE top == Cardinality(DOMAIN edges)
<1>1. top \in Nat
  BY FS_CardinalityType
<1>2. /\ order \in [1 .. top -> DOMAIN edges]
      /\ \A i, j \in 1 .. top : i # j => order[i] # order[j]
  BY DEF SetToSeqs
<1>3. DOMAIN order = 1 .. top
  BY <1>2
<1>4. PICK g : IsLoop(g, top, ids, edges, order) /\ g[1 .. top].ok
  BY <1>1, <1>3, LoopRuns
<1> HIDE DEF top
<1> DEFINE T == {n \in Nat : n <= top => LoopFits(g[1 .. n], 1 .. n, ids, edges, order)}
<1>5. 0 \in T
  <2>1. 1 .. 0 = {} /\ {} \in SUBSET (1 .. top)
    OBVIOUS
  <2>2. g[{}] = [checked |-> {}, cycle |-> FALSE, ok |-> TRUE]
    BY <1>4, <2>1 DEF IsLoop
  <2>3. LoopFits(g[{}], {}, ids, edges, order)
    BY <2>2 DEF LoopFits
  <2>4. QED
    BY <2>1, <2>3
<1>6. ASSUME NEW n \in Nat, n \in T
      PROVE  n + 1 \in T
  <2> SUFFICES ASSUME n + 1 <= top
               PROVE  LoopFits(g[1 .. n + 1], 1 .. n + 1, ids, edges, order)
    OBVIOUS
  <2>1. LoopFits(g[1 .. n], 1 .. n, ids, edges, order)
    BY <1>1, <1>6
  <2>2. /\ 1 .. n + 1 \in SUBSET (1 .. top) /\ n + 1 \in 1 .. n + 1
        /\ (1 .. n + 1) \ {n + 1} = 1 .. n /\ (1 .. n) \cup {n + 1} = 1 .. n + 1
    BY <1>1
  <2>3. Max(1 .. n + 1) = n + 1
    BY <2>2, MaxOfBounded
  <2>4. g[1 .. n + 1] = CheckRedirect(g[1 .. n], order[n + 1], ids, edges)
    BY <1>4, <2>2, <2>3 DEF IsLoop
  <2>5. LoopFits(CheckRedirect(g[1 .. n], order[n + 1], ids, edges), (1 .. n) \cup {n + 1},
                 ids, edges, order)
    BY <1>1, <2>1, TurnFits DEF top
  <2>6. QED
    BY <2>2, <2>4, <2>5
<1> HIDE DEF T
<1>7. T = Nat
  <2>1. T \in SUBSET Nat
    BY DEF T
  <2>2. QED
    BY <1>5, <1>6, <2>1, NaturalsAreInductive
<1>8. LoopFits(g[1 .. top], 1 .. top, ids, edges, order)
  BY <1>1, <1>7 DEF T
<1>9. ASSUME NEW v \in DOMAIN edges
      PROVE  \E k \in 1 .. top : order[k] = v
  <2> SUFFICES ASSUME \A k \in 1 .. top : order[k] # v
               PROVE  FALSE
    OBVIOUS
  <2>1. order \in [1 .. top -> DOMAIN edges \ {v}]
    BY <1>2
  <2>2. IsFiniteSet(DOMAIN edges \ {v}) /\ Cardinality(DOMAIN edges \ {v}) = top - 1
    BY FS_RemoveElement DEF top
  <2>3. IsFiniteSet(1 .. top) /\ Cardinality(1 .. top) = top
    BY <1>1, FS_Interval
  <2>4. \E i, j \in 1 .. top : i # j /\ order[i] = order[j]
    <3>1. Cardinality(DOMAIN edges \ {v}) < Cardinality(1 .. top)
      BY <1>1, <2>2, <2>3
    <3>2. PICK S, R : S = 1 .. top /\ R = DOMAIN edges \ {v}
      OBVIOUS
    <3>3. /\ IsFiniteSet(S) /\ IsFiniteSet(R) /\ Cardinality(R) < Cardinality(S)
          /\ order \in [S -> R]
      BY <2>1, <2>2, <2>3, <3>1, <3>2
    <3>4. \E i, j \in S : i # j /\ order[i] = order[j]
      BY <3>3, FS_PigeonHole
    <3>5. QED
      BY <3>2, <3>4
  <2>5. QED
    BY <1>2, <2>4
<1>10. QED
  BY <1>4, <1>8, <1>9 DEF LoopFits

\* getImageConfig and getPodConfig find an option without a redirect from every
\* option of a kind whose redirects validateRedirects accepted, within as many
\* steps as there are options: the walk to it meets no option twice.
LEMMA ValidRedirectsResolve ==
    ASSUME NEW values, IsFiniteSet(DOMAIN values), validateRedirects(values),
           NEW id \in DOMAIN values
    PROVE  ConfigResolves(values, id)
<1> DEFINE edges == RedirectMap(values)
           node  == Walk(id, edges)
           ends  == {n \in Nat : node[n] \notin DOMAIN edges}
<1>1. DOMAIN edges \subseteq DOMAIN values
  BY DEF RedirectMap
<1>2. IsFiniteSet(DOMAIN edges) /\ Cardinality(DOMAIN edges) <= Cardinality(DOMAIN values)
  BY <1>1, FS_Subset
<1>3. \A v \in DOMAIN edges : edges[v] \in DOMAIN values /\ Terminates(v, edges)
  <2>1. PICK order \in SetToSeqs(DOMAIN edges) : RedirectsPass(DOMAIN values, edges, order)
    BY DEF validateRedirects
  <2> HIDE DEF edges
  <2>2. QED
    BY <1>2, <2>1, PassingRedirects
<1>4. node[0] = id /\ \A n \in Nat : node[n + 1] = Successor(edges, node[n])
  BY WalkDef
<1> HIDE DEF edges
<1>5. ends # {}
  <2>1. CASE id \in DOMAIN edges
    BY <1>3, <2>1 DEF Terminates
  <2>2. CASE id \notin DOMAIN edges
    BY <1>4, <2>2
  <2>3. QED
    BY <2>1, <2>2
<1>6. PICK n \in ends : \A k \in ends : n <= k
  BY <1>5, LeastNatural
<1>7. n \in Nat /\ node[n] \notin DOMAIN edges
      /\ \A m \in Nat : m < n => node[m] \in DOMAIN edges
  BY <1>6
<1>8. n <= Cardinality(DOMAIN edges)
  <2> SUFFICES ASSUME ~(n <= Cardinality(DOMAIN edges))
               PROVE  FALSE
    OBVIOUS
  <2>1. Cardinality(DOMAIN edges) \in Nat
    BY <1>2, FS_CardinalityType
  <2>2. PICK S, f : S = 0 .. n - 1 /\ f = [m \in 0 .. n - 1 |-> node[m]]
    OBVIOUS
  <2>3. IsFiniteSet(S) /\ Cardinality(S) = n
    BY <1>7, <2>1, <2>2, FS_Interval
  <2>4. f \in [S -> DOMAIN edges]
    BY <1>7, <2>2
  <2>5. \E i, j \in S : i # j /\ f[i] = f[j]
    <3>1. Cardinality(DOMAIN edges) < Cardinality(S)
      BY <1>7, <2>1, <2>3
    <3>2. QED
      BY <1>2, <2>3, <2>4, <3>1, FS_PigeonHole
  <2>6. PICK i, j \in S : i < j /\ f[i] = f[j]
    BY <1>7, <2>2, <2>5
  <2>7. PICK d \in Nat : j + d = n /\ i + d \in Nat /\ i + d < n
    <3>1. n - j \in Nat /\ j + (n - j) = n /\ i + (n - j) \in Nat /\ i + (n - j) < n
      BY <1>7, <2>2, <2>6
    <3>2. QED
      BY <3>1
  <2>8. node[i] = node[j] /\ i \in Nat /\ j \in Nat
    BY <2>2, <2>6
  <2>9. node[i + d] = node[j + d]
    BY <2>8, WalkRepeats
  <2>10. node[i + d] = node[n]
    BY <2>7, <2>9
  <2>11. QED
    BY <1>7, <2>7, <2>10
<1>9. \A m \in 0 .. n : node[m] \in DOMAIN values
  <2> TAKE m \in 0 .. n
  <2>1. CASE m = 0
    BY <1>4, <2>1
  <2>2. CASE m # 0
    <3>1. m - 1 \in Nat /\ m - 1 < n /\ m - 1 + 1 = m
      BY <1>7, <2>2
    <3>2. node[m - 1] \in DOMAIN edges /\ node[m] = Successor(edges, node[m - 1])
      BY <1>4, <1>7, <3>1
    <3>3. QED
      BY <1>3, <3>2 DEF Successor
  <2>3. QED
    BY <2>1, <2>2
<1>10. n \in 0 .. Cardinality(DOMAIN values)
  <2>1. Cardinality(DOMAIN edges) \in Nat /\ Cardinality(DOMAIN values) \in Nat
    BY <1>2, FS_CardinalityType
  <2>2. QED
    BY <1>2, <1>7, <1>8, <2>1
<1>11. node[n] \in DOMAIN values \ DOMAIN edges
  <2>1. n \in 0 .. n
    BY <1>7
  <2>2. QED
    BY <1>7, <1>9, <2>1
<1>12. \E k \in 0 .. Cardinality(DOMAIN values) :
          /\ node[k] \in DOMAIN values \ DOMAIN edges
          /\ \A m \in 0 .. k : node[m] \in DOMAIN values
  BY <1>9, <1>10, <1>11
<1>13. QED
  BY <1>12, Zenon DEF ConfigResolves, edges
-----------------------------------------------------------------------------
\* The stored kind is one that an administrator wrote.
LEMMA StoredKindWritten == Spec => [](kind # NoKind => kind \in Kinds)
<1> DEFINE Written == kind # NoKind => kind \in Kinds
<1>1. Init => Written
  BY DEF Init
<1>2. Written /\ [Next]_vars => Written'
  BY DEF Next, vars, CreateKind, UpdateKind, DeleteKind, PublishUse, RelabelNamespace, Observe,
     ObserveKind, CreateWorkspace, UpdateWorkspace, ApplyWorkspace, StoreWorkspace, DeleteWorkspace
<1>3. QED
  BY <1>1, <1>2, PTL DEF Spec

\* Every option of the stored WorkspaceKind leads along its redirects to one
\* that exists, Kubernetes objects can be generated for every selection, and
\* its pause rule can be evaluated, however the kind came about.
THEOREM StoredKindIsUsable == Spec => []StoredKindUsable
<1>1. (kind # NoKind => kind \in Kinds) /\ StoredKindValid => StoredKindUsable
  <2> SUFFICES ASSUME kind \in Kinds, ValidateCreate(kind)
               PROVE  /\ \A i \in DOMAIN kind.images : ConfigResolves(kind.images, i)
                      /\ \A p \in DOMAIN kind.pods : ConfigResolves(kind.pods, p)
                      /\ \A i \in DOMAIN kind.images, p \in DOMAIN kind.pods : Generates(kind, i, p)
                      /\ \A p \in DOMAIN kind.pods :
                            ~PauseRuleFails(kind.activityRules, labels, kind.pods[p].labels)
    BY DEF StoredKindValid, StoredKindUsable
  <2>1. IsFiniteSet(DOMAIN kind.images) /\ IsFiniteSet(DOMAIN kind.pods)
    BY FiniteAssumption
  <2>2. /\ \A i \in DOMAIN kind.images : ConfigResolves(kind.images, i)
        /\ \A p \in DOMAIN kind.pods : ConfigResolves(kind.pods, p)
    BY <2>1, ValidRedirectsResolve DEF ValidateCreate
  <2>3. ASSUME NEW i \in DOMAIN kind.images, NEW p \in DOMAIN kind.pods
        PROVE  Generates(kind, i, p)
    BY DEF ValidateCreate, Generates, validateImageConfigValue, validatePodConfigValue,
       validateRequestHeaders
  <2>4. ASSUME NEW p \in DOMAIN kind.pods
        PROVE  ~PauseRuleFails(kind.activityRules, labels, kind.pods[p].labels)
    <3>1. \A i \in DOMAIN kind.activityRules : \A c \in kind.activityRules[i].match : c.compiles
      BY DEF ValidateCreate, validateActivityRules
    <3>2. QED
      BY <3>1 DEF PauseRuleFails
  <2>5. QED
    BY <2>2, <2>3, <2>4
<1>2. QED
  BY <1>1, StoredKindWritten, StoredKindStaysValid, PTL

\* Unless a write was admitted on outdated knowledge of the other object, the
\* options of the stored Workspace are options of the stored kind: the checks
\* of two webhooks, each of its own object, and the published use add up.
UsedOptionsStay ==
    workspace # NoWorkspace /\ ~raced =>
        kind # NoKind /\ workspace.image \in DOMAIN kind.images /\ workspace.pod \in DOMAIN kind.pods

\* ValidateUpdate does not let go of an option that the cache shows in use.
LEMMA UsedValuesStay ==
    ASSUME NEW old, NEW new, NEW inUse, NEW id \in inUse, id \in DOMAIN old,
           UsedValuesKept(old, new, inUse)
    PROVE  id \in DOMAIN new
  BY DEF UsedValuesKept, Removed

LEMMA UsedOptionsStayInvariant == Spec => []UsedOptionsStay
<1>1. Init => UsedOptionsStay
  BY DEF Init, UsedOptionsStay
<1>2. UsedOptionsStay /\ [Next]_vars => UsedOptionsStay'
  <2> SUFFICES ASSUME UsedOptionsStay, [Next]_vars, workspace' # NoWorkspace, ~raced'
               PROVE  /\ kind' # NoKind
                      /\ workspace'.image \in DOMAIN kind'.images
                      /\ workspace'.pod \in DOMAIN kind'.pods
    BY DEF UsedOptionsStay
  <2>1. ASSUME NEW new \in Kinds, CreateKind(new)
        PROVE  FALSE
    BY <2>1 DEF CreateKind, UsedOptionsStay
  <2>2. ASSUME NEW new \in Kinds, UpdateKind(new)
        PROVE  /\ kind' # NoKind
               /\ workspace'.image \in DOMAIN kind'.images
               /\ workspace'.pod \in DOMAIN kind'.pods
    <3>1. /\ workspace' = workspace /\ seen = workspace /\ kind' = new /\ new # NoKind
          /\ workspace.image \in DOMAIN kind.images /\ workspace.pod \in DOMAIN kind.pods
      BY <2>2, AbsentAssumption DEF UpdateKind, UsedOptionsStay
    <3>2. workspace.image \in UsedImages /\ workspace.pod \in UsedPods
      BY <3>1 DEF UsedImages, UsedPods
    <3>3. /\ UsedValuesKept(kind.images, new.images, UsedImages)
          /\ UsedValuesKept(kind.pods, new.pods, UsedPods)
      BY <2>2 DEF UpdateKind, ValidateUpdate
    <3>4. workspace.image \in DOMAIN new.images /\ workspace.pod \in DOMAIN new.pods
      BY <3>1, <3>2, <3>3, UsedValuesStay
    <3>5. QED
      BY <3>1, <3>4
  <2>3. ASSUME NEW s \in Selections,
               CreateWorkspace(s) \/ UpdateWorkspace(s) \/ ApplyWorkspace(s)
        PROVE  /\ kind' # NoKind
               /\ workspace'.image \in DOMAIN kind'.images
               /\ workspace'.pod \in DOMAIN kind'.pods
    <3>1. /\ workspace' = s /\ kind' = kind /\ ~raced
          /\ s = workspace \/ known = OptionIds(kind)
      BY <2>3 DEF CreateWorkspace, UpdateWorkspace, ApplyWorkspace, StoreWorkspace
    <3>2. \/ webhookAcceptsCreate(s)
          \/ workspace # NoWorkspace /\ webhookAcceptsUpdate(s)
      BY <2>3 DEF CreateWorkspace, UpdateWorkspace, ApplyWorkspace
    <3>3. CASE s = workspace
      BY <3>1, <3>3 DEF UsedOptionsStay
    <3>4. CASE known = OptionIds(kind)
      <4>1. \A id : id \in known.images => kind # NoKind /\ id \in DOMAIN kind.images
        BY <3>4 DEF OptionIds
      <4>2. \A id : id \in known.pods => kind # NoKind /\ id \in DOMAIN kind.pods
        BY <3>4 DEF OptionIds
      <4>3. kind # NoKind /\ s.image \in DOMAIN kind.images /\ s.pod \in DOMAIN kind.pods
        BY <3>1, <3>2, <4>1, <4>2 DEF webhookAcceptsCreate, webhookAcceptsUpdate, UsedOptionsStay
      <4>4. QED
        BY <3>1, <4>3
    <3>5. QED
      BY <3>1, <3>3, <3>4
  <2>4. CASE DeleteWorkspace
    BY <2>4 DEF DeleteWorkspace
  \* The published use includes the Workspace, and forbids the deletion.
  <2>5. ASSUME DeleteKind
        PROVE  FALSE
    <3>1. workspace # NoWorkspace /\ ~used /\ used = (workspace # NoWorkspace)
      BY <2>5 DEF DeleteKind
    <3>2. QED
      BY <3>1
  <2>6. CASE UNCHANGED <<kind, workspace, raced>>
    BY <2>6 DEF UsedOptionsStay
  <2>7. QED
    BY <2>1, <2>2, <2>3, <2>4, <2>5, <2>6
    DEF Next, vars, PublishUse, RelabelNamespace, Observe, ObserveKind
<1>3. QED
  BY <1>1, <1>2, PTL DEF Spec

\* Unless a write was admitted on outdated knowledge of the other object - a
\* kind updated on an older Workspace, deleted while the published use did not
\* include the Workspace, or a Workspace selecting options of an older kind -
\* the stored Workspace has a kind and its options resolve in it.
THEOREM UsedOptionsKeepResolving == Spec => []UsedOptionsResolve
<1>1. /\ kind # NoKind => kind \in Kinds
      /\ StoredKindValid
      /\ UsedOptionsStay
      => UsedOptionsResolve
  <2> SUFFICES ASSUME kind # NoKind, kind \in Kinds, ValidateCreate(kind),
                      workspace.image \in DOMAIN kind.images, workspace.pod \in DOMAIN kind.pods
               PROVE  /\ ConfigResolves(kind.images, workspace.image)
                      /\ ConfigResolves(kind.pods, workspace.pod)
    BY DEF StoredKindValid, UsedOptionsStay, UsedOptionsResolve
  <2>1. IsFiniteSet(DOMAIN kind.images) /\ IsFiniteSet(DOMAIN kind.pods)
    BY FiniteAssumption
  <2>2. QED
    BY <2>1, ValidRedirectsResolve DEF ValidateCreate
<1>2. QED
  BY <1>1, StoredKindWritten, StoredKindStaysValid, UsedOptionsStayInvariant, PTL
-----------------------------------------------------------------------------
\* The list of option values, asked with one option of each kind, evaluates the
\* rules in the context in which creating a Workspace enforces them.
LEMMA SameContext ==
    ASSUME NEW k, NEW namespace, NEW i \in DOMAIN k.images, NEW p \in DOMAIN k.pods
    PROVE  BuildEvalContextForImageAndPodCfg(k, namespace, i, p)
             = EvalContext(namespace, {k.images[x].labels : x \in {i}}, {k.pods[x].labels : x \in {p}})
<1>1. {i} \cap DOMAIN k.images = {i} /\ {p} \cap DOMAIN k.pods = {p}
  OBVIOUS
<1>2. QED
  BY <1>1, Zenon DEF BuildEvalContextForImageAndPodCfg

\* An option that is asked for by name is listed without a restriction exactly
\* if its rule neither hides nor denies it.
LEMMA ShownUnrestricted ==
    ASSUME NEW values, NEW v \in DOMAIN values, NEW rules, NEW scope, NEW ctx
    PROVE  LET shown == buildValues(values, {v}, rules, scope, ctx)
               result == Evaluate(rules, scope, values[v].labels, ctx)
           IN v \in DOMAIN shown /\ ~shown[v] <=> ~result.apiHide /\ ~result.deny
  BY DEF buildValues

\* What the read endpoints offer to a user is what creating a Workspace then
\* accepts, and nothing else.
THEOREM OfferedOptionsAreAccepted == Spec => []OfferedIsAccepted
<1>1. OfferedIsAccepted
  <2> SUFFICES ASSUME NEW i \in DOMAIN kind.images, NEW p \in DOMAIN kind.pods
               PROVE  LET s == [image |-> i, pod |-> p]
                      IN Offered(s) <=> createAllowed(kind, s)
    BY DEF OfferedIsAccepted
  <2> DEFINE s == [image |-> i, pod |-> p]
             ctx == EvalContext({labels}, {kind.images[x].labels : x \in {i}},
                                {kind.pods[x].labels : x \in {p}})
             image == Evaluate(kind.filterRules, "image", kind.images[i].labels, ctx)
             pod == Evaluate(kind.filterRules, "pod", kind.pods[p].labels, ctx)
             shownImages == buildValues(kind.images, {i}, kind.filterRules, "image", ctx)
             shownPods == buildValues(kind.pods, {p}, kind.filterRules, "pod", ctx)
  <2>1. s.image = i /\ s.pod = p
    OBVIOUS
  <2>2. BuildEvalContextForImageAndPodCfg(kind, {labels}, i, p) = ctx
    BY SameContext
  <2> HIDE DEF ctx, s
  <2>3. createAllowed(kind, s) <=>
          /\ enforceWorkspaceKindFilterRules(kind, {labels})
          /\ ~image.apiHide /\ ~image.deny
          /\ ~pod.apiHide /\ ~pod.deny
    BY <2>1, <2>2 DEF createAllowed, enforceImageConfigFilterRule, enforcePodConfigFilterRule
  <2>4. ListPodTemplateOptionsValues(kind, {labels}, {i}, {p})
          = [images |-> shownImages, pods |-> shownPods]
    BY DEF ListPodTemplateOptionsValues, ctx
  <2>5. /\ i \in DOMAIN shownImages /\ ~shownImages[i] <=> ~image.apiHide /\ ~image.deny
        /\ p \in DOMAIN shownPods /\ ~shownPods[p] <=> ~pod.apiHide /\ ~pod.deny
    BY ShownUnrestricted
  <2> HIDE DEF image, pod, shownImages, shownPods
  <2>6. Offered(s) <=>
          /\ ListedKind(kind, {labels}) /\ ~DeniedKind(kind, {labels})
          /\ i \in DOMAIN shownImages /\ ~shownImages[i]
          /\ p \in DOMAIN shownPods /\ ~shownPods[p]
    BY <2>1, <2>4 DEF Offered
  <2>7. enforceWorkspaceKindFilterRules(kind, {labels})
          <=> ListedKind(kind, {labels}) /\ ~DeniedKind(kind, {labels})
    BY DEF enforceWorkspaceKindFilterRules, ListedKind, DeniedKind
  <2>8. QED
    BY <2>3, <2>5, <2>6, <2>7 DEF s
<1>2. QED
  BY <1>1, PTL
=============================================================================
