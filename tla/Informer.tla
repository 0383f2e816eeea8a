------------------------------ MODULE Informer ------------------------------
(***************************************************************************)
(* How the controllers see the Kubernetes API server: reads (Get, List) go *)
(* to the manager's shared informer cache, writes go to the API server and *)
(* come back later as watch events, in order and one version at a time.    *)
(*                                                                         *)
(* One watched object (or collection) is a non-empty sequence of versions: *)
(* the head is the version in the cache, the last element is the version   *)
(* the API server stores, and the ones between are watch events that are   *)
(* still under way.  A version that is both is a cache that is up to date. *)
(*                                                                         *)
(* EXTERNAL: controller-runtime's cache and the API server, modelled from  *)
(* how internal/controller uses them.                                      *)
(***************************************************************************)
EXTENDS Naturals, Sequences

\* The sequences of versions of an object of type S.
Versions(S) == {q \in Seq(S) : Len(q) > 0}

\* What a cached read returns.
Cached(q) == q[1]

\* What the API server stores.
Stored(q) == q[Len(q)]

\* A write the API server accepted: a new version, not yet in the cache.
Put(q, version) == Append(q, version)

\* Watch events are under way.
Behind(q) == Len(q) > 1

\* The cache after a restart of the manager, which lists everything afresh.
Relisted(q) == <<Stored(q)>>

\* The cached version is the stored one.  A write based on a cached version is
\* accepted exactly then (optimistic concurrency on metadata.resourceVersion).
Current(q) == Len(q) = 1
=============================================================================
