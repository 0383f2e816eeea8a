--------------------------- MODULE InformerProofs ---------------------------
(***************************************************************************)
(* What the operators of Informer do to a non-empty sequence of versions:  *)
(* facts the proofs about the controllers rest on.                         *)
(***************************************************************************)
EXTENDS Informer, TLAPS

\* What a cached read returns and what is stored are versions.
LEMMA ReadType ==
    ASSUME NEW S, NEW q \in Versions(S)
    PROVE  Cached(q) \in S /\ Stored(q) \in S
  BY DEF Versions, Cached, Stored

\* A write adds one version at the end: the cache and the earlier versions stay.
LEMMA PutFacts ==
    ASSUME NEW S, NEW q \in Versions(S), NEW v \in S
    PROVE  /\ Put(q, v) \in Versions(S)
           /\ Stored(Put(q, v)) = v
           /\ Len(Put(q, v)) = Len(q) + 1
           /\ Put(q, v)[Len(q) + 1] = v
           /\ \A i \in 1 .. Len(q) : Put(q, v)[i] = q[i]
  BY DEF Versions, Put, Stored

\* A watch event moves the cache and nothing else.
LEMMA TailFacts ==
    ASSUME NEW S, NEW q \in Versions(S), Behind(q)
    PROVE  /\ Tail(q) \in Versions(S)
           /\ Stored(Tail(q)) = Stored(q)
           /\ Len(Tail(q)) = Len(q) - 1
           /\ \A i \in 1 .. Len(q) - 1 : Tail(q)[i] = q[i + 1]
  BY DEF Versions, Behind, Stored

\* A restart leaves the stored version alone, in the cache too.
LEMMA RelistedFacts ==
    ASSUME NEW S, NEW q \in Versions(S)
    PROVE  /\ Relisted(q) \in Versions(S)
           /\ Stored(Relisted(q)) = Stored(q)
           /\ Len(Relisted(q)) = 1
           /\ Relisted(q)[1] = Stored(q)
  BY DEF Versions, Relisted, Stored

\* A cache that is up to date shows what is stored.
LEMMA CurrentFacts ==
    ASSUME NEW S, NEW q \in Versions(S), Current(q)
    PROVE  Cached(q) = Stored(q)
  BY DEF Versions, Current, Cached, Stored
=============================================================================
