---------------------------- MODULE BackendStore ----------------------------
(***************************************************************************)
(* The backend's repositories of Workspaces, WorkspaceKinds, Secrets and   *)
(* PersistentVolumeClaims, for one object and several callers at once.     *)
(*                                                                         *)
(* A request is a few calls of the API server with checks between them;    *)
(* the checks look at the object as it was READ, for everything but        *)
(* Secrets in a cache that may be late, and other requests, controllers    *)
(* and administrators change the object in between.  An answer can be      *)
(* lost, and the caller then asks again with what it knew before.          *)
(***************************************************************************)
EXTENDS Informer, FiniteSets

CONSTANTS Clients,
          Stored0,      \* which resources to look at
          MaxVersions,  \* bound: versions of the object
          MaxRequests,  \* bound: requests
          MaxLag        \* bound: watch events under way

Resources == {"workspace", "kind", "secret", "pvc"}
Revisioned == {"workspace", "kind"}
NoValue == 2
Keep == 3
Values == {0, 1, NoValue}

ASSUME BoundsAssumption ==
    /\ Stored0 \subseteq Resources
    /\ MaxVersions \in Nat /\ MaxRequests \in Nat /\ MaxLag \in Nat

VARIABLES obj,    \* versions of the object, with rv its metadata.resourceVersion
          known,  \* per client, the revision its last answer gave it
          req,    \* per client, the request: [op, rev, val]
          at,     \* per client, where its handling is
          copy,   \* per client, the object as the handler read it
          ans,    \* per client, the answer: "none", "pending" or the HTTP status, where
                  \* "error" stands for 422 and 500
          asked   \* how many requests there have been

vars == <<obj, known, req, at, copy, ans, asked>>

Object == [res : Resources, uid : Nat, gen : Nat, val : Values, stopped : BOOLEAN,
           label : BOOLEAN, rv : Nat]

Ops == {"none", "create", "update", "delete", "pause", "start"}
Stages == {"idle", "read", "check", "write"}
Answers == {"none", "pending", "200", "403", "404", "409", "error"}

TypeOK ==
    /\ obj \in Versions(Object)
    /\ known \in [Clients -> Nat \X Nat]
    /\ req \in [Clients -> [op : Ops, rev : Nat \X Nat, val : Values \cup {Keep}]]
    /\ at \in [Clients -> Stages]
    /\ copy \in [Clients -> Object]
    /\ ans \in [Clients -> Answers]
    /\ asked \in Nat

\* CalculateRevision(): hex(sha256("<UID>:<NAME>:<GENERATION>")).
CalculateRevision(o) == <<o.uid, o.gen>>

Fresh(r) == [res |-> r, uid |-> 1, gen |-> 1, val |-> 0, stopped |-> FALSE, label |-> TRUE,
             rv |-> 1]

Init ==
    /\ obj \in {<<Fresh(r)>> : r \in Stored0}
    /\ known = [c \in Clients |-> <<0, 0>>]
    /\ req = [c \in Clients |-> [op |-> "none", rev |-> <<0, 0>>, val |-> 0]]
    /\ at = [c \in Clients |-> "idle"]
    /\ copy = [c \in Clients |-> Fresh(Stored(obj).res)]
    /\ ans = [c \in Clients |-> "none"]
    /\ asked = 0

-----------------------------------------------------------------------------
(* The API server.                                                         *)

Res == Stored(obj).res

\* Secrets are read from the API server (DisableFor in the client's cache options), all else
\* from the cache.
Get == IF Res = "secret" THEN Stored(obj) ELSE Cached(obj)

\* A write: the next resourceVersion.
Room == Len(obj) <= MaxLag /\ Stored(obj).rv < MaxVersions
Write(o) == obj' = Put(obj, [o EXCEPT !.rv = Stored(obj).rv + 1])

\* The API server counts metadata.generation when the spec changes.
WithValue(o, v) == [o EXCEPT !.val = v, !.gen = IF v = o.val THEN @ ELSE @ + 1]

Reply(c, status) ==
    /\ ans' = [ans EXCEPT ![c] = status]
    /\ at' = [at EXCEPT ![c] = "idle"]
    /\ copy' = [copy EXCEPT ![c] = Fresh(Res)]

Refuse(c, status) == Reply(c, status) /\ UNCHANGED <<obj, known>>

\* The answer carries the new revision, and can be lost.
Succeed(c, o) ==
    /\ Write(o)
    /\ Reply(c, "200")
    /\ known' \in {known, [known EXCEPT ![c] = CalculateRevision(o)]}

Goto(c, stage) ==
    /\ at' = [at EXCEPT ![c] = stage]
    /\ UNCHANGED <<obj, known, copy, ans>>

-----------------------------------------------------------------------------
(* Callers.                                                                *)

OpsOf(r) == CASE r = "workspace" -> {"create", "update", "delete", "pause", "start"}
              [] r = "kind"      -> {"create", "update", "delete"}
              [] r = "secret"    -> {"create", "update", "delete"}
              [] r = "pvc"       -> {"create", "delete"}

\* An update of a Secret can name a key without a value, or leave it out.
ValuesOf(r, op) == IF r = "secret" /\ op = "update" THEN Values \cup {Keep} ELSE {0, 1}

\* Where the handling of a request begins: deletions of Workspaces and WorkspaceKinds,
\* pausing and starting are single calls.
FirstStage(r, op) ==
    CASE op = "create" -> "check"
      [] op = "update" -> "read"
      [] op = "delete" /\ r \in {"secret", "pvc"} -> "read"
      [] OTHER -> "write"

Submit(c) ==
    /\ ans[c] # "pending" /\ asked < MaxRequests
    /\ \E op \in OpsOf(Res) : \E v \in ValuesOf(Res, op) :
         /\ req' = [req EXCEPT ![c] = [op |-> op, rev |-> known[c], val |-> v]]
         /\ at' = [at EXCEPT ![c] = FirstStage(Res, op)]
    /\ ans' = [ans EXCEPT ![c] = "pending"]
    /\ asked' = asked + 1
    /\ UNCHANGED <<obj, known, copy>>

\* GetWorkspace(), GetWorkspaceKind(): the revision of the cached object.
GetRevision(c) ==
    /\ ans[c] # "pending" /\ asked < MaxRequests
    /\ Res \in Revisioned /\ Cached(obj).uid # 0
    /\ known[c] # CalculateRevision(Cached(obj))
    /\ known' = [known EXCEPT ![c] = CalculateRevision(Cached(obj))]
    /\ UNCHANGED <<obj, req, at, copy, ans, asked>>

-----------------------------------------------------------------------------
(* The repositories.                                                       *)

\* CreateWorkspace() looks at the kind, the namespace, the filter rules and the volumes
\* (WorkspaceOptions models what they say); CreatePVC() at the storage class.
CheckCreate(c) ==
    /\ at[c] = "check" /\ req[c].op = "create"
    /\ \/ Goto(c, "write")
       \/ Res = "workspace" /\ \E status \in {"403", "error"} : Refuse(c, status)
       \/ Res = "pvc" /\ Refuse(c, "error")
    /\ UNCHANGED <<req, asked>>

\* Create(): the name is taken, the object is invalid, or it is stored; what the backend
\* creates is labelled can-update.
Create(c) ==
    /\ at[c] = "write" /\ req[c].op = "create"
    /\ \/ Stored(obj).uid # 0 /\ Refuse(c, "409")
       \/ Refuse(c, "error")
       \/ /\ Stored(obj).uid = 0 /\ Room
          /\ Succeed(c, [Stored(obj) EXCEPT !.uid = Stored(obj).rv + 1, !.gen = 1,
                                            !.val = req[c].val, !.stopped = FALSE,
                                            !.label = TRUE])
    /\ UNCHANGED <<req, asked>>

\* UpdateWorkspace(), UpdateWorkspaceKind(): the object that was read has the revision the
\* caller named; UpdateSecret(): it is labelled can-update.
ReadForUpdate(c) ==
    /\ at[c] = "read" /\ req[c].op = "update"
    /\ \/ Get.uid = 0 /\ Refuse(c, "404")
       \/ Refuse(c, "error")
       \/ /\ Get.uid # 0 /\ Res \in Revisioned /\ CalculateRevision(Get) # req[c].rev
          /\ Refuse(c, "409")
       \/ /\ Get.uid # 0 /\ Res = "secret" /\ ~Get.label
          /\ Refuse(c, "403")
       \/ /\ Get.uid # 0
          /\ Res \in Revisioned => CalculateRevision(Get) = req[c].rev
          /\ Res = "secret" => Get.label
          /\ copy' = [copy EXCEPT ![c] = Get]
          /\ at' = [at EXCEPT ![c] = IF Res = "workspace" THEN "check" ELSE "write"]
          /\ UNCHANGED <<obj, known, ans>>
    /\ UNCHANGED <<req, asked>>

\* UpdateWorkspace() goes on to the kind, the namespace, the filter rules of the options that
\* change and the volumes.
CheckUpdate(c) ==
    /\ at[c] = "check" /\ req[c].op = "update"
    /\ Goto(c, "write") \/ \E status \in {"403", "error"} : Refuse(c, status)
    /\ UNCHANGED <<req, asked>>

\* MUTANT of Applied: a key without a value is stored as it was sent.
AppliedAsSent(o, v) == WithValue(o, v)

\* ApplySecretUpdateModelToSecret() keeps the value of a key that is sent without one; the
\* others replace the specification.
Applied(o, v) == WithValue(o, IF v = Keep THEN o.val ELSE v)

\* MUTANT of UpdateObject: the update does not carry the resourceVersion that was read.
UpdateWithoutVersion(c) ==
    \/ Stored(obj).uid = 0 /\ Refuse(c, "404")
    \/ Stored(obj).uid # 0 /\ Room /\ Succeed(c, Applied(copy[c], req[c].val))

\* Update() of the object that was read: gone, replaced by a newer version (a conflict, which
\* the repositories do not tell from other errors), refused by validation, or stored.
UpdateObject(c) ==
    \/ Stored(obj).uid = 0 /\ Refuse(c, "404")
    \/ Stored(obj).rv # copy[c].rv /\ Refuse(c, "error")
    \/ Refuse(c, "error")
    \/ /\ Stored(obj).uid # 0 /\ Stored(obj).rv = copy[c].rv /\ Room
       /\ Succeed(c, Applied(copy[c], req[c].val))

Update(c) ==
    /\ at[c] = "write" /\ req[c].op = "update"
    /\ UpdateObject(c)
    /\ UNCHANGED <<req, asked>>

\* DeleteSecret(), DeletePVC(): the object that was read is labelled can-update.
ReadForDelete(c) ==
    /\ at[c] = "read" /\ req[c].op = "delete"
    /\ \/ Get.uid = 0 /\ Refuse(c, "404")
       \/ Refuse(c, "error")
       \/ Get.uid # 0 /\ ~Get.label /\ Refuse(c, "403")
       \/ Get.uid # 0 /\ Get.label /\ Goto(c, "write")
    /\ UNCHANGED <<req, asked>>

\* Delete() by name, without preconditions.
Delete(c) ==
    /\ at[c] = "write" /\ req[c].op = "delete"
    /\ \/ Stored(obj).uid = 0 /\ Refuse(c, "404")
       \/ \E status \in {"409", "error"} : Refuse(c, status)
       \/ /\ Stored(obj).uid # 0 /\ Room
          /\ Write([Stored(obj) EXCEPT !.uid = 0])
          /\ Reply(c, "200") /\ UNCHANGED known
    /\ UNCHANGED <<req, asked>>

\* HandlePauseAction(): a JSON patch whose tests the API server makes on what it stores.
HandlePauseAction(c) ==
    /\ at[c] = "write" /\ req[c].op \in {"pause", "start"}
    /\ LET o        == Stored(obj)
           target   == IF req[c].op = "pause" THEN 1 ELSE 0
           testsMet == o.val = 1 - target /\ (req[c].op = "start" => o.stopped)
       IN  \/ o.uid = 0 /\ Refuse(c, "404")
           \/ o.uid # 0 /\ ~testsMet /\ Refuse(c, "409")
           \/ Refuse(c, "error")
           \/ /\ o.uid # 0 /\ testsMet /\ Room
              /\ Write(WithValue(o, target))
              /\ Reply(c, "200") /\ UNCHANGED known
    /\ UNCHANGED <<req, asked>>

-----------------------------------------------------------------------------
(* The environment.                                                        *)

Deliver ==
    /\ Behind(obj)
    /\ obj' = Tail(obj)
    /\ UNCHANGED <<known, req, at, copy, ans, asked>>

\* The controller writes the status, an administrator a label or the specification, and the
\* object is deleted with kubectl.
Others ==
    /\ Room /\ Stored(obj).uid # 0
    /\ LET o == Stored(obj)
       IN  \/ Res = "workspace" /\ Write([o EXCEPT !.stopped = ~@])
           \/ Res \in {"secret", "pvc"} /\ Write([o EXCEPT !.label = ~@])
           \/ Write(WithValue(o, 1))
           \/ Write([o EXCEPT !.uid = 0])
    /\ UNCHANGED <<known, req, at, copy, ans, asked>>

Next ==
    \/ \E c \in Clients :
         \/ Submit(c) \/ GetRevision(c)
         \/ CheckCreate(c) \/ Create(c)
         \/ ReadForUpdate(c) \/ CheckUpdate(c) \/ Update(c)
         \/ ReadForDelete(c) \/ Delete(c)
         \/ HandlePauseAction(c)
    \/ Deliver
    \/ Others

Spec == Init /\ [][Next]_vars

-----------------------------------------------------------------------------
(* Properties.                                                             *)

AnswerOf(status) ==
    CASE status \in {"none", "pending"} -> status
      [] status = "200"                 -> "ok"
      [] OTHER                          -> "refused"

\* What the callers can tell apart: the stored object and the answers.
Register == INSTANCE ObjectRegister WITH
    reg   <- [res |-> Stored(obj).res, uid |-> Stored(obj).uid, gen |-> Stored(obj).gen,
              val |-> Stored(obj).val, stopped |-> Stored(obj).stopped,
              label |-> Stored(obj).label],
    calls <- [c \in Clients |-> [op |-> req[c].op, rev |-> req[c].rev, val |-> req[c].val,
                                 ans |-> AnswerOf(ans[c])]]

\* The repositories implement the register: however requests, late caches and lost answers
\* interleave, an accepted update replaced the revision its caller named, and no accepted
\* write is lost.
ImplementsRegister == Register!RegSpec
=============================================================================
