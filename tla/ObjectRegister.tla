--------------------------- MODULE ObjectRegister ---------------------------
(***************************************************************************)
(* What the backend promises the callers of its REST API about one object  *)
(* (a Workspace, WorkspaceKind, Secret or PersistentVolumeClaim), whatever *)
(* the cache it reads from and the calls it makes on the way: a request    *)
(* takes effect at one moment or not at all.  An update of a Workspace or  *)
(* a WorkspaceKind that is accepted replaces the very revision its caller  *)
(* named, an update of a Secret is accepted only while the Secret may be   *)
(* updated and keeps the values it does not name as they are AT THAT       *)
(* moment, and a Workspace is started only when it is paused and stopped.  *)
(* A request may be refused at any time; others may change the object.     *)
(***************************************************************************)
EXTENDS Naturals

CONSTANTS Clients

VARIABLES reg,    \* the object: [res, uid, gen, val, stopped, label], uid 0 when there is none
          calls   \* per client, the last request [op, rev, val] and its answer [ans]

regVars == <<reg, calls>>

Resources == {"workspace", "kind", "secret", "pvc"}
Revisioned == {"workspace", "kind"}

\* The value of an object: 0, 1, or none; a Workspace is paused when it is 1.
NoValue == 2
Values == {0, 1, NoValue}

\* In an update of a Secret: the key without a value.
Keep == 3

Contents == [res : Resources, uid : Nat, gen : Nat, val : Values, stopped : BOOLEAN,
             label : BOOLEAN]

\* CalculateRevision(): the UID and the generation.
Revision(o) == <<o.uid, o.gen>>

Calls == [op : {"none", "create", "update", "delete", "pause", "start"}, rev : Nat \X Nat,
          val : Values \cup {Keep}, ans : {"none", "pending", "ok", "refused"}]

NoCall == [op |-> "none", rev |-> <<0, 0>>, val |-> 0, ans |-> "none"]

\* The object with another specification: a new generation when it differs.
WithValue(o, v) == [o EXCEPT !.val = v, !.gen = IF v = o.val THEN @ ELSE @ + 1]

\* What an accepted request does to the object.
Accepted(o, call, new) ==
    \/ /\ call.op = "create" /\ o.uid = 0
       /\ new.uid > 0 /\ new.res = o.res /\ new.val = call.val /\ new.label
    \/ /\ call.op = "update" /\ o.uid # 0
       /\ o.res \in Revisioned => call.rev = Revision(o)
       /\ o.res = "secret" => o.label
       /\ new = WithValue(o, IF call.val = Keep THEN o.val ELSE call.val)
    \/ /\ call.op = "delete" /\ o.uid # 0
       /\ new = [o EXCEPT !.uid = 0]
    \/ /\ call.op = "pause" /\ o.uid # 0 /\ o.val = 0
       /\ new = WithValue(o, 1)
    \/ /\ call.op = "start" /\ o.uid # 0 /\ o.val = 1 /\ o.stopped
       /\ new = WithValue(o, 0)

-----------------------------------------------------------------------------

RegInit ==
    /\ reg \in Contents
    /\ calls = [c \in Clients |-> NoCall]

Ask(c) ==
    /\ calls[c].ans # "pending"
    /\ calls' = [calls EXCEPT ![c] = calls'[c]]
    /\ calls'[c] \in Calls /\ calls'[c].ans = "pending"
    /\ UNCHANGED reg

Accept(c) ==
    /\ calls[c].ans = "pending"
    /\ reg' \in Contents /\ Accepted(reg, calls[c], reg')
    /\ calls' = [calls EXCEPT ![c].ans = "ok"]

Refuse(c) ==
    /\ calls[c].ans = "pending"
    /\ calls' = [calls EXCEPT ![c].ans = "refused"]
    /\ UNCHANGED reg

\* Controllers, administrators and other API clients.
Others ==
    /\ reg' \in Contents /\ reg'.res = reg.res
    /\ UNCHANGED calls

RegNext == Others \/ \E c \in Clients : Ask(c) \/ Accept(c) \/ Refuse(c)

RegSpec == RegInit /\ [][RegNext]_regVars
=============================================================================
