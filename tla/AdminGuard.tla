----------------------------- MODULE AdminGuard -----------------------------
(***************************************************************************)
(* Who is a platform administrator: update_account and create_account of   *)
(* app/api/users.py, and the rule that the last active administrator stays.*)
(*                                                                         *)
(* update_account locks the rows of the active administrators one after    *)
(* the other, in the order of users.id, then the row of its target.  Each  *)
(* lock is a step; the caller's authority was read before the first one.   *)
(* A definition Name_Variant is Name with one fault.                       *)
(***************************************************************************)
EXTENDS Integers, FiniteSets

CONSTANTS
    Users,      \* users.id of the accounts there may be
    Founders,   \* the administrators at the start
    Requests,   \* requests that may be in flight together
    Patches,    \* the changes they ask for
    MaxWork     \* bound on the requests started

ASSUME UserAssumption == Users \subseteq Nat /\ IsFiniteSet(Users)
ASSUME FounderAssumption == Founders \subseteq Users /\ Founders # {}
ASSUME BoundAssumption == MaxWork \in Nat

\* What a PATCH may ask of is_active and platform_role; "keep": not in it.
Patch == [active : {"keep", "on", "off"}, role : {"keep", "platform_admin", "none"}]

ASSUME PatchAssumption == Patches \subseteq Patch

VARIABLES
    account,    \* users: the columns that decide about administration
    req,        \* the transaction each request is in
    work        \* requests started so far

vars == <<account, req, work>>

Account == [exists : BOOLEAN, active : BOOLEAN, role : {"platform_admin", "none"}, flag : BOOLEAN]

Request == [pc : {"idle", "create", "scan", "lock", "target"},
            caller : Users, target : Users, patch : Patch,
            todo : SUBSET Users,    \* rows of the query still to be locked
            held : SUBSET Users,    \* users rows it has locked
            admins : SUBSET Users]  \* the rows the query returned

Nobody == CHOOSE u \in Users : TRUE

Idle == [pc |-> "idle", caller |-> Nobody, target |-> Nobody,
         patch |-> [active |-> "keep", role |-> "keep"],
         todo |-> {}, held |-> {}, admins |-> {}]

\* is_platform_admin: the role, or the flag of accounts not yet migrated.
IsAdmin(a) == a.role = "platform_admin" \/ a.flag

ActiveAdmin(u) == account[u].active /\ IsAdmin(account[u])

Init ==
    /\ account \in [Users -> Account]
    /\ \A u \in Users :
          LET a == account[u] IN
          /\ a.active \/ IsAdmin(a) => a.exists
          /\ IsAdmin(a) /\ a.active <=> u \in Founders
          /\ a.role = "platform_admin" => a.flag
    /\ req = [p \in Requests |-> Idle]
    /\ work = 0

-----------------------------------------------------------------------------
Free(p, u) == \A q \in Requests : q # p => u \notin req[q].held

Done(p) == req' = [req EXCEPT ![p] = Idle]

\* get_current_user and require_platform_admin, on an unlocked row.
Authorize(p, c, t, patch, pc) ==
    /\ req[p].pc = "idle"
    /\ account[c].exists /\ ActiveAdmin(c)
    /\ work < MaxWork /\ work' = work + 1
    /\ req' = [req EXCEPT ![p] =
          [Idle EXCEPT !.pc = pc, !.caller = c, !.target = t, !.patch = patch]]
    /\ UNCHANGED account

\* create_account: no lock, the caller's authority is as old as the request.
CreateCommit(p) ==
    LET r == req[p] IN
    /\ r.pc = "create"
    /\ ~account[r.target].exists
    /\ account' = [account EXCEPT ![r.target] =
          [exists |-> TRUE, active |-> TRUE,
           role |-> IF r.patch.role = "platform_admin" THEN "platform_admin" ELSE "none",
           flag |-> r.patch.role = "platform_admin"]]
    /\ Done(p)
    /\ UNCHANGED work

\* The unique username: 409.
CreateConflict(p) ==
    /\ req[p].pc = "create"
    /\ account[req[p].target].exists
    /\ Done(p)
    /\ UNCHANGED <<account, work>>

-----------------------------------------------------------------------------
(* update_account                                                          *)

\* SELECT ... ORDER BY id FOR UPDATE: the rows that match in its snapshot.
Scan(p) ==
    /\ req[p].pc = "scan"
    /\ req' = [req EXCEPT ![p].pc = "lock",
                          ![p].todo = {u \in Users : account[u].exists /\ ActiveAdmin(u)}]
    /\ UNCHANGED <<account, work>>

Returned_NotRechecked(S, u) == S \cup {u}

\* A row that no longer matches when its lock is granted is not returned.
Returned(S, u) == IF ActiveAdmin(u) THEN S \cup {u} ELSE S

LockAdmin(p, u) ==
    LET r == req[p] IN
    /\ r.pc = "lock"
    /\ u \in r.todo /\ \A v \in r.todo : u <= v
    /\ Free(p, u)
    /\ req' = [req EXCEPT ![p].todo = @ \ {u}, ![p].held = @ \cup {u},
                          ![p].admins = Returned(@, u)]
    /\ UNCHANGED <<account, work>>

LockTarget(p) ==
    LET r == req[p] IN
    /\ r.pc = "lock" /\ r.todo = {}
    /\ Free(p, r.target)
    /\ account[r.target].exists
    /\ req' = [req EXCEPT ![p].pc = "target", ![p].held = @ \cup {r.target}]
    /\ UNCHANGED <<account, work>>

\* 404
TargetMissing(p) ==
    /\ req[p].pc = "lock" /\ req[p].todo = {}
    /\ ~account[req[p].target].exists
    /\ Done(p)
    /\ UNCHANGED <<account, work>>

LosesAdmin(patch) == patch.active = "off" \/ patch.role = "none"

\* Nobody deactivates himself or changes his own role.
TouchesSelf(patch) == patch.active = "off" \/ patch.role # "keep"

\* The two 409 answers.  The row of a caller who is his own target is the one
\* loaded with the token, which was an active administrator's.
Refused(r) ==
    \/ /\ r.caller = r.target \/ ActiveAdmin(r.target)
       /\ LosesAdmin(r.patch)
       /\ Cardinality(r.admins) <= 1
    \/ r.caller = r.target /\ TouchesSelf(r.patch)

Patched_FlagKept(a, patch) ==
    [a EXCEPT !.active = IF patch.active = "keep" THEN @ ELSE patch.active = "on",
              !.role = IF patch.role = "keep" THEN @ ELSE patch.role]

\* platform_role carries the legacy flag along.
Patched(a, patch) ==
    [a EXCEPT !.active = IF patch.active = "keep" THEN @ ELSE patch.active = "on",
              !.role = IF patch.role = "keep" THEN @ ELSE patch.role,
              !.flag = IF patch.role = "keep" THEN @ ELSE patch.role = "platform_admin"]

UpdateCommit(p) ==
    LET r == req[p] IN
    /\ r.pc = "target"
    /\ ~Refused(r)
    /\ account' = [account EXCEPT ![r.target] = Patched(@, r.patch)]
    /\ Done(p)
    /\ UNCHANGED work

UpdateRefused(p) ==
    /\ req[p].pc = "target"
    /\ Refused(req[p])
    /\ Done(p)
    /\ UNCHANGED <<account, work>>

-----------------------------------------------------------------------------
(* The environment.                                                        *)

\* The process or its connection dies: rolled back.
Abort(p) ==
    /\ req[p].pc # "idle"
    /\ Done(p)
    /\ UNCHANGED <<account, work>>

Wanted(r) ==
    IF r.pc # "lock" THEN {}
    ELSE IF r.todo = {} THEN {r.target} ELSE {u \in r.todo : \A v \in r.todo : u <= v}

WaitsFor(p, q) == p # q /\ Wanted(req[p]) \cap req[q].held # {}

\* p is in a cycle of transactions that wait for one another.
Deadlocked(p) ==
    \E D \in SUBSET Requests :
        /\ p \in D
        /\ \A q \in D : (\E r \in D : WaitsFor(q, r)) /\ (\E r \in D : WaitsFor(r, q))

DeadlockAbort(p) ==
    /\ Deadlocked(p)
    /\ Done(p)
    /\ UNCHANGED <<account, work>>

-----------------------------------------------------------------------------
Advance(p) ==
    \/ CreateCommit(p) \/ CreateConflict(p)
    \/ Scan(p) \/ LockTarget(p) \/ TargetMissing(p)
    \/ \E u \in Users : LockAdmin(p, u)
    \/ UpdateCommit(p) \/ UpdateRefused(p)

Begin(p) ==
    \E c, t \in Users, patch \in Patches :
        \/ Authorize(p, c, t, patch, "scan")
        \/ patch.active # "off" /\ Authorize(p, c, t, patch, "create")

Next == \E p \in Requests : Begin(p) \/ Advance(p) \/ Abort(p) \/ DeadlockAbort(p)

Spec == Init /\ [][Next]_vars
-----------------------------------------------------------------------------
(* Properties.                                                             *)

\* Every variable keeps its type, and an account with the role has the flag.
TypeOK ==
    /\ account \in [Users -> Account]
    /\ req \in [Requests -> Request]
    /\ work \in Nat
    /\ \A u \in Users : account[u].role = "platform_admin" => account[u].flag

\* However administrators demote and deactivate one another at the same time,
\* one active administrator is left.
AnAdminRemains == \E u \in Users : account[u].exists /\ ActiveAdmin(u)
=============================================================================
