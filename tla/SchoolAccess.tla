---------------------------- MODULE SchoolAccess ----------------------------
(***************************************************************************)
(* Who belongs to which school and with which role: registration, and the  *)
(* three handlers of users.py that grant, change and revoke a membership   *)
(* under the rules of school_access.py.                                    *)
(*                                                                         *)
(* None of the three locks a row.  Each reads the caller's account, the    *)
(* caller's membership and the target's membership in statements of their  *)
(* own and writes at its commit, by the primary key of the row it loaded.  *)
(* Who is a platform administrator changes meanwhile (AdminGuard).         *)
(*                                                                         *)
(* Abstracted: the legacy role "admin" counts as "school_admin"; schools   *)
(* stay active.                                                            *)
(***************************************************************************)
EXTENDS AdminGuard

CONSTANTS
    Schools,
    Members,        \* the users whose memberships are managed
    Roles,          \* the roles that requests give, of SchoolRole
    None,
    MaxCalls        \* bound: requests of this module ever begun

VARIABLES
    access,     \* user_school_access: per school and user the row, or None
    asked,      \* school_access_requests.status, or "none" without a row
    rows,       \* the last id of user_school_access
    call,       \* per request what it has loaded, or None
    calls

schoolVars == <<access, asked, rows, call, calls>>

Ordinary == {"teacher", "staff"}
SchoolRole == Ordinary \cup {"school_admin", "card_operator"}
Access == [id : Nat, role : SchoolRole]
Asked == {"none", "pending", "approved"}

\* platform: the caller's authority as loaded; row: the target's membership as
\* loaded; ask: a pending request was found.  The rest is history, of what has been
\* the case at some time since the request began: ruled, the caller administers the
\* school; plain, the ids under which the target is an ordinary member of it; asks,
\* the target has a pending request for it.
Call == [op : {"grant", "change", "revoke"}, pc : {"load", "authorize", "check", "commit"},
         school : Schools, caller : Users, target : Users, role : SchoolRole \cup {None},
         platform : BOOLEAN, row : Access \cup {None}, ask : BOOLEAN,
         ruled : BOOLEAN, plain : SUBSET Nat, asks : BOOLEAN]

ASSUME SchoolAssumption ==
    /\ Members \subseteq Users /\ Roles \subseteq SchoolRole
    /\ None \notin SchoolRole \cup Access \cup Call

CallAt(p, pc) == call[p] # None /\ call[p].pc = pc
CallEnd(p) == call' = [call EXCEPT ![p] = None]

Rules(row) == row # None /\ row.role = "school_admin"
PlainIds(row) == IF row # None /\ row.role \in Ordinary THEN {row.id} ELSE {}

\* The request c is in flight while the two tables have these rows.
Witness(c, accesses, petitions) ==
    [c EXCEPT !.ruled = @ \/ Rules(accesses[c.school][c.caller]),
              !.plain = @ \cup PlainIds(accesses[c.school][c.target]),
              !.asks = @ \/ petitions[c.school][c.target] = "pending"]

\* A commit by p that changes the membership of its target, and perhaps the requests.
Write(p, row, petitions) ==
    LET accesses == [access EXCEPT ![call[p].school][call[p].target] = row] IN
    /\ access' = accesses
    /\ asked' = petitions
    /\ call' = [q \in Requests |-> IF q = p \/ call[q] = None THEN None
                                   ELSE Witness(call[q], accesses, petitions)]

-----------------------------------------------------------------------------
\* register_user: an account without authority and a request for one school.
Register(u, s) ==
    /\ calls < MaxCalls /\ calls' = calls + 1
    /\ ~account[u].exists
    /\ account' = [account EXCEPT ![u] =
           [exists |-> TRUE, active |-> TRUE, role |-> "none", flag |-> FALSE]]
    /\ asked' = [asked EXCEPT ![s][u] = "pending"]
    /\ call' = [p \in Requests |-> IF call[p] = None THEN None
                                   ELSE Witness(call[p], access, asked')]
    /\ UNCHANGED <<access, rows>>

\* get_current_user; changing and revoking look for the target at once.
CallBegin(p, op, c, t, s, role) ==
    /\ call[p] = None
    /\ calls < MaxCalls /\ calls' = calls + 1
    /\ account[c].exists /\ account[c].active
    /\ op # "grant" => account[t].exists /\ account[t].active
    /\ (op = "revoke") <=> (role = None)
    /\ call' = [call EXCEPT ![p] =
           [op |-> op, pc |-> IF op = "grant" THEN "authorize" ELSE "load",
            school |-> s, caller |-> c, target |-> t, role |-> role,
            platform |-> IsAdmin(account[c]), row |-> None, ask |-> FALSE,
            ruled |-> Rules(access[s][c]), plain |-> PlainIds(access[s][t]),
            asks |-> asked[s][t] = "pending"]]
    /\ UNCHANGED <<account, access, asked, rows>>

\* update_school_access, revoke_school_access: the membership, 404 without one.
LoadAccess(p) ==
    LET row == access[call[p].school][call[p].target] IN
    /\ CallAt(p, "load")
    /\ IF row # None THEN call' = [call EXCEPT ![p].pc = "authorize", ![p].row = row]
       ELSE CallEnd(p)
    /\ UNCHANGED <<account, access, asked, rows, calls>>

\* Mutant: the role the target has is not looked at.
MayManage_AnyExisting(platform, mine, old, new) ==
    \/ platform
    \/ mine # None /\ mine.role = "school_admin" /\ new \in Ordinary \cup {None}
\* require_school_role_management.
MayManage(platform, mine, old, new) ==
    \/ platform
    \/ /\ mine # None /\ mine.role = "school_admin"
       /\ old # None => old.role \in Ordinary
       /\ new \in Ordinary \cup {None}

\* The caller's membership; it is not read again if it is the one just loaded.
AuthorizeCall(p) ==
    LET r == call[p]
        mine == IF r.row # None /\ r.caller = r.target THEN r.row
                ELSE access[r.school][r.caller] IN
    /\ CallAt(p, "authorize")
    /\ IF MayManage(r.platform, mine, r.row, r.role)
       THEN call' = [call EXCEPT ![p].pc = IF r.op = "grant" THEN "check" ELSE "commit"]
       ELSE CallEnd(p)
    /\ UNCHANGED <<account, access, asked, rows, calls>>

\* Only a platform administrator adds a user who has not asked.
MayJoin(platform, ask) == platform \/ ask

\* grant_school_access: the user, the request and that there is no membership yet.
GrantCheck(p) ==
    LET r == call[p]
        ask == asked[r.school][r.target] = "pending" IN
    /\ CallAt(p, "check")
    /\ IF /\ account[r.target].exists /\ account[r.target].active
          /\ MayJoin(r.platform, ask)
          /\ access[r.school][r.target] = None
       THEN call' = [call EXCEPT ![p].pc = "commit", ![p].ask = ask]
       ELSE CallEnd(p)
    /\ UNCHANGED <<account, access, asked, rows, calls>>

\* The unique constraint refuses a second membership.
GrantCommit(p) ==
    LET r == call[p] IN
    /\ CallAt(p, "commit") /\ r.op = "grant"
    /\ IF access[r.school][r.target] = None
       THEN /\ Write(p, [id |-> rows + 1, role |-> r.role],
                IF r.ask THEN [asked EXCEPT ![r.school][r.target] = "approved"] ELSE asked)
            /\ rows' = rows + 1
       ELSE CallEnd(p) /\ UNCHANGED <<access, rows, asked>>
    /\ UNCHANGED <<account, calls>>

\* The row that was loaded is still there, whatever its role is now.
StillThere(p) ==
    LET now == access[call[p].school][call[p].target] IN
    now # None /\ now.id = call[p].row.id

\* A role that equals the loaded one is not written; an UPDATE of a row that is
\* gone fails.
ChangeCommit(p) ==
    LET r == call[p] IN
    /\ CallAt(p, "commit") /\ r.op = "change"
    /\ IF r.role # r.row.role /\ StillThere(p)
       THEN Write(p, [id |-> r.row.id, role |-> r.role], asked)
       ELSE CallEnd(p) /\ UNCHANGED <<access, asked>>
    /\ UNCHANGED <<account, rows, calls>>

\* A DELETE of a row that is gone is only warned of.
RevokeCommit(p) ==
    /\ CallAt(p, "commit") /\ call[p].op = "revoke"
    /\ IF StillThere(p) THEN Write(p, None, asked)
       ELSE CallEnd(p) /\ UNCHANGED <<access, asked>>
    /\ UNCHANGED <<account, rows, calls>>

\* The database or the process fails before the commit.
CallAborts(p) ==
    /\ call[p] # None
    /\ CallEnd(p)
    /\ UNCHANGED <<account, access, asked, rows, calls>>

-----------------------------------------------------------------------------
\* Some users are members, some have asked to be.
SchoolInit ==
    /\ access \in [Schools -> [Users -> [id : {0}, role : SchoolRole] \cup {None}]]
    /\ asked \in [Schools -> [Users -> Asked]]
    /\ \A s \in Schools, u \in Users :
        /\ access[s][u] # None => account[u].exists /\ asked[s][u] # "pending"
        /\ asked[s][u] # "none" => account[u].exists
    /\ rows = 0
    /\ call = [p \in Requests |-> None]
    /\ calls \in 0 .. MaxCalls

SchoolNext ==
    \/ \E u \in Users, s \in Schools : Register(u, s)
    \/ \E p \in Requests :
        \/ \E op \in {"grant", "change", "revoke"}, c \in Users, t \in Members,
              s \in Schools, role \in Roles \cup {None} : CallBegin(p, op, c, t, s, role)
        \/ LoadAccess(p) \/ AuthorizeCall(p) \/ GrantCheck(p)
        \/ GrantCommit(p) \/ ChangeCommit(p) \/ RevokeCommit(p) \/ CallAborts(p)

\* Accounts and memberships together.
SchoolSpec ==
    /\ Init /\ SchoolInit
    /\ [][\/ Next /\ UNCHANGED schoolVars
          \/ SchoolNext /\ UNCHANGED <<req, work>>]_<<vars, schoolVars>>

-----------------------------------------------------------------------------
(* Properties.                                                             *)

\* The requests of school administrators that change a membership in this step.
Managing(p) ==
    /\ CallAt(p, "commit") /\ ~call[p].platform
    /\ call'[p] = None /\ access' # access

\* Whoever changes a membership without being a platform administrator has, at some
\* time since his request began, been an administrator of that very school, and what
\* he changes is a row that was then an ordinary membership of it, or the admission
\* of a user who was asking for it; the role he gives is ordinary
\* (school_access.py:205-217, users.py:1063).  So however requests overlap with one
\* another and with changes of who is a platform administrator: a membership that
\* was withdrawn and granted anew is another row, which he does not touch.
ManagedWithinScope ==
    [][\A p \in Requests : Managing(p) =>
        LET s == call[p].school
            t == call[p].target IN
        /\ call[p].ruled
        /\ IF access[s][t] # None THEN access[s][t].id \in call[p].plain ELSE call[p].asks
        /\ access'[s][t] # None => access'[s][t].role \in Ordinary]_<<account, schoolVars>>

\* "School Admins may manage ordinary Teacher/Staff roles only" (README.md:73): the
\* row is ordinary still when it is written.
OrdinaryRolesOnly ==
    [][\A p \in Requests : Managing(p) =>
        LET row == access[call[p].school][call[p].target] IN
        row # None => row.role \in Ordinary]_<<account, schoolVars>>
=============================================================================
