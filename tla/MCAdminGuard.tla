---------------------------- MODULE MCAdminGuard ----------------------------
\* Instances for TLC.  A behaviour is about the accounts alone, every state of
\* them at the start, or about the memberships of schools while one request of
\* AdminGuard changes an account.
EXTENDS SchoolAccess, TLC

VARIABLE at

\* Deactivation, demotion, and the promotion that undoes both.
MCPatches ==
    {[active |-> "off", role |-> "keep"], [active |-> "keep", role |-> "none"],
     [active |-> "on", role |-> "platform_admin"]}

\* No memberships.
AccountsInit ==
    /\ at = "accounts"
    /\ Init
    /\ SchoolInit
    /\ \A s \in Schools, u \in Users : access[s][u] = None /\ asked[s][u] = "none"
    /\ calls = MaxCalls

\* Account 1 administers the platform, 2 a school; 3 is a member of it, has asked
\* to be one, or has not registered yet.
SchoolsInit ==
    /\ at = "schools"
    /\ account \in [Users -> {a \in Account : a.exists = a.active /\ a.flag = IsAdmin(a)}]
    /\ \A u \in Users : IsAdmin(account[u]) <=> u = 1
    /\ account[1].exists /\ account[2].exists
    /\ req = [p \in Requests |-> Idle]
    /\ SchoolInit
    /\ \/ work = MaxWork - 1 /\ calls = 1      \* one change of an account
       \/ work = MaxWork /\ calls = 0          \* none, and more requests of members
    /\ \A s \in Schools :
        /\ access[s][1] = None /\ asked[s][1] = "none"
        /\ access[s][2] # None /\ access[s][2].role = "school_admin" /\ asked[s][2] = "none"
        /\ access[s][3] # None => access[s][3].role = "staff"
        /\ asked[s][3] # "approved"

MCInit == AccountsInit \/ SchoolsInit

MCNext ==
    \/ Next /\ UNCHANGED <<schoolVars, at>>
    \/ at = "schools" /\ SchoolNext /\ UNCHANGED <<req, work, at>>

MCSpec == MCInit /\ [][MCNext]_<<vars, schoolVars, at>>

\* Requests are interchangeable; accounts are not, their ids order the locks.
Symmetry == Permutations(Requests)
=============================================================================
