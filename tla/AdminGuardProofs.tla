-------------------------- MODULE AdminGuardProofs --------------------------
(***************************************************************************)
(* Proofs about AdminGuard and SchoolAccess, for any set of accounts,      *)
(* schools and requests: an active administrator of the platform remains,  *)
(* and what a school administrator changes is within his scope.            *)
(*                                                                         *)
(* Two arguments.  A request holds the rows of the administrators that its *)
(* query found, so nobody else can end one of them before it does.  A      *)
(* request for a membership locks nothing: what it has loaded was so at    *)
(* some time since it began (Witnessed), and it writes the row it loaded,  *)
(* which keeps its id.                                                     *)
(***************************************************************************)
EXTENDS SchoolAccess, FiniteSetTheorems, TLAPS

\* FOR UPDATE excludes.
LockInv == \A p, q \in Requests : p # q => req[p].held \cap req[q].held = {}

\* The rows the query returned are locked and still match: nobody else can
\* change them before the request ends.
AdminsInv ==
    \A p \in Requests : \A u \in req[p].admins :
        u \in req[p].held /\ account[u].exists /\ ActiveAdmin(u)

\* A request that writes holds its target, which is there.
TargetInv ==
    \A p \in Requests : req[p].pc = "target" =>
        req[p].target \in req[p].held /\ account[req[p].target].exists

\* An account that is not there is no administrator yet.
ExistsInv == \A u \in Users : ActiveAdmin(u) => account[u].exists

IInv == TypeOK /\ LockInv /\ AdminsInv /\ TargetInv /\ ExistsInv /\ AnAdminRemains

\* The placeholder of a request without an account is one of the accounts.
LEMMA NobodyIsUser == Nobody \in Users
BY FounderAssumption DEF Nobody

\* A request that does nothing has the type of a request.
LEMMA IdleType == Idle \in Request
BY NobodyIsUser DEF Idle, Request, Patch

\* Two rows were returned: one of them is not the target.
LEMMA AnotherAdmin ==
    ASSUME NEW S, IsFiniteSet(S), NEW t, ~(Cardinality(S) <= 1)
    PROVE  \E u \in S : u # t
<1> SUFFICES ASSUME \A u \in S : u = t PROVE FALSE
  OBVIOUS
<1>1. CASE S = {}
  <2>1. Cardinality(S) = 0
    BY <1>1, FS_EmptySet
  <2>2. QED
    BY <2>1
<1>2. CASE S = {t}
  <2>1. Cardinality(S) = 1
    BY <1>2, FS_Singleton
  <2>2. QED
    BY <2>1
<1>3. QED
  BY <1>1, <1>2

\* At the start no request works, and the founders are the active administrators.
LEMMA InitIInv == Init => IInv
<1> SUFFICES ASSUME Init PROVE IInv
  OBVIOUS
<1> USE IdleType DEF Init
<1>1. TypeOK
  BY DEF TypeOK
<1>2. LockInv /\ AdminsInv /\ TargetInv /\ ExistsInv
  BY DEF LockInv, AdminsInv, TargetInv, ExistsInv, ActiveAdmin, Idle
<1>3. AnAdminRemains
  BY FounderAssumption DEF AnAdminRemains, ActiveAdmin, IsAdmin
<1>4. QED
  BY <1>1, <1>2, <1>3 DEF IInv

\* A patch gives an account, and takes an active administrator away only if it says so.
LEMMA PatchedType ==
    ASSUME NEW a \in Account, NEW patch \in Patch, a.role = "platform_admin" => a.flag
    PROVE  /\ Patched(a, patch) \in Account
           /\ Patched(a, patch).role = "platform_admin" => Patched(a, patch).flag
           /\ Patched(a, patch).exists = a.exists
           /\ ~LosesAdmin(patch) /\ a.active /\ IsAdmin(a) =>
                  Patched(a, patch).active /\ IsAdmin(Patched(a, patch))
<1> DEFINE act == IF patch.active = "keep" THEN a.active ELSE patch.active = "on"
           role == IF patch.role = "keep" THEN a.role ELSE patch.role
           flag == IF patch.role = "keep" THEN a.flag ELSE patch.role = "platform_admin"
<1>1. act \in BOOLEAN /\ flag \in BOOLEAN /\ role \in {"platform_admin", "none"}
  <2>1. a.active \in BOOLEAN /\ a.flag \in BOOLEAN /\ a.role \in {"platform_admin", "none"}
    BY DEF Account
  <2>2. act \in BOOLEAN
    BY <2>1, Zenon
  <2>3. flag \in BOOLEAN
    BY <2>1, Zenon
  <2>4. role \in {"platform_admin", "none"}
    BY <2>1 DEF Patch
  <2>5. QED
    BY <2>2, <2>3, <2>4
<1>2. Patched(a, patch) = [a EXCEPT !.active = act, !.role = role, !.flag = flag]
  BY Zenon DEF Patched
<1>3. /\ Patched(a, patch).active = act /\ Patched(a, patch).role = role
      /\ Patched(a, patch).flag = flag /\ Patched(a, patch).exists = a.exists
  BY <1>2 DEF Account
<1>4. Patched(a, patch) \in Account
  BY <1>1, <1>2 DEF Account
<1>5. Patched(a, patch).role = "platform_admin" => Patched(a, patch).flag
  BY <1>3
<1>6. ASSUME ~LosesAdmin(patch), a.active, IsAdmin(a)
      PROVE  Patched(a, patch).active /\ IsAdmin(Patched(a, patch))
  BY <1>3, <1>6 DEF LosesAdmin, IsAdmin, Patch
<1>7. QED
  BY <1>3, <1>4, <1>5, <1>6

-----------------------------------------------------------------------------
(* A step of p moves req[p] only; writes go to the target of p.            *)

\* Every step keeps the types.
LEMMA TypeStep == IInv /\ [Next]_vars => TypeOK'
<1> SUFFICES ASSUME IInv, [Next]_vars PROVE TypeOK'
  OBVIOUS
<1> USE DEF TypeOK, IInv
<1>1. ASSUME NEW p \in Requests, Done(p) PROVE req' \in [Requests -> Request]
  BY <1>1, IdleType DEF Done
<1>2. ASSUME NEW p \in Requests, NEW c \in Users, NEW t \in Users, NEW patch \in Patches,
             NEW pc \in {"scan", "create"}, Authorize(p, c, t, patch, pc)
      PROVE  TypeOK'
  <2>1. patch \in Patch
    BY PatchAssumption
  <2>2. [Idle EXCEPT !.pc = pc, !.caller = c, !.target = t, !.patch = patch] \in Request
    BY <2>1, IdleType DEF Request
  <2>3. QED
    BY <1>2, <2>2 DEF Authorize
<1>3. ASSUME NEW p \in Requests, CreateCommit(p) PROVE TypeOK'
  <2>1. (IF req[p].patch.role = "platform_admin" THEN "platform_admin" ELSE "none")
           \in {"platform_admin", "none"}
    OBVIOUS
  <2>2. (req[p].patch.role = "platform_admin") \in BOOLEAN
    OBVIOUS
  <2> DEFINE row == [exists |-> TRUE, active |-> TRUE,
                     role |-> IF req[p].patch.role = "platform_admin" THEN "platform_admin" ELSE "none",
                     flag |-> req[p].patch.role = "platform_admin"]
  <2>3. row \in Account /\ (row.role = "platform_admin" => row.flag)
    BY <2>1, <2>2 DEF Account
  <2>4. account' = [account EXCEPT ![req[p].target] = row] /\ UNCHANGED work /\ Done(p)
    BY <1>3, Zenon DEF CreateCommit
  <2> HIDE DEF row
  <2>5. QED
    BY <1>1, <2>3, <2>4
<1>4. ASSUME NEW p \in Requests, UpdateCommit(p) PROVE TypeOK'
  <2> DEFINE t == req[p].target
             row == Patched(account[t], req[p].patch)
  <2>1. t \in Users /\ req[p].patch \in Patch /\ account[t] \in Account
    BY DEF Request
  <2>2. row \in Account /\ (row.role = "platform_admin" => row.flag)
    BY <2>1, PatchedType
  <2>3. account' = [account EXCEPT ![t] = row] /\ UNCHANGED work /\ Done(p)
    BY <1>4 DEF UpdateCommit
  <2> HIDE DEF row
  <2>4. QED
    BY <1>1, <2>2, <2>3
<1>5. ASSUME NEW p \in Requests, Scan(p) PROVE TypeOK'
  <2> DEFINE S == {u \in Users : account[u].exists /\ ActiveAdmin(u)}
  <2>1. [req[p] EXCEPT !.pc = "lock", !.todo = S] \in Request
    BY DEF Request
  <2>2. req' = [req EXCEPT ![p] = [req[p] EXCEPT !.pc = "lock", !.todo = S]] /\ UNCHANGED <<account, work>>
    BY <1>5 DEF Scan
  <2>3. QED
    BY <2>1, <2>2
<1>6. ASSUME NEW p \in Requests, NEW u \in Users, LockAdmin(p, u) PROVE TypeOK'
  <2> DEFINE todo == req[p].todo \ {u}
             held == req[p].held \cup {u}
             admins == Returned(req[p].admins, u)
             r == [req[p] EXCEPT !.todo = todo, !.held = held, !.admins = admins]
  <2>00. req[p] \in Request
    OBVIOUS
  <2>0. todo \in SUBSET Users /\ held \in SUBSET Users /\ admins \in SUBSET Users
    BY DEF Returned, Request
  <2>1. req' = [req EXCEPT ![p] = r] /\ UNCHANGED <<account, work>>
    BY <1>6 DEF LockAdmin
  <2> HIDE DEF todo, held, admins
  <2>2. r \in Request
    BY <2>0, <2>00 DEF Request
  <2> HIDE DEF r
  <2>3. QED
    BY <2>1, <2>2
<1>7. ASSUME NEW p \in Requests, LockTarget(p) PROVE TypeOK'
  <2> DEFINE held == req[p].held \cup {req[p].target}
             r == [req[p] EXCEPT !.pc = "target", !.held = held]
  <2>0. req[p] \in Request /\ held \in SUBSET Users
    BY DEF Request
  <2>1. req' = [req EXCEPT ![p] = r] /\ UNCHANGED <<account, work>>
    BY <1>7 DEF LockTarget
  <2> HIDE DEF held
  <2>2. r \in Request
    BY <2>0 DEF Request
  <2> HIDE DEF r
  <2>3. QED
    BY <2>1, <2>2
<1>8. ASSUME NEW p \in Requests,
             CreateConflict(p) \/ TargetMissing(p) \/ UpdateRefused(p) \/ Abort(p) \/ DeadlockAbort(p)
      PROVE  TypeOK'
  BY <1>1, <1>8 DEF CreateConflict, TargetMissing, UpdateRefused, Abort, DeadlockAbort
<1>9. CASE UNCHANGED vars
  BY <1>9 DEF vars
<1>10. QED
  BY <1>2, <1>3, <1>4, <1>5, <1>6, <1>7, <1>8, <1>9 DEF Next, Begin, Advance

\* A step that takes no lock and writes no row.
LEMMA QuietStep ==
    ASSUME IInv, NEW p \in Requests, UNCHANGED account,
           \A q \in Requests : q # p => req'[q] = req[q],
           req'[p].pc # "target",
           req'[p].held \subseteq req[p].held,
           req'[p].admins \subseteq req[p].admins /\ req'[p].admins \subseteq req'[p].held
    PROVE  (LockInv /\ AdminsInv /\ TargetInv /\ ExistsInv /\ AnAdminRemains)'
<1>1. LockInv'
  BY DEF IInv, LockInv
<1>2. AdminsInv'
  BY DEF IInv, AdminsInv, ActiveAdmin
<1>3. TargetInv'
  BY DEF IInv, TargetInv
<1>4. ExistsInv' /\ AnAdminRemains'
  BY DEF IInv, ExistsInv, AnAdminRemains, ActiveAdmin
<1>5. QED
  BY <1>1, <1>2, <1>3, <1>4

\* A step that writes the row of t, held by p or held by nobody, and ends p.
LEMMA WriteStep ==
    ASSUME IInv, NEW p \in Requests, Done(p), NEW t \in Users,
           \A u \in Users : u # t => account'[u] = account[u],
           account'[t].exists,
           \A q \in Requests : q # p => t \notin req[q].admins,
           \E u \in Users : account'[u].exists /\ ActiveAdmin(u)'
    PROVE  (LockInv /\ AdminsInv /\ TargetInv /\ ExistsInv /\ AnAdminRemains)'
<1>1. req'[p] = Idle /\ \A q \in Requests : q # p => req'[q] = req[q]
  BY DEF Done, IInv, TypeOK
<1>2. \A q \in Requests : req[q].target \in Users /\ req[q].admins \subseteq Users
  BY DEF IInv, TypeOK, Request
<1>3. LockInv'
  BY <1>1 DEF IInv, LockInv, Idle
<1>4. AdminsInv'
  BY <1>1, <1>2 DEF IInv, AdminsInv, ActiveAdmin, Idle
<1>5. TargetInv'
  BY <1>1, <1>2 DEF IInv, TargetInv, Idle
<1>6. ExistsInv'
  BY DEF IInv, ExistsInv, ActiveAdmin
<1>7. AnAdminRemains'
  BY DEF AnAdminRemains
<1>8. QED
  BY <1>3, <1>4, <1>5, <1>6, <1>7

\* Every step keeps the advisory lock with one request, and an active administrator.
LEMMA SafeStep == IInv /\ [Next]_vars => (LockInv /\ AdminsInv /\ TargetInv /\ ExistsInv /\ AnAdminRemains)'
<1> DEFINE Goal == (LockInv /\ AdminsInv /\ TargetInv /\ ExistsInv /\ AnAdminRemains)'
<1> SUFFICES ASSUME IInv, [Next]_vars PROVE Goal
  OBVIOUS
<1>0. /\ req \in [Requests -> Request] /\ account \in [Users -> Account]
      /\ \A q \in Requests : /\ req[q].target \in Users /\ req[q].patch \in Patch
                             /\ req[q].admins \subseteq req[q].held
                             /\ req[q].admins \subseteq Users
  BY DEF IInv, TypeOK, Request, AdminsInv
<1>1. ASSUME NEW p \in Requests, NEW c \in Users, NEW t \in Users, NEW patch \in Patches,
             NEW pc \in {"scan", "create"}, Authorize(p, c, t, patch, pc)
      PROVE  Goal
  <2> DEFINE r == [Idle EXCEPT !.pc = pc, !.caller = c, !.target = t, !.patch = patch]
  <2>1. r.pc = pc /\ r.held = {} /\ r.admins = {}
    BY DEF Idle
  <2>2. req' = [req EXCEPT ![p] = r] /\ UNCHANGED account
    BY <1>1 DEF Authorize
  <2> HIDE DEF r
  <2>3. QED
    BY <1>0, <2>1, <2>2, QuietStep
<1>2. ASSUME NEW p \in Requests, Done(p), UNCHANGED account PROVE Goal
  <2>1. req'[p] = Idle /\ \A q \in Requests : q # p => req'[q] = req[q]
    BY <1>0, <1>2 DEF Done
  <2>2. QED
    BY <1>2, <2>1, QuietStep DEF Idle
<1>3. ASSUME NEW p \in Requests, CreateCommit(p) PROVE Goal
  <2> DEFINE t == req[p].target
  <2>1. t \in Users /\ ~account[t].exists /\ Done(p)
    BY <1>0, <1>3 DEF CreateCommit
  <2>2. (\A u \in Users : u # t => account'[u] = account[u]) /\ account'[t].exists
    BY <1>0, <1>3 DEF CreateCommit
  <2>3. \A q \in Requests : t \notin req[q].admins
    BY <2>1 DEF IInv, AdminsInv
  <2>4. \E u \in Users : account'[u].exists /\ ActiveAdmin(u)'
    BY <2>1, <2>2 DEF IInv, AnAdminRemains, ActiveAdmin
  <2>5. QED
    BY <2>1, <2>2, <2>3, <2>4, WriteStep
<1>4. ASSUME NEW p \in Requests, Scan(p) PROVE Goal
  <2>1. /\ UNCHANGED account /\ \A q \in Requests : q # p => req'[q] = req[q]
        /\ req'[p].pc = "lock" /\ req'[p].held = req[p].held /\ req'[p].admins = req[p].admins
    BY <1>0, <1>4 DEF Scan, Request
  <2>2. QED
    BY <1>0, <2>1, QuietStep
<1>5. ASSUME NEW p \in Requests, NEW u \in Users, LockAdmin(p, u) PROVE Goal
  <2>1. /\ UNCHANGED account /\ \A q \in Requests : q # p => req'[q] = req[q]
        /\ req'[p].pc = "lock" /\ req'[p].held = req[p].held \cup {u}
        /\ req'[p].admins = Returned(req[p].admins, u)
        /\ \A q \in Requests : q # p => u \notin req[q].held
    BY <1>0, <1>5 DEF LockAdmin, Free, Request
  <2>2. LockInv'
    BY <2>1 DEF IInv, LockInv
  <2>3. AdminsInv'
    BY <1>0, <2>1 DEF IInv, AdminsInv, ExistsInv, Returned, ActiveAdmin
  <2>4. TargetInv'
    BY <2>1 DEF IInv, TargetInv
  <2>5. ExistsInv' /\ AnAdminRemains'
    BY <2>1 DEF IInv, ExistsInv, AnAdminRemains, ActiveAdmin
  <2>6. QED
    BY <2>2, <2>3, <2>4, <2>5
<1>6. ASSUME NEW p \in Requests, LockTarget(p) PROVE Goal
  <2> DEFINE t == req[p].target
  <2>1. /\ UNCHANGED account /\ \A q \in Requests : q # p => req'[q] = req[q]
        /\ req'[p].pc = "target" /\ req'[p].held = req[p].held \cup {t}
        /\ req'[p].admins = req[p].admins /\ req'[p].target = t
        /\ account[t].exists
        /\ \A q \in Requests : q # p => t \notin req[q].held
    BY <1>0, <1>6 DEF LockTarget, Free, Request
  <2>2. LockInv'
    BY <2>1 DEF IInv, LockInv
  <2>3. AdminsInv'
    BY <2>1 DEF IInv, AdminsInv, ActiveAdmin
  <2>4. TargetInv'
    BY <2>1 DEF IInv, TargetInv
  <2>5. ExistsInv' /\ AnAdminRemains'
    BY <2>1 DEF IInv, ExistsInv, AnAdminRemains, ActiveAdmin
  <2>6. QED
    BY <2>2, <2>3, <2>4, <2>5
<1>7. ASSUME NEW p \in Requests, UpdateCommit(p) PROVE Goal
  <2> DEFINE t == req[p].target
             row == Patched(account[t], req[p].patch)
  <2>1. t \in Users /\ t \in req[p].held /\ account[t].exists /\ Done(p) /\ ~Refused(req[p])
    BY <1>0, <1>7 DEF UpdateCommit, IInv, TargetInv
  <2>2. account' = [account EXCEPT ![t] = row]
    BY <1>7 DEF UpdateCommit
  <2>3. /\ row.exists = account[t].exists
        /\ ~LosesAdmin(req[p].patch) /\ ActiveAdmin(t) => row.active /\ IsAdmin(row)
    BY <1>0, PatchedType DEF IInv, TypeOK, ActiveAdmin
  <2> HIDE DEF row
  <2>4. /\ \A u \in Users : u # t => account'[u] = account[u]
        /\ account'[t] = row
    BY <1>0, <2>1, <2>2
  <2>5. \A q \in Requests : q # p => t \notin req[q].admins
    BY <1>0, <2>1 DEF IInv, LockInv
  <2>6. \E u \in Users : account'[u].exists /\ ActiveAdmin(u)'
    <3>1. CASE ~ActiveAdmin(t)
      BY <2>1, <2>4, <3>1 DEF IInv, AnAdminRemains, ActiveAdmin
    <3>2. CASE ActiveAdmin(t) /\ ~LosesAdmin(req[p].patch)
      BY <2>1, <2>3, <2>4, <3>2 DEF ActiveAdmin
    <3>3. CASE ActiveAdmin(t) /\ LosesAdmin(req[p].patch)
      <4>1. ~(Cardinality(req[p].admins) <= 1)
        BY <2>1, <3>3 DEF Refused
      <4>2. IsFiniteSet(req[p].admins)
        BY <1>0, UserAssumption, FS_Subset
      <4>3. PICK u \in req[p].admins : u # t
        BY <4>1, <4>2, AnotherAdmin
      <4>4. u \in Users /\ account[u].exists /\ ActiveAdmin(u)
        BY <1>0, <4>3 DEF IInv, AdminsInv
      <4>5. QED
        BY <2>4, <4>3, <4>4 DEF ActiveAdmin
    <3>4. QED
      BY <3>1, <3>2, <3>3
  <2>7. QED
    BY <2>1, <2>3, <2>4, <2>5, <2>6, WriteStep
<1>8. ASSUME NEW p \in Requests,
             CreateConflict(p) \/ TargetMissing(p) \/ UpdateRefused(p) \/ Abort(p) \/ DeadlockAbort(p)
      PROVE  Goal
  BY <1>2, <1>8 DEF CreateConflict, TargetMissing, UpdateRefused, Abort, DeadlockAbort
<1>9. CASE UNCHANGED vars
  BY <1>9 DEF vars, IInv, LockInv, AdminsInv, TargetInv, ExistsInv, AnAdminRemains, ActiveAdmin
<1>10. QED
  BY <1>1, <1>3, <1>4, <1>5, <1>6, <1>7, <1>8, <1>9 DEF Next, Begin, Advance

\* The inductive invariant of the account administration holds throughout.
LEMMA Invariance == Spec => []IInv
<1>1. IInv /\ [Next]_vars => IInv'
  BY TypeStep, SafeStep DEF IInv
<1>2. QED
  BY InitIInv, <1>1, PTL DEF Spec

\* Accounts and requests keep their type, and the role carries the flag.
THEOREM TypeCorrect == Spec => []TypeOK
<1>1. IInv => TypeOK
  BY DEF IInv
<1>2. QED
  BY Invariance, <1>1, PTL

\* The rule update_account promises: whatever administrators ask of one another
\* at the same time, an active one is left.
THEOREM LastAdminStays == Spec => []AnAdminRemains
<1>1. IInv => AnAdminRemains
  BY DEF IInv
<1>2. QED
  BY Invariance, <1>1, PTL

-----------------------------------------------------------------------------
(* Memberships of schools.                                                 *)

SchoolTypes ==
    /\ access \in [Schools -> [Users -> Access \cup {None}]]
    /\ asked \in [Schools -> [Users -> Asked]]
    /\ rows \in Nat
    /\ call \in [Requests -> Call \cup {None}]

\* The target's membership and its request for one, as they are.
Membership(p) == access[call[p].school][call[p].target]
Petition(p) == asked[call[p].school][call[p].target]

\* What is the case now is among what has been since the request began.
Witnessed(p) ==
    /\ Rules(access[call[p].school][call[p].caller]) => call[p].ruled
    /\ PlainIds(Membership(p)) \subseteq call[p].plain
    /\ Petition(p) = "pending" => call[p].asks

\* So was what a request has loaded, and one that does not come from a platform
\* administrator is within the scope of its caller once it was authorized.
Scope(p) ==
    /\ call[p].op = "grant" => call[p].row = None /\ call[p].pc # "load"
    /\ call[p].op = "revoke" <=> call[p].role = None
    /\ call[p].op # "grant" /\ call[p].pc # "load" => call[p].row # None
    /\ PlainIds(call[p].row) \subseteq call[p].plain
    /\ Rules(call[p].row) /\ call[p].caller = call[p].target => call[p].ruled
    /\ call[p].ask => call[p].asks
    /\ call[p].pc \in {"check", "commit"} /\ ~call[p].platform =>
           /\ call[p].ruled
           /\ call[p].row # None => call[p].row.role \in Ordinary
           /\ call[p].role \in Ordinary \cup {None}
           /\ call[p].op = "grant" /\ call[p].pc = "commit" => call[p].ask
    /\ Witnessed(p)

ScopeInv == \A p \in Requests : call[p] # None => Scope(p)

SchoolInv == SchoolTypes /\ ScopeInv

\* The fields of a request in flight.
LEMMA CallTypes ==
    ASSUME SchoolTypes, NEW p \in Requests, call[p] # None
    PROVE  /\ call[p] \in Call
           /\ call[p].op \in {"grant", "change", "revoke"}
           /\ call[p].pc \in {"load", "authorize", "check", "commit"}
           /\ call[p].school \in Schools /\ call[p].target \in Users /\ call[p].caller \in Users
           /\ call[p].role \in SchoolRole \cup {None}
           /\ call[p].platform \in BOOLEAN /\ call[p].ask \in BOOLEAN
           /\ call[p].ruled \in BOOLEAN /\ call[p].plain \in SUBSET Nat /\ call[p].asks \in BOOLEAN
           /\ call[p].row \in Access \cup {None}
BY DEF SchoolTypes, Call

\* What a request in flight is once it has seen the tables in another state.
LEMMA WitnessFields ==
    ASSUME NEW c \in Call, NEW petitions,
           NEW accesses \in [Schools -> [Users -> Access \cup {None}]]
    PROVE  LET w == Witness(c, accesses, petitions) IN
           /\ w \in Call /\ w # None
           /\ w.op = c.op /\ w.pc = c.pc /\ w.school = c.school /\ w.caller = c.caller
           /\ w.target = c.target /\ w.role = c.role /\ w.platform = c.platform
           /\ w.row = c.row /\ w.ask = c.ask
           /\ c.ruled \/ Rules(accesses[c.school][c.caller]) => w.ruled
           /\ w.plain = c.plain \cup PlainIds(accesses[c.school][c.target])
           /\ c.asks \/ petitions[c.school][c.target] = "pending" => w.asks
<1>1. /\ c.school \in Schools /\ c.caller \in Users /\ c.target \in Users
      /\ c.plain \in SUBSET Nat
  BY DEF Call
<1>2. accesses[c.school][c.target] \in Access \cup {None}
  BY <1>1
<1>3. PICK ruled \in BOOLEAN : ruled <=> c.ruled \/ Rules(accesses[c.school][c.caller])
  OBVIOUS
<1>4. PICK asks \in BOOLEAN : asks <=> c.asks \/ petitions[c.school][c.target] = "pending"
  OBVIOUS
<1>5. PICK plain \in SUBSET Nat : plain = c.plain \cup PlainIds(accesses[c.school][c.target])
  BY <1>1, <1>2 DEF PlainIds, Access
<1>6. c.ruled \in BOOLEAN /\ c.asks \in BOOLEAN
  BY DEF Call
<1>7. /\ (c.ruled \/ Rules(accesses[c.school][c.caller])) = ruled
      /\ (c.asks \/ petitions[c.school][c.target] = "pending") = asks
  BY <1>3, <1>4, <1>6 DEF Rules
<1>8. Witness(c, accesses, petitions) =
        [c EXCEPT !.ruled = ruled, !.plain = plain, !.asks = asks]
  BY <1>5, <1>7 DEF Witness
<1>9. PICK w \in Call : w = [c EXCEPT !.ruled = ruled, !.plain = plain, !.asks = asks]
  BY DEF Call
<1>10. /\ w.op = c.op /\ w.pc = c.pc /\ w.school = c.school /\ w.caller = c.caller
       /\ w.target = c.target /\ w.role = c.role /\ w.platform = c.platform
       /\ w.row = c.row /\ w.ask = c.ask
       /\ w.ruled = ruled /\ w.plain = plain /\ w.asks = asks
  BY <1>9 DEF Call
<1> QED
  BY <1>3, <1>4, <1>5, <1>8, <1>9, <1>10, SchoolAssumption

\* It is in its scope still.
LEMMA Observed ==
    ASSUME SchoolTypes, SchoolTypes', NEW p \in Requests, call[p] # None, Scope(p),
           call'[p] = Witness(call[p], access', asked')
    PROVE  call'[p] # None /\ Scope(p)'
<1>1. call[p] \in Call /\ access' \in [Schools -> [Users -> Access \cup {None}]]
  BY CallTypes DEF SchoolTypes
<1>2. /\ call'[p] # None
      /\ call'[p].op = call[p].op /\ call'[p].pc = call[p].pc
      /\ call'[p].school = call[p].school
      /\ call'[p].caller = call[p].caller /\ call'[p].target = call[p].target
      /\ call'[p].role = call[p].role /\ call'[p].platform = call[p].platform
      /\ call'[p].row = call[p].row /\ call'[p].ask = call[p].ask
      /\ call[p].ruled \/ Rules(access'[call[p].school][call[p].caller]) => call'[p].ruled
      /\ call'[p].plain = call[p].plain \cup PlainIds(access'[call[p].school][call[p].target])
      /\ call[p].asks \/ asked'[call[p].school][call[p].target] = "pending" => call'[p].asks
  BY <1>1, WitnessFields
<1>3. Witnessed(p)'
  BY <1>2 DEF Witnessed, Membership, Petition, Rules, PlainIds
<1>4. PlainIds(call[p].row)' \subseteq call'[p].plain /\ (Rules(call[p].row)' => Rules(call[p].row))
  BY <1>2 DEF Scope, PlainIds, Rules
<1> QED
  BY <1>2, <1>3, <1>4 DEF Scope

\* A request that goes on to r writes nothing; nor does one that ends.
LEMMA CallStep ==
    ASSUME SchoolInv, NEW p \in Requests, NEW r \in Call \cup {None},
           call' = [call EXCEPT ![p] = r], UNCHANGED <<access, asked, rows>>,
           r # None => Scope(p)'
    PROVE  SchoolInv'
<1>1. SchoolTypes' /\ call'[p] = r /\ \A q \in Requests \ {p} : call'[q] = call[q]
  BY DEF SchoolInv, SchoolTypes
<1>2. ASSUME NEW q \in Requests \ {p}, call'[q] # None
      PROVE  Scope(q)'
  BY <1>1, <1>2 DEF SchoolInv, ScopeInv, Scope, Witnessed, Membership, Petition, Rules, PlainIds
<1> QED
  BY <1>1, <1>2 DEF SchoolInv, ScopeInv

\* The end of a request that writes nothing.
LEMMA CallEnds ==
    ASSUME SchoolInv, NEW p \in Requests, CallEnd(p), UNCHANGED <<access, asked, rows>>
    PROVE  SchoolInv'
BY CallStep DEF CallEnd

\* A commit changes one membership, and the others see it.
LEMMA Written ==
    ASSUME SchoolTypes, NEW p \in Requests, call[p] # None, NEW row \in Access \cup {None},
           NEW petitions, Write(p, row, petitions)
    PROVE  /\ access' \in [Schools -> [Users -> Access \cup {None}]] /\ asked' = petitions
           /\ call' \in [Requests -> Call \cup {None}] /\ call'[p] = None
           /\ access'[call[p].school][call[p].target] = row
           /\ \A q \in Requests \ {p} :
                  /\ call'[q] = None <=> call[q] = None
                  /\ call[q] # None => call'[q] = Witness(call[q], access', asked')
<1>1. call[p].school \in Schools /\ call[p].target \in Users
  BY CallTypes
<1>2. access' = [access EXCEPT ![call[p].school][call[p].target] = row] /\ asked' = petitions
  BY DEF Write
<1>3. call' = [q \in Requests |-> IF q = p \/ call[q] = None THEN None
                                 ELSE Witness(call[q], access', asked')]
  BY <1>2 DEF Write
<1>4. access' \in [Schools -> [Users -> Access \cup {None}]]
  BY <1>1, <1>2 DEF SchoolTypes
<1>5. access'[call[p].school][call[p].target] = row
  BY <1>1, <1>2 DEF SchoolTypes
<1>6. ASSUME NEW q \in Requests, call[q] # None
      PROVE  Witness(call[q], access', asked') \in Call /\ Witness(call[q], access', asked') # None
  BY <1>4, <1>6, CallTypes, WitnessFields
<1> QED
  BY <1>2, <1>3, <1>4, <1>5, <1>6

\* The other requests after a commit of p.
LEMMA WriteStays ==
    ASSUME SchoolInv, NEW p \in Requests, call[p] # None, NEW row \in Access \cup {None},
           NEW petitions \in [Schools -> [Users -> Asked]],
           Write(p, row, petitions), rows' \in Nat
    PROVE  SchoolInv'
<1>1. SchoolTypes'
  BY Written DEF SchoolInv, SchoolTypes
<1>2. ASSUME NEW q \in Requests \ {p}, call'[q] # None
      PROVE  Scope(q)'
  <2>1. /\ call[q] # None /\ Scope(q) /\ call'[q] = Witness(call[q], access', asked')
    BY <1>2, Written DEF SchoolInv, ScopeInv
  <2> QED
    BY <1>1, <2>1, Observed DEF SchoolInv
<1> QED
  BY <1>1, <1>2, Written DEF SchoolInv, ScopeInv

\* At the start no call is made, and who is a member or a petitioner has an account.
LEMMA SchoolInitInv == SchoolInit => SchoolInv
<1> SUFFICES ASSUME SchoolInit PROVE SchoolInv
  OBVIOUS
<1>1. SchoolTypes
  BY DEF SchoolInit, SchoolTypes, Access, Asked
<1>2. ScopeInv
  BY DEF SchoolInit, ScopeInv
<1> QED
  BY <1>1, <1>2 DEF SchoolInv

\* An account that registers asks for one school, and the requests in flight see it.
LEMMA RegisterInv ==
    ASSUME SchoolInv, NEW u \in Users, NEW s \in Schools, Register(u, s)
    PROVE  SchoolInv'
<1>1. /\ asked' \in [Schools -> [Users -> Asked]] /\ UNCHANGED <<access, rows>>
      /\ access' \in [Schools -> [Users -> Access \cup {None}]]
  BY DEF Register, SchoolInv, SchoolTypes, Asked
<1>2. call' = [p \in Requests |-> IF call[p] = None THEN None
                                 ELSE Witness(call[p], access', asked')]
  BY <1>1 DEF Register
<1>3. ASSUME NEW p \in Requests, call[p] # None
      PROVE  Witness(call[p], access', asked') \in Call
  BY <1>1, <1>3, CallTypes, WitnessFields DEF SchoolInv
<1>4. SchoolTypes'
  BY <1>1, <1>2, <1>3 DEF SchoolInv, SchoolTypes
<1>5. \A p \in Requests : call'[p] # None => Scope(p)'
  BY <1>2, <1>4, Observed DEF SchoolInv, ScopeInv
<1> QED
  BY <1>4, <1>5 DEF SchoolInv, ScopeInv

\* A call that begins has loaded nothing, and sees the tables as they are.
LEMMA CallBeginInv ==
    ASSUME SchoolInv, TypeOK, NEW p \in Requests, NEW op \in {"grant", "change", "revoke"},
           NEW c \in Users, NEW t \in Members, NEW s \in Schools, NEW role \in Roles \cup {None},
           CallBegin(p, op, c, t, s, role)
    PROVE  SchoolInv'
<1>1. t \in Users /\ role \in SchoolRole \cup {None} /\ IsAdmin(account[c]) \in BOOLEAN
  BY SchoolAssumption DEF TypeOK, Account, IsAdmin
<1>2. PICK b \in BOOLEAN, pc \in {"load", "authorize"} :
          b = IsAdmin(account[c]) /\ pc = IF op = "grant" THEN "authorize" ELSE "load"
  BY <1>1
<1>3. PICK ruled \in BOOLEAN, plain \in SUBSET Nat, asks \in BOOLEAN :
          /\ ruled = Rules(access[s][c]) /\ plain = PlainIds(access[s][t])
          /\ asks = (asked[s][t] = "pending")
  <2>1. access[s][t] \in Access \cup {None}
    BY <1>1 DEF SchoolInv, SchoolTypes
  <2>2. PlainIds(access[s][t]) \in SUBSET Nat
    BY <2>1 DEF PlainIds, Access
  <2>3. Rules(access[s][c]) \in BOOLEAN
    BY DEF Rules
  <2> QED
    BY <2>2, <2>3
<1>4. PICK r \in Call :
          r = [op |-> op, pc |-> pc, school |-> s, caller |-> c, target |-> t, role |-> role,
               platform |-> b, row |-> None, ask |-> FALSE, ruled |-> ruled, plain |-> plain,
               asks |-> asks]
  BY <1>1 DEF Call
<1>5. call' = [call EXCEPT ![p] = r] /\ UNCHANGED <<access, asked, rows>> /\ call'[p] = r
  BY <1>2, <1>3, <1>4 DEF CallBegin, SchoolInv, SchoolTypes
<1>6. /\ r.op = op /\ r.pc = IF op = "grant" THEN "authorize" ELSE "load"
      /\ r.role = role /\ r.row = None /\ ~r.ask
      /\ r.school = s /\ r.caller = c /\ r.target = t
      /\ r.ruled = ruled /\ r.plain = plain /\ r.asks = asks
  BY <1>2, <1>4
<1>7. Witnessed(p)'
  BY <1>3, <1>5, <1>6 DEF Witnessed, Membership, Petition, Rules, PlainIds
<1>8. PlainIds(None)' = {} /\ ~Rules(None)'
  BY DEF PlainIds, Rules
<1>9. Scope(p)'
  BY <1>5, <1>6, <1>7, <1>8 DEF CallBegin, Scope
<1> QED
  BY <1>5, <1>9, CallStep

\* What a call loads is what the tables hold at that moment.
LEMMA LoadAccessInv ==
    ASSUME SchoolInv, NEW p \in Requests, LoadAccess(p)
    PROVE  SchoolInv'
<1>1. /\ call[p] # None /\ call[p] \in Call /\ call[p].pc = "load" /\ Scope(p)
      /\ Membership(p) \in Access \cup {None} /\ UNCHANGED <<access, asked, rows>>
      /\ call \in [Requests -> Call \cup {None}]
  BY CallTypes DEF LoadAccess, CallAt, SchoolInv, SchoolTypes, ScopeInv, Membership
<1>2. CASE Membership(p) # None
  <2>1. PICK r \in Call : r = [call[p] EXCEPT !.pc = "authorize", !.row = Membership(p)]
    BY <1>1 DEF Call
  <2>2. call' = [call EXCEPT ![p] = r] /\ call'[p] = r
    BY <1>1, <1>2, <2>1 DEF LoadAccess, Membership, Call
  <2>3. /\ r.op = call[p].op /\ r.pc = "authorize" /\ r.school = call[p].school
        /\ r.target = call[p].target /\ r.role = call[p].role /\ r.ask = call[p].ask
        /\ r.caller = call[p].caller /\ r.row = Membership(p)
        /\ r.ruled = call[p].ruled /\ r.plain = call[p].plain /\ r.asks = call[p].asks
    BY <1>1, <2>1 DEF Call
  <2>4. Scope(p)'
    BY <1>1, <1>2, <2>2, <2>3 DEF Scope, Witnessed, Membership, Petition, Rules, PlainIds
  <2> QED
    BY <1>1, <2>2, <2>4, CallStep
<1>3. CASE Membership(p) = None
  <2>1. CallEnd(p)
    BY <1>3 DEF LoadAccess, Membership
  <2> QED
    BY <1>1, <2>1, CallEnds
<1> QED
  BY <1>2, <1>3

\* What require_school_role_management lets a school administrator go on with.
LEMMA AuthorizeCallInv ==
    ASSUME SchoolInv, NEW p \in Requests, AuthorizeCall(p)
    PROVE  SchoolInv'
<1>1. /\ call[p] # None /\ call[p] \in Call /\ call[p].pc = "authorize" /\ Scope(p)
      /\ UNCHANGED <<access, asked, rows>> /\ call \in [Requests -> Call \cup {None}]
  BY CallTypes DEF AuthorizeCall, CallAt, SchoolInv, SchoolTypes, ScopeInv
<1>2. CASE CallEnd(p)
  BY <1>1, <1>2, CallEnds
<1>3. ASSUME NEW mine, MayManage(call[p].platform, mine, call[p].row, call[p].role),
             mine = IF call[p].row # None /\ call[p].caller = call[p].target THEN call[p].row
                    ELSE access[call[p].school][call[p].caller],
             call' = [call EXCEPT ![p].pc = IF call[p].op = "grant" THEN "check" ELSE "commit"]
      PROVE  SchoolInv'
  <2>1. PICK r \in Call :
            r = [call[p] EXCEPT !.pc = IF call[p].op = "grant" THEN "check" ELSE "commit"]
    BY <1>1 DEF Call
  <2>2. call' = [call EXCEPT ![p] = r] /\ call'[p] = r
    BY <1>1, <1>3, <2>1
  <2>3. /\ r.op = call[p].op /\ r.pc = IF call[p].op = "grant" THEN "check" ELSE "commit"
        /\ r.school = call[p].school /\ r.target = call[p].target /\ r.role = call[p].role
        /\ r.ask = call[p].ask /\ r.caller = call[p].caller /\ r.row = call[p].row
        /\ r.ruled = call[p].ruled /\ r.plain = call[p].plain /\ r.asks = call[p].asks
        /\ r.platform = call[p].platform
    BY <1>1, <2>1 DEF Call
  <2>4. ~r.platform => /\ r.row # None => r.row.role \in Ordinary
                       /\ r.role \in Ordinary \cup {None}
                       /\ Rules(mine)
    BY <1>3, <2>3 DEF MayManage, Rules
  <2>6. ~r.platform => call[p].ruled
    BY <1>1, <1>3, <2>4 DEF Scope, Witnessed
  <2>7. Witnessed(p)'
    BY <1>1, <2>2, <2>3 DEF Scope, Witnessed, Membership, Petition, Rules, PlainIds
  <2>8. /\ PlainIds(call[p].row)' = PlainIds(call[p].row)
        /\ Rules(call[p].row)' <=> Rules(call[p].row)
    BY <2>2, <2>3 DEF PlainIds, Rules
  <2>5. Scope(p)'
    BY <1>1, <2>2, <2>3, <2>4, <2>6, <2>7, <2>8 DEF Scope
  <2> QED
    BY <1>1, <2>2, <2>5, CallStep
<1> DEFINE mine == IF call[p].row # None /\ call[p].caller = call[p].target THEN call[p].row
                   ELSE access[call[p].school][call[p].caller]
<1>4. \/ CallEnd(p)
      \/ /\ MayManage(call[p].platform, mine, call[p].row, call[p].role)
         /\ call' = [call EXCEPT ![p].pc = IF call[p].op = "grant" THEN "check" ELSE "commit"]
  BY DEF AuthorizeCall
<1> HIDE DEF mine
<1>5. mine = IF call[p].row # None /\ call[p].caller = call[p].target THEN call[p].row
             ELSE access[call[p].school][call[p].caller]
  BY DEF mine
<1> QED
  BY <1>2, <1>3, <1>4, <1>5

\* The check of a grant notes the petition, without which a school cannot grant.
LEMMA GrantCheckInv ==
    ASSUME SchoolInv, NEW p \in Requests, GrantCheck(p)
    PROVE  SchoolInv'
<1>1. /\ call[p] # None /\ call[p] \in Call /\ call[p].pc = "check" /\ Scope(p)
      /\ UNCHANGED <<access, asked, rows>> /\ call \in [Requests -> Call \cup {None}]
      /\ call[p].platform \in BOOLEAN
  BY CallTypes DEF GrantCheck, CallAt, SchoolInv, SchoolTypes, ScopeInv
<1>2. CASE CallEnd(p)
  BY <1>1, <1>2, CallEnds
<1>3. CASE /\ MayJoin(call[p].platform, Petition(p) = "pending")
           /\ call' = [call EXCEPT ![p].pc = "commit", ![p].ask = (Petition(p) = "pending")]
  <2>1. PICK ask \in BOOLEAN : ask <=> Petition(p) = "pending"
    OBVIOUS
  <2>2. PICK r \in Call : r = [call[p] EXCEPT !.pc = "commit", !.ask = ask]
    BY <1>1, <2>1 DEF Call
  <2>3. call' = [call EXCEPT ![p] = r] /\ call'[p] = r
    BY <1>1, <1>3, <2>1, <2>2
  <2>4. /\ r.op = call[p].op /\ r.pc = "commit"
        /\ r.school = call[p].school /\ r.target = call[p].target /\ r.role = call[p].role
        /\ r.ask = ask /\ r.caller = call[p].caller /\ r.row = call[p].row
        /\ r.ruled = call[p].ruled /\ r.plain = call[p].plain /\ r.asks = call[p].asks
        /\ r.platform = call[p].platform
    BY <1>1, <2>2 DEF Call
  <2>6. Witnessed(p)'
    BY <1>1, <2>3, <2>4 DEF Scope, Witnessed, Membership, Petition, Rules, PlainIds
  <2>7. ask => call[p].asks
    BY <1>1, <2>1 DEF Scope, Witnessed
  <2>8. /\ PlainIds(call[p].row)' = PlainIds(call[p].row)
        /\ Rules(call[p].row)' <=> Rules(call[p].row)
    BY <2>3, <2>4 DEF PlainIds, Rules
  <2>5. Scope(p)'
    BY <1>1, <1>3, <2>1, <2>3, <2>4, <2>6, <2>7, <2>8 DEF Scope, MayJoin
  <2> QED
    BY <1>1, <2>3, <2>5, CallStep
<1> QED
  BY <1>2, <1>3 DEF GrantCheck, Petition

\* What p's commit does to its target's membership is in the scope of its caller.
InScope(p) ==
    LET s == call[p].school
        t == call[p].target IN
    /\ call[p].ruled
    /\ IF access[s][t] # None THEN access[s][t].id \in call[p].plain ELSE call[p].asks
    /\ access'[s][t] # None => access'[s][t].role \in Ordinary

\* A grant that is saved is in the scope of its caller.
LEMMA GrantCommitInv ==
    ASSUME SchoolInv, NEW p \in Requests, GrantCommit(p)
    PROVE  SchoolInv' /\ (Managing(p) => InScope(p))
<1>1. /\ call[p] # None /\ call[p] \in Call /\ call[p].pc = "commit" /\ call[p].op = "grant"
      /\ Scope(p) /\ call[p].school \in Schools /\ call[p].target \in Users
      /\ call[p].role \in SchoolRole
  BY CallTypes DEF GrantCommit, CallAt, SchoolInv, ScopeInv, Scope
<1>2. CASE Membership(p) = None
  <2>0. rows + 1 \in Nat
    BY DEF SchoolInv, SchoolTypes
  <2>1. PICK row \in Access : row = [id |-> rows + 1, role |-> call[p].role]
    BY <1>1, <2>0 DEF Access
  <2> DEFINE petitions == IF call[p].ask
                          THEN [asked EXCEPT ![call[p].school][call[p].target] = "approved"]
                          ELSE asked
  <2>2. Write(p, row, petitions) /\ rows' = rows + 1 /\ row.role = call[p].role
    BY <1>2, <2>1 DEF GrantCommit, Membership
  <2>3. petitions \in [Schools -> [Users -> Asked]]
    BY <1>1 DEF SchoolInv, SchoolTypes, Asked
  <2> HIDE DEF petitions
  <2>4. SchoolInv'
    BY <1>1, <2>0, <2>2, <2>3, WriteStays
  <2>5. ASSUME Managing(p) PROVE InScope(p)
    <3>1. ~call[p].platform
      BY <2>5 DEF Managing
    <3>2. row.role \in Ordinary /\ call[p].asks /\ call[p].ruled
      BY <1>1, <2>2, <3>1, SchoolAssumption DEF Scope
    <3>3. access'[call[p].school][call[p].target] = row
      BY <1>1, <2>2, Written DEF SchoolInv
    <3> QED
      BY <1>2, <3>2, <3>3 DEF InScope, Membership
  <2> QED
    BY <2>4, <2>5
<1>3. CASE Membership(p) # None
  <2>1. CallEnd(p) /\ UNCHANGED <<access, asked, rows>>
    BY <1>3 DEF GrantCommit, Membership
  <2> QED
    BY <2>1, CallEnds DEF Managing
<1> QED
  BY <1>2, <1>3

\* A row that is still there was loaded when it was ordinary.
LEMMA Loaded ==
    ASSUME SchoolInv, NEW p \in Requests, CallAt(p, "commit"), call[p].op \in {"change", "revoke"},
           StillThere(p), ~call[p].platform
    PROVE  /\ Membership(p) # None /\ Membership(p).id \in call[p].plain
           /\ call[p].ruled /\ call[p].role \in Ordinary \cup {None}
<1>1. call[p] # None /\ Scope(p) /\ call[p].pc = "commit"
  BY DEF CallAt, SchoolInv, ScopeInv
<1>2. Membership(p) # None /\ Membership(p).id = call[p].row.id
  BY DEF StillThere, Membership
<1>3. call[p].row # None /\ call[p].row.role \in Ordinary
  BY <1>1 DEF Scope
<1>4. call[p].row.id \in call[p].plain
  BY <1>1, <1>3 DEF Scope, PlainIds
<1> QED
  BY <1>1, <1>2, <1>4 DEF Scope

\* So is a role that is changed.
LEMMA ChangeCommitInv ==
    ASSUME SchoolInv, NEW p \in Requests, ChangeCommit(p)
    PROVE  SchoolInv' /\ (Managing(p) => InScope(p))
<1>1. /\ call[p] # None /\ call[p] \in Call /\ CallAt(p, "commit") /\ call[p].op = "change"
      /\ Scope(p) /\ call[p].school \in Schools /\ call[p].target \in Users
      /\ call[p].role \in SchoolRole /\ call[p].row \in Access /\ UNCHANGED rows
      /\ asked \in [Schools -> [Users -> Asked]]
  BY CallTypes DEF ChangeCommit, CallAt, SchoolInv, SchoolTypes, ScopeInv, Scope
<1>2. CASE CallEnd(p) /\ UNCHANGED <<access, asked>>
  BY <1>1, <1>2, CallEnds DEF Managing
<1>3. CASE StillThere(p) /\ Write(p, [id |-> call[p].row.id, role |-> call[p].role], asked)
  <2>1. PICK row \in Access : row = [id |-> call[p].row.id, role |-> call[p].role]
    BY <1>1 DEF Access
  <2>2. Write(p, row, asked) /\ row.role = call[p].role
    BY <1>3, <2>1
  <2>3. SchoolInv'
    BY <1>1, <2>2, WriteStays DEF SchoolInv, SchoolTypes
  <2>4. ASSUME Managing(p) PROVE InScope(p)
    <3>1. ~call[p].platform
      BY <2>4 DEF Managing
    <3>2. /\ Membership(p) # None /\ Membership(p).id \in call[p].plain
          /\ call[p].ruled /\ row.role \in Ordinary
      BY <1>1, <1>3, <2>2, <3>1, Loaded, SchoolAssumption
    <3>3. access'[call[p].school][call[p].target] = row
      BY <1>1, <2>2, Written DEF SchoolInv
    <3> QED
      BY <3>2, <3>3 DEF InScope, Membership
  <2> QED
    BY <2>3, <2>4
<1> QED
  BY <1>2, <1>3 DEF ChangeCommit

\* So is a membership that is withdrawn.
LEMMA RevokeCommitInv ==
    ASSUME SchoolInv, NEW p \in Requests, RevokeCommit(p)
    PROVE  SchoolInv' /\ (Managing(p) => InScope(p))
<1>1. /\ call[p] # None /\ CallAt(p, "commit") /\ call[p].op = "revoke"
      /\ call[p].school \in Schools /\ call[p].target \in Users /\ UNCHANGED rows
      /\ asked \in [Schools -> [Users -> Asked]]
  BY CallTypes DEF RevokeCommit, CallAt, SchoolInv, SchoolTypes
<1>2. CASE CallEnd(p) /\ UNCHANGED <<access, asked>>
  BY <1>1, <1>2, CallEnds DEF Managing
<1>3. CASE StillThere(p) /\ Write(p, None, asked)
  <2>1. SchoolInv'
    BY <1>1, <1>3, WriteStays DEF SchoolInv, SchoolTypes
  <2>2. ASSUME Managing(p) PROVE InScope(p)
    <3>1. Membership(p) # None /\ Membership(p).id \in call[p].plain /\ call[p].ruled
      BY <1>1, <1>3, <2>2, Loaded DEF Managing
    <3>2. access'[call[p].school][call[p].target] = None
      BY <1>1, <1>3, Written DEF SchoolInv
    <3> QED
      BY <3>1, <3>2 DEF InScope, Membership
  <2> QED
    BY <2>1, <2>2
<1> QED
  BY <1>2, <1>3 DEF RevokeCommit

\* A step of the accounts leaves the memberships alone.
SchoolVars == <<access, asked, rows, call>>

\* Steps that leave the schools alone keep their invariant.
LEMMA SchoolStays == ASSUME SchoolInv, UNCHANGED SchoolVars PROVE SchoolInv'
BY DEF SchoolVars, SchoolInv, SchoolTypes, ScopeInv, Scope, Witnessed, Membership, Petition,
       Rules, PlainIds

\* Registration is the only handler of this module that changes an account: it
\* makes one that administers nothing.
LEMMA RegisterKeepsAdmins ==
    ASSUME IInv, NEW u \in Users, NEW s \in Schools, Register(u, s), UNCHANGED <<req, work>>
    PROVE  IInv'
<1>1. PICK row \in Account : row = [exists |-> TRUE, active |-> TRUE, role |-> "none", flag |-> FALSE]
  BY DEF Account
<1>2. /\ account' = [account EXCEPT ![u] = row] /\ account'[u] = row
      /\ \A t \in Users \ {u} : account'[t] = account[t]
      /\ ~account[u].exists /\ row.exists /\ row.role = "none" /\ ~row.flag
  BY <1>1 DEF Register, IInv, TypeOK
<1>3. TypeOK'
  BY <1>2 DEF IInv, TypeOK
<1>4. \A p \in Requests : u \notin req[p].admins /\ req[p].admins \subseteq Users
  BY <1>2 DEF IInv, AdminsInv, TypeOK, Request
<1>5. LockInv' /\ AdminsInv'
  BY <1>2, <1>4 DEF IInv, LockInv, AdminsInv, ActiveAdmin
<1>6. TargetInv'
  BY <1>2 DEF IInv, TargetInv, TypeOK, Request
<1>7. ExistsInv' /\ AnAdminRemains'
  BY <1>2 DEF IInv, ExistsInv, AnAdminRemains, ActiveAdmin
<1> QED
  BY <1>3, <1>5, <1>6, <1>7 DEF IInv

\* The other handlers leave the accounts as they are.
LEMMA AccountsStay == ASSUME IInv, UNCHANGED vars PROVE IInv'
BY DEF vars, IInv, TypeOK, LockInv, AdminsInv, TargetInv, ExistsInv, AnAdminRemains, ActiveAdmin

\* Every step of the school handlers keeps their invariant.
LEMMA SchoolNextInv ==
    ASSUME IInv, SchoolInv, SchoolNext, UNCHANGED <<req, work>>
    PROVE  IInv' /\ SchoolInv'
<1>1. CASE \E u \in Users, s \in Schools : Register(u, s)
  BY <1>1, RegisterInv, RegisterKeepsAdmins
<1>2. ASSUME NEW p \in Requests,
             \/ \E op \in {"grant", "change", "revoke"}, c \in Users, t \in Members,
                    s \in Schools, role \in Roles \cup {None} : CallBegin(p, op, c, t, s, role)
             \/ LoadAccess(p) \/ AuthorizeCall(p) \/ GrantCheck(p)
             \/ GrantCommit(p) \/ ChangeCommit(p) \/ RevokeCommit(p) \/ CallAborts(p)
      PROVE  IInv' /\ SchoolInv'
  <2>1. UNCHANGED account
    BY <1>2 DEF CallBegin, LoadAccess, AuthorizeCall, GrantCheck, GrantCommit, ChangeCommit,
                RevokeCommit, CallAborts
  <2>2. CallAborts(p) => SchoolInv'
    BY CallEnds DEF CallAborts
  <2>3. SchoolInv'
    BY <1>2, <2>2, CallBeginInv, LoadAccessInv, AuthorizeCallInv, GrantCheckInv, GrantCommitInv,
       ChangeCommitInv, RevokeCommitInv DEF IInv
  <2> QED
    BY <2>1, <2>3, AccountsStay DEF vars
<1> QED
  BY <1>1, <1>2 DEF SchoolNext

\* One step of accounts and memberships.
Together == (Next /\ UNCHANGED schoolVars) \/ (SchoolNext /\ UNCHANGED <<req, work>>)

\* The two modules together keep the two invariants together.
LEMMA TogetherInv ==
    IInv /\ SchoolInv /\ [Together]_<<vars, schoolVars>> => IInv' /\ SchoolInv'
<1> SUFFICES ASSUME IInv, SchoolInv, [Together]_<<vars, schoolVars>> PROVE IInv' /\ SchoolInv'
  OBVIOUS
<1>1. CASE Next /\ UNCHANGED schoolVars
  BY <1>1, TypeStep, SafeStep, SchoolStays DEF IInv, SchoolVars, schoolVars
<1>2. CASE SchoolNext /\ UNCHANGED <<req, work>>
  BY <1>2, SchoolNextInv
<1>3. CASE UNCHANGED <<vars, schoolVars>>
  BY <1>3, AccountsStay, SchoolStays DEF SchoolVars, schoolVars
<1> QED
  BY <1>1, <1>2, <1>3 DEF Together

\* Both invariants hold of accounts and memberships together.
LEMMA SchoolInvariance == SchoolSpec => [](IInv /\ SchoolInv)
<1>1. Init /\ SchoolInit => IInv /\ SchoolInv
  BY InitIInv, SchoolInitInv
<1> QED
  BY <1>1, TogetherInv, PTL DEF SchoolSpec, Together

\* Whoever joins, leaves and changes roles in the schools, an active platform
\* administrator remains.
THEOREM LastAdminStaysWithSchools == SchoolSpec => []AnAdminRemains
<1>1. IInv /\ SchoolInv => AnAdminRemains
  BY DEF IInv
<1> QED
  BY <1>1, SchoolInvariance, PTL

\* A step that ends p at its commit and changes a membership is p's commit.
LEMMA WhoManages ==
    ASSUME SchoolInv, [Together]_<<vars, schoolVars>>, NEW p \in Requests, Managing(p)
    PROVE  GrantCommit(p) \/ ChangeCommit(p) \/ RevokeCommit(p)
<1>1. /\ call[p] # None /\ call'[p] = None /\ access' # access
      /\ call \in [Requests -> Call \cup {None}]
  BY DEF Managing, CallAt, SchoolInv, SchoolTypes
<1>2. PICK q \in Requests : GrantCommit(q) \/ ChangeCommit(q) \/ RevokeCommit(q)
  <2>1. ASSUME NEW u \in Users, NEW s \in Schools, Register(u, s) PROVE access' = access
    BY <2>1 DEF Register
  <2>2. ASSUME NEW q \in Requests, NEW op, NEW c, NEW t, NEW s, NEW role,
               CallBegin(q, op, c, t, s, role)
        PROVE  access' = access
    BY <2>2 DEF CallBegin
  <2>3. ASSUME NEW q \in Requests,
               LoadAccess(q) \/ AuthorizeCall(q) \/ GrantCheck(q) \/ CallAborts(q)
        PROVE  access' = access
    BY <2>3 DEF LoadAccess, AuthorizeCall, GrantCheck, CallAborts
  <2>4. SchoolNext
    BY <1>1 DEF Together, schoolVars
  <2> QED
    BY <1>1, <2>1, <2>2, <2>3, <2>4 DEF SchoolNext
<1>3. CASE q = p
  BY <1>2, <1>3
<1>4. CASE q # p
  <2>1. call'[p] # None
    <3>1. CASE CallEnd(q)
      BY <1>1, <1>4, <3>1 DEF CallEnd
    <3>2. /\ call[q] # None /\ call[q] \in Call /\ call[q].role \in SchoolRole \cup {None}
          /\ call[q].row \in Access \cup {None} /\ rows \in Nat /\ Scope(q)
          /\ call[q].pc = "commit"
      BY <1>2, CallTypes DEF GrantCommit, ChangeCommit, RevokeCommit, CallAt, SchoolInv,
                             SchoolTypes, ScopeInv
    <3>3. ASSUME NEW row \in Access \cup {None}, NEW petitions, Write(q, row, petitions)
          PROVE  call'[p] # None
      BY <1>1, <1>4, <3>2, <3>3, Written DEF SchoolInv
    <3>4. CASE GrantCommit(q)
      <4>1. [id |-> rows + 1, role |-> call[q].role] \in Access
        BY <3>2, <3>4 DEF GrantCommit, Scope, Access
      <4> QED
        BY <3>1, <3>3, <3>4, <4>1 DEF GrantCommit
    <3>5. CASE ChangeCommit(q)
      <4>1. [id |-> call[q].row.id, role |-> call[q].role] \in Access
        BY <3>2, <3>5 DEF ChangeCommit, Scope, Access
      <4> QED
        BY <3>1, <3>3, <3>5, <4>1 DEF ChangeCommit
    <3>6. CASE RevokeCommit(q)
      BY <3>1, <3>3, <3>6 DEF RevokeCommit
    <3> QED
      BY <1>2, <3>4, <3>5, <3>6
  <2> QED
    BY <1>1, <2>1
<1> QED
  BY <1>3, <1>4

\* However requests overlap with one another and with changes of who administers
\* the platform, what a school administrator changes is within his scope.
THEOREM ManagementStaysInScope == SchoolSpec => ManagedWithinScope
<1>1. IInv /\ SchoolInv /\ [Together]_<<vars, schoolVars>> =>
        [\A p \in Requests : Managing(p) => InScope(p)]_<<account, schoolVars>>
  BY WhoManages, GrantCommitInv, ChangeCommitInv, RevokeCommitInv
<1>2. ManagedWithinScope <=> [][\A p \in Requests : Managing(p) => InScope(p)]_<<account, schoolVars>>
  BY DEF ManagedWithinScope, InScope
<1> QED
  BY <1>1, <1>2, SchoolInvariance, PTL DEF SchoolSpec, Together
=============================================================================
