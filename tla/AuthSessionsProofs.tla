------------------------- MODULE AuthSessionsProofs -------------------------
(***************************************************************************)
(* Type correctness and the revocation invariants of AuthSessions, for any *)
(* sets of accounts, session ids and requests.                             *)
(***************************************************************************)
EXTENDS AuthSessions, TLAPS

LoggingIn(p) == req[p].pc \in {"login", "login_flush"}

\* A request knows its account, and its session id is of the right kind.
RequestInv ==
    \A p \in Requests :
        /\ req[p].pc # "idle" => req[p].user \in Users
        /\ req[p].pc \in {"update", "update_commit"} => req[p].sid = None
        /\ req[p].pc \notin {"idle", "update", "update_commit"} => req[p].sid \in Sids
        /\ LoggingIn(p) => session[req[p].sid].state = "unused"

\* Two logins never insert the same row.
FreshSids ==
    \A p, q \in Requests : LoggingIn(p) /\ LoggingIn(q) /\ p # q => req[p].sid # req[q].sid

\* FOR UPDATE on a users row excludes.
UserLockInv ==
    \A p, q \in Requests : \A u \in Users : HoldsUser(p, u) /\ HoldsUser(q, u) => p = q

\* So does a lock on a session row, and a locked row is in the table.
RowLockInv ==
    /\ \A p, q \in Requests : p # q => req[p].rows \cap req[q].rows = {}
    /\ \A p \in Requests : \A s \in req[p].rows : session[s].state \in {"open", "revoked"}

\* Between revoke_user_sessions and the commit no session escapes: the lock
\* of the account keeps logins out.
CommitInv ==
    \A p \in Requests :
        req[p].pc \in {"change_commit", "update_commit"} => Revocable(p) \subseteq req[p].rows

\* The version a reset set is not ahead of the password.
ResetInv == \A u \in Users : account[u].reset <= account[u].pw

LockInv == RequestInv /\ FreshSids /\ UserLockInv /\ RowLockInv /\ CommitInv

\* Rows a login is about to purge have expired.
PurgeInv ==
    \A p \in Requests : req[p].pc = "login_flush" => \A s \in req[p].rows : session[s].exp <= now

Safe ==
    /\ ResetInv
    /\ NoSessionSurvivesActivationChange /\ AtMostOneSurvivor /\ ResetRevokesAll

\* A rotation is of a session of the account it has locked, which is active.
RefreshInv ==
    \A p \in Requests : req[p].pc = "refresh" =>
        /\ session[req[p].sid].state # "unused"
        /\ session[req[p].sid].user = req[p].user
        /\ account[req[p].user].active

IInv == TypeOK /\ LockInv /\ PurgeInv /\ RefreshInv /\ Safe

\* At the start there is no session and no request.
LEMMA InitIInv == Init => IInv
BY NoneAssumption DEF Init, IInv, Safe, PurgeInv, RefreshInv, TypeOK, LockInv, ResetInv, RequestInv, FreshSids, UserLockInv,
   RowLockInv, CommitInv, Account, Session, Request, Unused, Idle, LoggingIn, HoldsUser,
   NoSessionSurvivesActivationChange, AtMostOneSurvivor, ResetRevokesAll, Open


\* Every step keeps the types.
LEMMA TypeStep == TypeOK /\ LockInv /\ [Next]_vars => TypeOK'
<1> SUFFICES ASSUME TypeOK, LockInv, [Next]_vars PROVE TypeOK'
  OBVIOUS
<1> USE NoneAssumption, BoundAssumption DEF TypeOK
<1>0. /\ \A u \in Users : account[u].pw \in Nat
      /\ \A s \in Sids : session[s].user \in Users \cup {None} /\ session[s].gen \in Nat
      /\ Idle \in Request
  BY DEF Account, Session, Request, Idle
<1>1. ASSUME NEW p \in Requests, Begin(p) PROVE TypeOK'
  <2>1. ASSUME NEW r \in Request, Start(p, r) PROVE req' \in [Requests -> Request]
    BY <2>1 DEF Start
  <2>2. ASSUME NEW u \in Users, NEW s \in Sids, LoginCheck(p, u, s) PROVE TypeOK'
    <3>1. [Idle EXCEPT !.pc = "login", !.user = u, !.sid = s, !.pw = account[u].pw] \in Request
      BY <1>0 DEF Idle, Request
    <3>2. QED
      BY <2>1, <2>2, <3>1 DEF LoginCheck
  <2>3. ASSUME NEW s \in Sids, NEW g \in 1 .. session[s].gen, RefreshLock(p, s, g) PROVE TypeOK'
    <3>0. session[s].gen \in Nat /\ g \in Nat
      BY <1>0
    <3>1. [Idle EXCEPT !.pc = "refresh", !.user = session[s].user, !.sid = s, !.tok = g] \in Request
      BY <1>0, <3>0 DEF Idle, Request
    <3>2. Start(p, [Idle EXCEPT !.pc = "refresh", !.user = session[s].user, !.sid = s, !.tok = g])
      BY <2>3 DEF RefreshLock
    <3>5. req' \in [Requests -> Request]
      BY <2>1, <3>1, <3>2
    <3>3. UNCHANGED <<account, session, now>> /\ work' = work + 1
      BY <2>3 DEF RefreshLock
    <3>4. QED
      BY <3>5, <3>3
  <2>4. ASSUME NEW s \in Sids, LogoutLock(p, s) PROVE TypeOK'
    <3>1. [Idle EXCEPT !.pc = "logout", !.user = session[s].user, !.sid = s] \in Request
      BY <1>0 DEF Idle, Request
    <3>2. QED
      BY <2>1, <2>4, <3>1 DEF LogoutLock
  <2>5. ASSUME NEW s \in Sids, ChangeAuthorize(p, s) PROVE TypeOK'
    <3>1. session[s].user \in Users
      BY <2>5 DEF ChangeAuthorize, Authorized, Live, Open
    <3>2. [Idle EXCEPT !.pc = "change", !.user = session[s].user, !.sid = s,
                       !.pw = account[session[s].user].pw] \in Request
      BY <1>0, <3>1 DEF Idle, Request
    <3>3. QED
      BY <2>1, <2>5, <3>2 DEF ChangeAuthorize, Working
  <2>6. ASSUME NEW u \in Users, NEW patch \in Patches, UpdateLock(p, u, patch) PROVE TypeOK'
    <3>1. [Idle EXCEPT !.pc = "update", !.user = u, !.patch = patch] \in Request
      BY <1>0 DEF Idle, Request
    <3>2. QED
      BY <2>1, <2>6, <3>1 DEF UpdateLock, Working
  <2>7. ASSUME NEW s \in Sids, NEW t \in Sids, RevokeAuthorize(p, s, t) PROVE TypeOK'
    <3>1. [Idle EXCEPT !.pc = "revoke", !.user = session[s].user, !.sid = t] \in Request
      BY <1>0 DEF Idle, Request
    <3>2. QED
      BY <2>1, <2>7, <3>1 DEF RevokeAuthorize
  <2>8. QED
    BY <1>1, <2>2, <2>3, <2>4, <2>5, <2>6, <2>7 DEF Begin
<1>2. ASSUME NEW p \in Requests, LoginPurge(p) PROVE TypeOK'
  <2>1. Expired \in SUBSET Sids /\ now + SessionTtl \in Nat
    BY DEF Expired
  <2>2. [req[p] EXCEPT !.pc = "login_flush", !.rows = Expired, !.exp = now + SessionTtl] \in Request
    BY <2>1 DEF Request
  <2>3. req' = [req EXCEPT ![p] = [req[p] EXCEPT !.pc = "login_flush", !.rows = Expired,
                                                 !.exp = now + SessionTtl]]
    BY <1>2 DEF LoginPurge
  <2>4. QED
    BY <1>2, <2>2, <2>3 DEF LoginPurge
<1>3. ASSUME NEW p \in Requests, LoginCommit(p) PROVE TypeOK'
  <2>1. req[p].user \in Users /\ req[p].sid \in Sids /\ req[p].exp \in Nat /\ req[p].pw \in Nat
    BY <1>3 DEF LoginCommit, LockInv, RequestInv, LoggingIn, Request
  <2>2. NewSession(req[p]) \in Session /\ NewSession(req[p]).user \in Users /\ NewSession(req[p]).gen > 0
    BY <2>1 DEF NewSession, Session, Account
  <2>3. \A s \in req[p].rows : session[s].state # "unused"
    BY DEF LockInv, RowLockInv
  <2>4. ASSUME NEW s \in Sids
        PROVE  /\ session'[s] \in Session
               /\ session'[s].state # "unused" => session'[s].user \in Users /\ session'[s].gen > 0
    BY <1>3, <2>2, <2>3 DEF LoginCommit, Session
  <2>5. session' \in [Sids -> Session]
    BY <1>3, <2>4 DEF LoginCommit
  <2>6. req' \in [Requests -> Request]
    BY <1>0, <1>3 DEF LoginCommit, Done
  <2>7. QED
    BY <1>3, <2>4, <2>5, <2>6 DEF LoginCommit
<1>4. ASSUME NEW S \in SUBSET Sids, Revoke(S), \A s \in S : session[s].state # "unused"
      PROVE  /\ session' \in [Sids -> Session]
             /\ \A s \in Sids : session'[s].state # "unused" =>
                    session'[s].user \in Users /\ session'[s].gen > 0
  BY <1>4 DEF Revoke, Session
<1>5. ASSUME NEW p \in Requests, Done(p) PROVE req' \in [Requests -> Request]
  BY <1>0, <1>5 DEF Done
<1>6. ASSUME NEW p \in Requests, NEW S \in SUBSET Sids,
             NEW pc \in {"change_locked", "change_commit", "update_commit", "revoke_row"}
      PROVE  /\ req' = [req EXCEPT ![p].pc = pc] => req' \in [Requests -> Request]
             /\ req' = [req EXCEPT ![p].pc = pc, ![p].rows = S] => req' \in [Requests -> Request]
  <2>1. [req[p] EXCEPT !.pc = pc] \in Request /\ [req[p] EXCEPT !.pc = pc, !.rows = S] \in Request
    BY DEF Request
  <2>2. QED
    BY <2>1
<1>7. ASSUME NEW p \in Requests, RefreshCommit(p) PROVE TypeOK'
  <2> req[p].sid \in Sids
    BY <1>7 DEF LockInv, RequestInv, RefreshCommit
  <2>1. CASE ~Live(req[p].sid) /\ UNCHANGED session
    BY <1>5, <1>7, <2>1 DEF RefreshCommit
  <2>2. CASE Live(req[p].sid) /\ Revoke({req[p].sid})
    <3>1. \A s \in {req[p].sid} : session[s].state # "unused"
      BY <2>2 DEF Live, Open
    <3>2. QED
      BY <1>4, <1>5, <1>7, <2>2, <3>1 DEF RefreshCommit
  <2>3. CASE Live(req[p].sid) /\ session' = [session EXCEPT ![req[p].sid] = Rotated(@)]
    <3>1. Rotated(session[req[p].sid]) \in Session /\ Rotated(session[req[p].sid]).gen > 0
      BY DEF Rotated, Session
    <3>2. Rotated(session[req[p].sid]).user = session[req[p].sid].user
      BY DEF Rotated, Session
    <3>3. QED
    BY <1>5, <1>7, <2>3, <3>1, <3>2 DEF RefreshCommit, Live, Open
  <2>4. QED
    BY <1>7, <2>1, <2>2, <2>3 DEF RefreshCommit
<1>8. ASSUME NEW p \in Requests, LogoutCommit(p) PROVE TypeOK'
  <2> req[p].sid \in Sids
    BY <1>8 DEF LockInv, RequestInv, LogoutCommit
  <2>1. CASE ~Live(req[p].sid) /\ UNCHANGED session
    BY <1>5, <1>8, <2>1 DEF LogoutCommit
  <2>2. CASE Live(req[p].sid) /\ Revoke({req[p].sid})
    <3>1. \A s \in {req[p].sid} : session[s].state # "unused"
      BY <2>2 DEF Live, Open
    <3>2. QED
      BY <1>4, <1>5, <1>8, <2>2, <3>1 DEF LogoutCommit
  <2>3. QED
    BY <1>8, <2>1, <2>2 DEF LogoutCommit
<1>9. ASSUME NEW p \in Requests, ChangeLock(p) \/ ChangeRevoke(p) \/ UpdateRevoke(p) PROVE TypeOK'
  <2>1. Revocable(p) \in SUBSET Sids
    BY DEF Revocable, OpenRows
  <2>2. CASE ChangeLock(p)
    BY <1>6, <2>1, <2>2 DEF ChangeLock, Goto
  <2>3. CASE ChangeRevoke(p)
    BY <1>6, <2>1, <2>3 DEF ChangeRevoke
  <2>4. CASE UpdateRevoke(p)
    BY <1>6, <2>1, <2>4 DEF UpdateRevoke
  <2>5. QED
    BY <1>9, <2>2, <2>3, <2>4
<1>10. ASSUME NEW p \in Requests, Revoke(req[p].rows)
       PROVE  /\ session' \in [Sids -> Session]
              /\ \A s \in Sids : session'[s].state # "unused" =>
                     session'[s].user \in Users /\ session'[s].gen > 0
  <2>1. req[p].rows \in SUBSET Sids
    BY DEF Request
  <2>2. \A s \in req[p].rows : session[s].state # "unused"
    BY DEF LockInv, RowLockInv
  <2>3. QED
    BY <1>4, <1>10, <2>1, <2>2
<1>11. ASSUME NEW p \in Requests, ChangeCommit(p) PROVE TypeOK'
  <2>0. \A u \in Users : [account[u] EXCEPT !.pw = @ + 1] \in Account
    BY DEF Account
  <2>1. account' \in [Users -> Account]
    BY <1>11, <2>0 DEF ChangeCommit
  <2>2. QED
    BY <1>5, <1>10, <1>11, <2>1 DEF ChangeCommit
<1>12. ASSUME NEW p \in Requests, UpdateCommit(p) PROVE TypeOK'
  <2>1. ASSUME NEW u \in Users PROVE Patched(account[u], req[p].patch) \in Account
    <3>1. /\ account[u].active \in BOOLEAN /\ account[u].pw \in Nat
          /\ account[u].epoch \in Nat /\ account[u].reset \in Nat
      BY DEF Account
    <3> DEFINE sets == req[p].patch \cap {"activate", "deactivate"}
    <3>2. (IF sets = {} THEN account[u].active ELSE "activate" \in sets) \in BOOLEAN
      <4>1. ("activate" \in sets) \in BOOLEAN
        OBVIOUS
      <4>2. CASE sets = {}
        BY <3>1, <4>2, Zenon
      <4>3. CASE sets # {}
        BY <4>1, <4>3, Zenon
      <4>4. QED
        BY <4>2, <4>3
    <3>3. (IF "password" \in req[p].patch THEN account[u].pw + 1 ELSE account[u].pw) \in Nat
      BY <3>1
    <3>4. (IF sets = {} THEN account[u].epoch ELSE account[u].epoch + 1) \in Nat
      BY <3>1
    <3>5. (IF "password" \in req[p].patch
           THEN IF "password" \in req[p].patch THEN account[u].pw + 1 ELSE account[u].pw
           ELSE account[u].reset) \in Nat
      BY <3>1
    <3>6. QED
      BY <3>2, <3>3, <3>4, <3>5, Zenon DEF Patched, Account
  <2>2. account' \in [Users -> Account]
    BY <1>12, <2>1 DEF UpdateCommit
  <2>3. QED
    BY <1>5, <1>10, <1>12, <2>2 DEF UpdateCommit
<1>13. ASSUME NEW p \in Requests, RevokeLock(p) PROVE TypeOK'
  <2>1. {req[p].sid} \in SUBSET Sids
    BY <1>13 DEF LockInv, RequestInv, RevokeLock
  <2>2. QED
    BY <1>5, <1>6, <1>13, <2>1 DEF RevokeLock
<1>14. ASSUME NEW p \in Requests, RevokeCommit(p) PROVE TypeOK'
  BY <1>5, <1>10, <1>14 DEF RevokeCommit
<1>15. ASSUME NEW p \in Requests, Abort(p) \/ DeadlockAbort(p) PROVE TypeOK'
  BY <1>5, <1>15 DEF Abort, DeadlockAbort
<1>16. CASE Tick
  BY <1>16 DEF Tick
<1>17. CASE UNCHANGED vars
  BY <1>17 DEF vars
<1>18. QED
  BY <1>1, <1>2, <1>3, <1>7, <1>8, <1>9, <1>11, <1>12, <1>13, <1>14, <1>15, <1>16, <1>17
     DEF Next, Advance
-----------------------------------------------------------------------------
(* The locks.                                                              *)

UpdatePcs == {"update", "update_commit"}
CommitPcs == {"change_commit", "update_commit"}
HolderPcs == {"refresh", "logout", "change_locked", "change_commit", "update", "update_commit"}

\* A step of p that leaves the session table alone keeps the lock invariant
\* when the record r it moves to is sound.
LEMMA MoveStep ==
    ASSUME TypeOK, LockInv, NEW p \in Requests, NEW r \in Request,
           req' = [req EXCEPT ![p] = r], UNCHANGED session,
           r.pc # "idle" => r.user \in Users,
           r.pc \in UpdatePcs => r.sid = None,
           r.pc \notin {"idle"} \cup UpdatePcs => r.sid \in Sids,
           r.pc \in {"login", "login_flush"} =>
               /\ session[r.sid].state = "unused"
               /\ \A q \in Requests : q # p /\ LoggingIn(q) => req[q].sid # r.sid,
           r.pc \in HolderPcs => \A q \in Requests : q # p => ~HoldsUser(q, r.user),
           \A q \in Requests : q # p => r.rows \cap req[q].rows = {},
           \A s \in r.rows : session[s].state \in {"open", "revoked"},
           r.pc \in CommitPcs => OpenRows(r.user) \ {r.sid} \subseteq r.rows
    PROVE  LockInv'
<1>1. req'[p] = r /\ \A q \in Requests : q # p => req'[q] = req[q]
  BY DEF TypeOK
<1>2. RequestInv'
  BY <1>1 DEF LockInv, RequestInv, LoggingIn, UpdatePcs
<1>3. FreshSids'
  BY <1>1 DEF LockInv, FreshSids, LoggingIn
<1>4. UserLockInv'
  BY <1>1 DEF LockInv, UserLockInv, HoldsUser, HolderPcs
<1>5. RowLockInv'
  BY <1>1 DEF LockInv, RowLockInv
<1>6. CommitInv'
  BY <1>1 DEF LockInv, CommitInv, Revocable, OpenRows, Open, CommitPcs
<1>7. QED
  BY <1>2, <1>3, <1>4, <1>5, <1>6 DEF LockInv

\* A step that ends the transaction of p keeps it when the rows it writes are
\* locked by nobody else, only a login inserts, and a new open session belongs
\* to an account nobody else holds.
LEMMA DoneStep ==
    ASSUME TypeOK, LockInv, NEW p \in Requests, Done(p), session' \in [Sids -> Session],
           \A s \in Sids : \A q \in Requests :
               q # p /\ s \in req[q].rows => session'[s] = session[s],
           \A s \in Sids : session[s].state = "unused" /\ session'[s].state # "unused" =>
               LoggingIn(p) /\ s = req[p].sid,
           \A s \in Sids : session'[s].state = "open" =>
               \/ session[s].state = "open" /\ session'[s].user = session[s].user
               \/ \A q \in Requests : q # p => ~HoldsUser(q, session'[s].user)
    PROVE  LockInv'
<1>1. req'[p] = Idle /\ \A q \in Requests : q # p => req'[q] = req[q]
  BY DEF TypeOK, Done
<1>2. RequestInv'
  BY <1>1 DEF LockInv, RequestInv, FreshSids, LoggingIn, Idle
<1>3. FreshSids'
  BY <1>1 DEF LockInv, FreshSids, LoggingIn, Idle
<1>4. UserLockInv'
  BY <1>1 DEF LockInv, UserLockInv, HoldsUser, Idle
<1>5. RowLockInv'
  <2>1. \A q \in Requests : req[q].rows \subseteq Sids
    BY DEF TypeOK, Request
  <2>2. QED
    BY <1>1, <2>1 DEF LockInv, RowLockInv, Idle
<1>6. CommitInv'
  BY <1>1 DEF LockInv, CommitInv, Revocable, OpenRows, Open, HoldsUser, Idle
<1>7. QED
  BY <1>2, <1>3, <1>4, <1>5, <1>6 DEF LockInv

\* Every step keeps the locks with the requests that took them.
LEMMA LockStep == TypeOK /\ LockInv /\ [Next]_vars => LockInv'
<1> SUFFICES ASSUME TypeOK, LockInv, [Next]_vars PROVE LockInv'
  OBVIOUS
<1> USE NoneAssumption, BoundAssumption
<1>0. /\ Idle \in Request
      /\ \A p \in Requests : req[p] \in Request
      /\ \A s \in Sids : session[s] \in Session
      /\ \A u \in Users : account[u] \in Account
      /\ \A s \in Sids : session[s].state # "unused" => session[s].user \in Users
  BY DEF TypeOK, Request, Idle
<1>1. ASSUME NEW p \in Requests, Begin(p) PROVE LockInv'
  <2>1. ASSUME NEW u \in Users, NEW s \in Sids, LoginCheck(p, u, s) PROVE LockInv'
    <3> DEFINE r == [Idle EXCEPT !.pc = "login", !.user = u, !.sid = s, !.pw = account[u].pw]
    <3>1. r \in Request /\ r.pc = "login" /\ r.user = u /\ r.sid = s /\ r.rows = {}
      BY <1>0 DEF Idle, Request, Account
    <3>2. req' = [req EXCEPT ![p] = r] /\ UNCHANGED session
      BY <2>1 DEF LoginCheck, Start
    <3>3. session[s].state = "unused" /\ \A q \in Requests : req[q].sid # s
      BY <2>1 DEF LoginCheck
    <3> HIDE DEF r
    <3>4. QED
      BY <3>1, <3>2, <3>3, MoveStep DEF UpdatePcs, CommitPcs, HolderPcs
  <2>2. ASSUME NEW s \in Sids, NEW g \in 1 .. session[s].gen, RefreshLock(p, s, g) PROVE LockInv'
    <3> DEFINE r == [Idle EXCEPT !.pc = "refresh", !.user = session[s].user, !.sid = s, !.tok = g]
    <3>0. session[s].user \in Users /\ g \in Nat /\ UserFree(session[s].user)
      BY <1>0, <2>2 DEF RefreshLock, Session
    <3>1. r \in Request /\ r.pc = "refresh" /\ r.user = session[s].user /\ r.sid = s /\ r.rows = {}
      BY <1>0, <3>0 DEF Idle, Request
    <3>2. req' = [req EXCEPT ![p] = r] /\ UNCHANGED session
      BY <2>2 DEF RefreshLock, Start
    <3> HIDE DEF r
    <3>4. QED
      BY <3>0, <3>1, <3>2, MoveStep DEF UpdatePcs, CommitPcs, HolderPcs, UserFree
  <2>3. ASSUME NEW s \in Sids, LogoutLock(p, s) PROVE LockInv'
    <3> DEFINE r == [Idle EXCEPT !.pc = "logout", !.user = session[s].user, !.sid = s]
    <3>0. session[s].user \in Users /\ UserFree(session[s].user)
      BY <1>0, <2>3 DEF LogoutLock
    <3>1. r \in Request /\ r.pc = "logout" /\ r.user = session[s].user /\ r.sid = s /\ r.rows = {}
      BY <1>0, <3>0 DEF Idle, Request
    <3>2. req' = [req EXCEPT ![p] = r] /\ UNCHANGED session
      BY <2>3 DEF LogoutLock, Start
    <3> HIDE DEF r
    <3>4. QED
      BY <3>0, <3>1, <3>2, MoveStep DEF UpdatePcs, CommitPcs, HolderPcs, UserFree
  <2>4. ASSUME NEW s \in Sids, ChangeAuthorize(p, s) PROVE LockInv'
    <3> DEFINE r == [Idle EXCEPT !.pc = "change", !.user = session[s].user, !.sid = s,
                                 !.pw = account[session[s].user].pw]
    <3>0. session[s].user \in Users
      BY <1>0, <2>4 DEF ChangeAuthorize, Authorized, Live, Open
    <3>1. r \in Request /\ r.pc = "change" /\ r.user = session[s].user /\ r.sid = s /\ r.rows = {}
      BY <1>0, <3>0 DEF Idle, Request, Account
    <3>2. req' = [req EXCEPT ![p] = r] /\ UNCHANGED session
      BY <2>4 DEF ChangeAuthorize, Start
    <3> HIDE DEF r
    <3>4. QED
      BY <3>0, <3>1, <3>2, MoveStep DEF UpdatePcs, CommitPcs, HolderPcs
  <2>5. ASSUME NEW u \in Users, NEW patch \in Patches, UpdateLock(p, u, patch) PROVE LockInv'
    <3> DEFINE r == [Idle EXCEPT !.pc = "update", !.user = u, !.patch = patch]
    <3>1. r \in Request /\ r.pc = "update" /\ r.user = u /\ r.sid = None /\ r.rows = {}
      BY <1>0 DEF Idle, Request
    <3>2. req' = [req EXCEPT ![p] = r] /\ UNCHANGED session /\ UserFree(u)
      BY <2>5 DEF UpdateLock, Start
    <3> HIDE DEF r
    <3>4. QED
      BY <3>1, <3>2, MoveStep DEF UpdatePcs, CommitPcs, HolderPcs, UserFree
  <2>6. ASSUME NEW s \in Sids, NEW t \in Sids, RevokeAuthorize(p, s, t) PROVE LockInv'
    <3> DEFINE r == [Idle EXCEPT !.pc = "revoke", !.user = session[s].user, !.sid = t]
    <3>0. session[s].user \in Users
      BY <1>0, <2>6 DEF RevokeAuthorize, Authorized, Live, Open
    <3>1. r \in Request /\ r.pc = "revoke" /\ r.user = session[s].user /\ r.sid = t /\ r.rows = {}
      BY <1>0, <3>0 DEF Idle, Request
    <3>2. req' = [req EXCEPT ![p] = r] /\ UNCHANGED session
      BY <2>6 DEF RevokeAuthorize, Start
    <3> HIDE DEF r
    <3>4. QED
      BY <3>0, <3>1, <3>2, MoveStep DEF UpdatePcs, CommitPcs, HolderPcs
  <2>7. QED
    BY <1>1, <2>1, <2>2, <2>3, <2>4, <2>5, <2>6 DEF Begin
<1>2. ASSUME NEW p \in Requests, LoginPurge(p) PROVE LockInv'
  <2> DEFINE r == [req[p] EXCEPT !.pc = "login_flush", !.rows = Expired, !.exp = now + SessionTtl]
  <2>1. req[p].user \in Users /\ req[p].sid \in Sids /\ session[req[p].sid].state = "unused"
    BY <1>2 DEF LoginPurge, LockInv, RequestInv, LoggingIn
  <2>2. \A q \in Requests : q # p /\ LoggingIn(q) => req[q].sid # req[p].sid
    BY <1>2 DEF LoginPurge, LockInv, FreshSids, LoggingIn
  <2>3. /\ Expired \in SUBSET Sids /\ now + SessionTtl \in Nat
        /\ \A s \in Expired : session[s].state \in {"open", "revoked"}
    BY DEF Expired, TypeOK
  <2>7. \A q \in Requests : Expired \cap req[q].rows = {}
    BY <1>2 DEF LoginPurge, RowsFree
  <2>4. /\ r \in Request /\ r.pc = "login_flush" /\ r.user = req[p].user
        /\ r.sid = req[p].sid /\ r.rows = Expired
    BY <1>0, <2>3 DEF Request
  <2>5. req' = [req EXCEPT ![p] = r] /\ UNCHANGED session
    BY <1>2 DEF LoginPurge, TypeOK
  <2> HIDE DEF r
  <2>8. /\ \A q \in Requests : q # p => r.rows \cap req[q].rows = {}
        /\ \A s \in r.rows : session[s].state \in {"open", "revoked"}
    BY <2>3, <2>4, <2>7
  <2>9. /\ r.user \in Users /\ r.sid \in Sids /\ session[r.sid].state = "unused"
        /\ \A q \in Requests : q # p /\ LoggingIn(q) => req[q].sid # r.sid
        /\ r.pc \notin UpdatePcs /\ r.pc \notin HolderPcs /\ r.pc \notin CommitPcs
    BY <2>1, <2>2, <2>4 DEF UpdatePcs, CommitPcs, HolderPcs
  <2>10. QED
    BY <2>4, <2>5, <2>8, <2>9, MoveStep
<1>3. ASSUME NEW p \in Requests, ChangeLock(p) PROVE LockInv'
  <2> DEFINE r == [req[p] EXCEPT !.pc = "change_locked"]
  <2>1. req[p].user \in Users /\ req[p].sid \in Sids /\ UserFree(req[p].user)
    BY <1>3 DEF ChangeLock, LockInv, RequestInv
  <2>2. /\ r \in Request /\ r.pc = "change_locked" /\ r.user = req[p].user
        /\ r.sid = req[p].sid /\ r.rows = req[p].rows
    BY <1>0 DEF Request
  <2>3. req' = [req EXCEPT ![p] = r] /\ UNCHANGED session
    BY <1>3 DEF ChangeLock, Goto
  <2>4. /\ \A q \in Requests : q # p => r.rows \cap req[q].rows = {}
        /\ \A s \in r.rows : session[s].state \in {"open", "revoked"}
    BY <2>2 DEF LockInv, RowLockInv
  <2> HIDE DEF r
  <2>5. QED
    BY <2>1, <2>2, <2>3, <2>4, MoveStep DEF UpdatePcs, CommitPcs, HolderPcs, UserFree
<1>4. ASSUME NEW p \in Requests, NEW pc \in CommitPcs, req[p].pc \in {"change_locked", "update"},
             req[p].pc = "update" <=> pc = "update_commit", RowsFree(Revocable(p)),
             req' = [req EXCEPT ![p].pc = pc, ![p].rows = Revocable(p)], UNCHANGED session
      PROVE  LockInv'
  <2> DEFINE r == [req[p] EXCEPT !.pc = pc, !.rows = Revocable(p)]
  <2>1. /\ req[p].user \in Users
        /\ pc = "update_commit" => req[p].sid = None
        /\ pc # "update_commit" => req[p].sid \in Sids
        /\ \A q \in Requests : q # p => ~HoldsUser(q, req[p].user)
    BY <1>4 DEF LockInv, RequestInv, UserLockInv, HoldsUser
  <2>2. /\ Revocable(p) \in SUBSET Sids
        /\ \A s \in Revocable(p) : session[s].state \in {"open", "revoked"}
        /\ \A q \in Requests : Revocable(p) \cap req[q].rows = {}
        /\ OpenRows(req[p].user) \ {req[p].sid} \subseteq Revocable(p)
    BY <1>4 DEF Revocable, OpenRows, Open, RowsFree
  <2>3. /\ r \in Request /\ r.pc = pc /\ r.user = req[p].user
        /\ r.sid = req[p].sid /\ r.rows = Revocable(p)
    BY <1>0, <2>2 DEF Request, CommitPcs
  <2>4. req' = [req EXCEPT ![p] = r] /\ UNCHANGED session
    BY <1>4 DEF TypeOK
  <2> HIDE DEF r
  <2>5. /\ \A q \in Requests : q # p => r.rows \cap req[q].rows = {}
        /\ \A s \in r.rows : session[s].state \in {"open", "revoked"}
        /\ OpenRows(r.user) \ {r.sid} \subseteq r.rows
    BY <2>2, <2>3
  <2>6. \A q \in Requests : q # p => ~HoldsUser(q, r.user)
    BY <2>1, <2>3
  <2>7. /\ r.pc \in CommitPcs /\ r.user \in Users
        /\ r.pc \in UpdatePcs => r.sid = None
        /\ r.pc \notin {"idle"} \cup UpdatePcs => r.sid \in Sids
        /\ r.pc \notin {"login", "login_flush"}
    BY <2>1, <2>3 DEF CommitPcs, UpdatePcs
  <2>8. QED
    BY <2>3, <2>4, <2>5, <2>6, <2>7, MoveStep
<1>5. ASSUME NEW p \in Requests, ChangeRevoke(p) \/ UpdateRevoke(p) PROVE LockInv'
  <2>1. CASE ChangeRevoke(p)
    BY <1>4, <2>1 DEF ChangeRevoke, CommitPcs
  <2>2. CASE UpdateRevoke(p)
    BY <1>4, <2>2 DEF UpdateRevoke, CommitPcs
  <2>3. QED
    BY <1>5, <2>1, <2>2
<1>6. ASSUME NEW p \in Requests, LoginCommit(p) PROVE LockInv'
  <2>1. LoggingIn(p) /\ req[p].user \in Users /\ req[p].sid \in Sids
    BY <1>6 DEF LoginCommit, LoggingIn, LockInv, RequestInv
  <2>2. /\ session[req[p].sid].state = "unused"
        /\ \A s \in req[p].rows : session[s].state \in {"open", "revoked"}
        /\ \A q \in Requests : \A s \in req[q].rows : q # p => s \notin req[p].rows /\ s # req[p].sid
    BY <2>1 DEF LockInv, RequestInv, RowLockInv
  <2>3. NewSession(req[p]).user = req[p].user /\ UserFree(req[p].user) /\ Done(p)
    BY <1>6 DEF LoginCommit, NewSession
  <2>4. session' \in [Sids -> Session]
    BY <1>6, TypeStep DEF TypeOK, Next, Advance
  <2>5. \A s \in Sids :
           session'[s] = IF s = req[p].sid THEN NewSession(req[p])
                         ELSE IF s \in req[p].rows THEN [session[s] EXCEPT !.state = "purged"]
                         ELSE session[s]
    BY <1>6 DEF LoginCommit
  <2>6. \A s \in req[p].rows : s \in Sids => [session[s] EXCEPT !.state = "purged"].state = "purged"
    BY <1>0 DEF Session
  <2>7. \A s \in Sids : \A q \in Requests : q # p /\ s \in req[q].rows => session'[s] = session[s]
    BY <2>2, <2>5
  <2>8. QED
    BY <2>1, <2>2, <2>3, <2>4, <2>5, <2>6, <2>7, DoneStep DEF UserFree
<1>7. ASSUME NEW p \in Requests, NEW S \in SUBSET Sids, Done(p), Revoke(S),
             \A s \in S : session[s].state # "unused",
             \A q \in Requests : q # p => S \cap req[q].rows = {}
      PROVE  LockInv'
  <2>1. \A s \in Sids : session'[s] = IF s \in S THEN [session[s] EXCEPT !.state = "revoked"] ELSE session[s]
    BY <1>7 DEF Revoke
  <2>2. \A s \in Sids : /\ [session[s] EXCEPT !.state = "revoked"].state = "revoked"
                        /\ [session[s] EXCEPT !.state = "revoked"] \in Session
    BY <1>0 DEF Session
  <2>3. session' \in [Sids -> Session]
    BY <1>0, <1>7, <2>2 DEF Revoke
  <2>4. QED
    BY <1>7, <2>1, <2>2, <2>3, DoneStep
<1>8. ASSUME NEW p \in Requests, Done(p), UNCHANGED session PROVE LockInv'
  BY <1>8, DoneStep DEF TypeOK
<1>9. ASSUME NEW p \in Requests, RefreshCommit(p) PROVE LockInv'
  <2>1. req[p].sid \in Sids /\ Done(p) /\ RowsFree({req[p].sid})
    BY <1>9 DEF RefreshCommit, LockInv, RequestInv
  <2>2. CASE Live(req[p].sid) /\ Revoke({req[p].sid})
    BY <1>7, <2>1, <2>2 DEF Live, Open, RowsFree
  <2>3. CASE Live(req[p].sid) /\ session' = [session EXCEPT ![req[p].sid] = Rotated(@)]
    <3>1. /\ Rotated(session[req[p].sid]).state = "open"
          /\ Rotated(session[req[p].sid]).user = session[req[p].sid].user
          /\ Rotated(session[req[p].sid]) \in Session
      BY <1>0, <2>1, <2>3 DEF Rotated, Session, Live, Open
    <3>2. session' \in [Sids -> Session] /\ session'[req[p].sid] = Rotated(session[req[p].sid])
      BY <2>1, <2>3, <3>1 DEF TypeOK
    <3>3. \A s \in Sids : s # req[p].sid => session'[s] = session[s]
      BY <2>3 DEF TypeOK
    <3>4. session[req[p].sid].state = "open" /\ \A q \in Requests : req[p].sid \notin req[q].rows
      BY <2>1, <2>3 DEF Live, Open, RowsFree
    <3>5. QED
      BY <2>1, <3>1, <3>2, <3>3, <3>4, DoneStep
  <2>4. QED
    BY <1>8, <1>9, <2>1, <2>2, <2>3 DEF RefreshCommit
<1>10. ASSUME NEW p \in Requests, LogoutCommit(p) PROVE LockInv'
  <2>1. req[p].sid \in Sids /\ Done(p) /\ RowsFree({req[p].sid})
    BY <1>10 DEF LogoutCommit, LockInv, RequestInv
  <2>2. CASE Live(req[p].sid) /\ Revoke({req[p].sid})
    BY <1>7, <2>1, <2>2 DEF Live, Open, RowsFree
  <2>3. QED
    BY <1>8, <1>10, <2>1, <2>2 DEF LogoutCommit
<1>11. ASSUME NEW p \in Requests, Revoke(req[p].rows), Done(p) PROVE LockInv'
  <2>1. /\ req[p].rows \in SUBSET Sids
        /\ \A s \in req[p].rows : session[s].state # "unused"
        /\ \A q \in Requests : q # p => req[p].rows \cap req[q].rows = {}
    BY <1>0 DEF Request, LockInv, RowLockInv
  <2>2. QED
    BY <1>7, <1>11, <2>1
<1>12. ASSUME NEW p \in Requests, ChangeCommit(p) \/ UpdateCommit(p) \/ RevokeCommit(p) PROVE LockInv'
  BY <1>11, <1>12 DEF ChangeCommit, UpdateCommit, RevokeCommit
<1>13. ASSUME NEW p \in Requests, RevokeLock(p) PROVE LockInv'
  <2> DEFINE r == [req[p] EXCEPT !.pc = "revoke_row", !.rows = {req[p].sid}]
  <2>1. req[p].user \in Users /\ req[p].sid \in Sids /\ RowsFree({req[p].sid})
    BY <1>13 DEF RevokeLock, LockInv, RequestInv
  <2>2. CASE Open(req[p].sid) /\ req' = [req EXCEPT ![p].pc = "revoke_row", ![p].rows = {req[p].sid}]
    <3>1. /\ r \in Request /\ r.pc = "revoke_row" /\ r.user = req[p].user
          /\ r.sid = req[p].sid /\ r.rows = {req[p].sid}
      BY <1>0, <2>1 DEF Request
    <3>2. req' = [req EXCEPT ![p] = r] /\ UNCHANGED session
      BY <1>13, <2>2 DEF RevokeLock, TypeOK
    <3> HIDE DEF r
    <3>3. /\ \A q \in Requests : q # p => r.rows \cap req[q].rows = {}
          /\ \A s \in r.rows : session[s].state \in {"open", "revoked"}
      BY <2>1, <2>2, <3>1 DEF RowsFree, Open
    <3>4. QED
      BY <2>1, <3>1, <3>2, <3>3, MoveStep DEF UpdatePcs, CommitPcs, HolderPcs
  <2>3. QED
    BY <1>8, <1>13, <2>2 DEF RevokeLock
<1>14. ASSUME NEW p \in Requests, Abort(p) \/ DeadlockAbort(p) PROVE LockInv'
  BY <1>8, <1>14 DEF Abort, DeadlockAbort
<1>15. CASE Tick \/ UNCHANGED vars
  <2>1. UNCHANGED <<session, req>>
    BY <1>15 DEF Tick, vars
  <2>2. QED
    BY <2>1 DEF LockInv, RequestInv, FreshSids, LoggingIn, UserLockInv, HoldsUser, RowLockInv,
                CommitInv, Revocable, OpenRows, Open
<1>16. QED
  BY <1>1, <1>2, <1>3, <1>5, <1>6, <1>9, <1>10, <1>12, <1>13, <1>14, <1>15 DEF Next, Advance
-----------------------------------------------------------------------------
(* What a step does to the session table.                                  *)

\* The part of NoResurrection that is about revocation and expiry.
NoResurrectionAction ==
    \A s \in Sids : session[s].state # "unused" =>
        /\ session'[s].exp = session[s].exp
        /\ session[s].state = "revoked" => session'[s].state \in {"revoked", "purged"}
        /\ session[s].state = "purged" => session'[s].state = "purged"
        /\ session'[s].state = "purged" => ~Live(s)

\* No step makes a revoked or purged session valid again.
LEMMA ResurrectionStep == TypeOK /\ LockInv /\ PurgeInv /\ [Next]_vars => NoResurrectionAction
<1> SUFFICES ASSUME TypeOK, LockInv, PurgeInv, [Next]_vars PROVE NoResurrectionAction
  OBVIOUS
<1>0. \A s \in Sids : session[s] \in Session /\ session[s].exp \in Nat
  BY DEF TypeOK, Session
<1>1. ASSUME UNCHANGED session PROVE NoResurrectionAction
  BY <1>1 DEF NoResurrectionAction, Live, Open
<1>2. ASSUME NEW S \in SUBSET Sids, Revoke(S), \A s \in S : session[s].state \in {"open", "revoked"}
      PROVE  NoResurrectionAction
  <2>1. \A s \in Sids : session'[s] = IF s \in S THEN [session[s] EXCEPT !.state = "revoked"] ELSE session[s]
    BY <1>2 DEF Revoke
  <2>2. \A s \in Sids : /\ [session[s] EXCEPT !.state = "revoked"].state = "revoked"
                        /\ [session[s] EXCEPT !.state = "revoked"].exp = session[s].exp
    BY <1>0 DEF Session
  <2>3. QED
    BY <1>2, <2>1, <2>2 DEF NoResurrectionAction, Live, Open
<1>3. ASSUME NEW p \in Requests, Revoke(req[p].rows) PROVE NoResurrectionAction
  <2>1. req[p].rows \in SUBSET Sids /\ \A s \in req[p].rows : session[s].state \in {"open", "revoked"}
    BY DEF TypeOK, Request, LockInv, RowLockInv
  <2>2. QED
    BY <1>2, <1>3, <2>1
<1>4. ASSUME NEW p \in Requests, LoginCommit(p) PROVE NoResurrectionAction
  <2>1. session[req[p].sid].state = "unused" /\ req[p].pc = "login_flush"
    BY <1>4 DEF LoginCommit, LockInv, RequestInv, LoggingIn
  <2>2. \A s \in req[p].rows : s \in Sids => session[s].exp <= now /\ session[s].state \in {"open", "revoked"}
    BY <2>1 DEF PurgeInv, LockInv, RowLockInv
  <2>3. \A s \in Sids :
           session'[s] = IF s = req[p].sid THEN NewSession(req[p])
                         ELSE IF s \in req[p].rows THEN [session[s] EXCEPT !.state = "purged"]
                         ELSE session[s]
    BY <1>4 DEF LoginCommit
  <2>4. \A s \in Sids : /\ [session[s] EXCEPT !.state = "purged"].state = "purged"
                        /\ [session[s] EXCEPT !.state = "purged"].exp = session[s].exp
    BY <1>0 DEF Session
  <2>5. now \in Nat
    BY DEF TypeOK
  <2>6. ASSUME NEW s \in Sids, session[s].state # "unused"
        PROVE  \/ session'[s] = session[s]
               \/ /\ session'[s].state = "purged" /\ session'[s].exp = session[s].exp
                  /\ ~Live(s)
    <3>1. s # req[p].sid
      BY <2>1, <2>6
    <3>2. CASE s \notin req[p].rows
      BY <2>3, <3>1, <3>2
    <3>3. CASE s \in req[p].rows
      <4>1. session'[s] = [session[s] EXCEPT !.state = "purged"]
        BY <2>3, <3>1, <3>3
      <4>2. ~(now < session[s].exp)
        BY <1>0, <2>2, <2>5, <3>3
      <4>3. QED
        BY <2>4, <4>1, <4>2 DEF Live
    <3>4. QED
      BY <3>2, <3>3
  <2>7. QED
    BY <2>6 DEF NoResurrectionAction, Live, Open
<1>5. ASSUME NEW p \in Requests, RefreshCommit(p) PROVE NoResurrectionAction
  <2>1. req[p].sid \in Sids
    BY <1>5 DEF RefreshCommit, LockInv, RequestInv
  <2>2. CASE Live(req[p].sid) /\ Revoke({req[p].sid})
    BY <1>2, <2>1, <2>2 DEF Live, Open
  <2>3. CASE Live(req[p].sid) /\ session' = [session EXCEPT ![req[p].sid] = Rotated(@)]
    <3>1. \A s \in Sids : Rotated(session[s]).state = session[s].state /\ Rotated(session[s]).exp = session[s].exp
      BY <1>0 DEF Rotated, Session
    <3>2. \A s \in Sids : session'[s] = IF s = req[p].sid THEN Rotated(session[s]) ELSE session[s]
      BY <2>1, <2>3 DEF TypeOK
    <3>3. QED
      BY <2>3, <3>1, <3>2 DEF NoResurrectionAction, Live, Open
  <2>4. QED
    BY <1>1, <1>5, <2>2, <2>3 DEF RefreshCommit
<1>6. ASSUME NEW p \in Requests, LogoutCommit(p) PROVE NoResurrectionAction
  <2>1. req[p].sid \in Sids
    BY <1>6 DEF LogoutCommit, LockInv, RequestInv
  <2>2. CASE Live(req[p].sid) /\ Revoke({req[p].sid})
    BY <1>2, <2>1, <2>2 DEF Live, Open
  <2>3. QED
    BY <1>1, <1>6, <2>2 DEF LogoutCommit
<1>7. ASSUME NEW p \in Requests, Begin(p) PROVE UNCHANGED session
  BY <1>7 DEF Begin, LoginCheck, RefreshLock, LogoutLock, ChangeAuthorize, UpdateLock, RevokeAuthorize
<1>8. ASSUME NEW p \in Requests,
             LoginPurge(p) \/ ChangeLock(p) \/ ChangeRevoke(p) \/ UpdateRevoke(p) \/ RevokeLock(p)
               \/ Abort(p) \/ DeadlockAbort(p)
      PROVE  UNCHANGED session
  BY <1>8 DEF LoginPurge, ChangeLock, ChangeRevoke, UpdateRevoke, RevokeLock, Abort, DeadlockAbort
<1>9. ASSUME NEW p \in Requests, ChangeCommit(p) \/ UpdateCommit(p) \/ RevokeCommit(p)
      PROVE  NoResurrectionAction
  BY <1>3, <1>9 DEF ChangeCommit, UpdateCommit, RevokeCommit
<1>10. CASE Tick \/ UNCHANGED vars
  BY <1>1, <1>10 DEF Tick, vars
<1>11. QED
  BY <1>1, <1>4, <1>5, <1>6, <1>7, <1>8, <1>9, <1>10 DEF Next, Advance

\* What a login is about to purge stays expired, because time only goes on.
LEMMA PurgeStep == TypeOK /\ LockInv /\ PurgeInv /\ [Next]_vars => PurgeInv'
<1> SUFFICES ASSUME TypeOK, LockInv, PurgeInv, [Next]_vars,
                    NEW p \in Requests, req'[p].pc = "login_flush",
                    NEW s \in req'[p].rows
             PROVE  session'[s].exp <= now'
  BY DEF PurgeInv
<1>0. now \in Nat /\ now' \in Nat /\ now <= now'
  <2>0. now \in Nat
    BY DEF TypeOK
  <2>1. ASSUME NEW q \in Requests, Begin(q) PROVE now' = now
    BY <2>1 DEF Begin, LoginCheck, RefreshLock, LogoutLock, ChangeAuthorize, UpdateLock, RevokeAuthorize
  <2>2. ASSUME NEW q \in Requests, Advance(q) PROVE now' = now
    BY <2>2 DEF Advance, LoginPurge, LoginCommit, RefreshCommit, LogoutCommit, ChangeLock, ChangeRevoke,
         ChangeCommit, UpdateRevoke, UpdateCommit, RevokeLock, RevokeCommit
  <2>3. ASSUME NEW q \in Requests, Abort(q) \/ DeadlockAbort(q) PROVE now' = now
    BY <2>3 DEF Abort, DeadlockAbort
  <2>4. CASE Tick
    BY <2>0, <2>4 DEF Tick
  <2>5. CASE UNCHANGED vars
    BY <2>0, <2>5 DEF vars
  <2>6. QED
    BY <2>0, <2>1, <2>2, <2>3, <2>4, <2>5 DEF Next
<1>1. CASE LoginPurge(p)
  <2>1. s \in Expired /\ UNCHANGED <<session, now>>
    BY <1>1 DEF LoginPurge, TypeOK
  <2>2. QED
    BY <2>1 DEF Expired
<1>2. CASE req'[p] = req[p]
  <2>1. /\ s \in Sids /\ session[s].exp <= now /\ session[s].state \in {"open", "revoked"}
    BY <1>2 DEF PurgeInv, LockInv, RowLockInv, TypeOK, Request
  <2>2. session'[s].exp = session[s].exp /\ session[s].exp \in Nat
    BY <2>1, ResurrectionStep DEF NoResurrectionAction, TypeOK, Session
  <2>3. QED
    BY <1>0, <2>1, <2>2
<1>3. ASSUME NEW q \in Requests, Begin(q) \/ Advance(q) \/ Abort(q) \/ DeadlockAbort(q),
             ~LoginPurge(p)
      PROVE  req'[p] = req[p]
  <2>1. CASE q # p
    BY <1>3, <2>1 DEF TypeOK, Begin, Advance, LoginCheck, RefreshLock, LogoutLock, ChangeAuthorize,
         UpdateLock, RevokeAuthorize, LoginPurge, LoginCommit, RefreshCommit, LogoutCommit, ChangeLock,
         ChangeRevoke, ChangeCommit, UpdateRevoke, UpdateCommit, RevokeLock, RevokeCommit, Abort,
         DeadlockAbort, Start, Goto, Done
  <2>2. CASE q = p
    <3>1. req \in [Requests -> Request] /\ Idle.pc = "idle"
      BY DEF TypeOK, Idle
    <3>2. CASE Begin(p)
      <4>1. req'[p].pc \in {"login", "refresh", "logout", "change", "update", "revoke"}
        BY <3>1, <3>2 DEF Begin, LoginCheck, RefreshLock, LogoutLock, ChangeAuthorize,
             UpdateLock, RevokeAuthorize, Start, Idle
      <4>2. QED
        BY <4>1
    <3>3. CASE Advance(p) \/ Abort(p) \/ DeadlockAbort(p)
      <4>1. \/ req' = [req EXCEPT ![p] = Idle]
            \/ req' = [req EXCEPT ![p].pc = "change_locked"]
            \/ \E S : req' = [req EXCEPT ![p].pc = "change_commit", ![p].rows = S]
            \/ \E S : req' = [req EXCEPT ![p].pc = "update_commit", ![p].rows = S]
            \/ \E S : req' = [req EXCEPT ![p].pc = "revoke_row", ![p].rows = S]
        BY <1>3, <3>3 DEF Advance, LoginCommit, RefreshCommit, LogoutCommit, ChangeLock,
             ChangeRevoke, ChangeCommit, UpdateRevoke, UpdateCommit, RevokeLock, RevokeCommit, Abort,
             DeadlockAbort, Goto, Done
      <4>2. req'[p].pc # "login_flush"
        BY <3>1, <4>1 DEF Request
      <4>3. QED
        BY <4>2
    <3>4. QED
      BY <1>3, <2>2, <3>2, <3>3
  <2>3. QED
    BY <2>1, <2>2
<1>4. CASE Tick \/ UNCHANGED vars
  BY <1>2, <1>4 DEF Tick, vars
<1>5. QED
  BY <1>1, <1>2, <1>3, <1>4 DEF Next
-----------------------------------------------------------------------------
(* Rotations.                                                              *)

\* A token of s is exchanged by the transaction that rotates it.
Exchanged(s) ==
    /\ Live(s)
    /\ \E p \in Requests : req[p].pc = "refresh" /\ req[p].sid = s /\ req[p].tok = session[s].gen

\* What keeps the owner of every session, and its tokens unless one is exchanged.
OwnersStay ==
    \A s \in Sids : session[s].state # "unused" =>
        /\ session'[s].state # "unused" /\ session'[s].user = session[s].user
        /\ session'[s].gen # session[s].gen => Exchanged(s)

\* Every step does.
LEMMA OwnersStep == TypeOK /\ LockInv /\ [Next]_vars => OwnersStay
<1> SUFFICES ASSUME TypeOK, LockInv, [Next]_vars PROVE OwnersStay
  OBVIOUS
<1>0. \A s \in Sids : session[s] \in Session
  BY DEF TypeOK
<1>1. ASSUME UNCHANGED session PROVE OwnersStay
  BY <1>1 DEF OwnersStay
<1>2. ASSUME NEW S, Revoke(S) PROVE OwnersStay
  <2>1. \A s \in Sids : session'[s] \in {session[s], [session[s] EXCEPT !.state = "revoked"]}
    BY <1>2 DEF Revoke
  <2>2. \A s \in Sids : LET row == [session[s] EXCEPT !.state = "revoked"] IN
            row.state = "revoked" /\ row.user = session[s].user /\ row.gen = session[s].gen
    BY <1>0 DEF Session
  <2>3. QED
    BY <2>1, <2>2 DEF OwnersStay
<1>3. ASSUME NEW p \in Requests, LoginCommit(p) PROVE OwnersStay
  <2>1. session[req[p].sid].state = "unused"
    BY <1>3 DEF LoginCommit, LockInv, RequestInv, LoggingIn
  <2>2. \A s \in Sids : s # req[p].sid =>
            session'[s] \in {session[s], [session[s] EXCEPT !.state = "purged"]}
    BY <1>3 DEF LoginCommit
  <2>3. \A s \in Sids : LET row == [session[s] EXCEPT !.state = "purged"] IN
            row.state = "purged" /\ row.user = session[s].user /\ row.gen = session[s].gen
    BY <1>0 DEF Session
  <2>4. QED
    BY <2>1, <2>2, <2>3 DEF OwnersStay
<1>4. ASSUME NEW p \in Requests, RefreshCommit(p) PROVE OwnersStay
  <2>1. req[p].sid \in Sids /\ req[p].pc = "refresh"
    BY <1>4 DEF RefreshCommit, LockInv, RequestInv
  <2>2. CASE /\ Live(req[p].sid) /\ req[p].tok = session[req[p].sid].gen
             /\ session' = [session EXCEPT ![req[p].sid] = Rotated(@)]
    <3>1. \A s \in Sids : /\ Rotated(session[s]).user = session[s].user
                          /\ Rotated(session[s]).state = session[s].state
      BY <1>0 DEF Rotated, Session
    <3>2. \A s \in Sids : session'[s] = IF s = req[p].sid THEN Rotated(session[s]) ELSE session[s]
      BY <2>1, <2>2 DEF TypeOK
    <3>3. Exchanged(req[p].sid)
      BY <2>1, <2>2 DEF Exchanged
    <3>4. QED
      BY <3>1, <3>2, <3>3 DEF OwnersStay
  <2>3. QED
    BY <1>1, <1>2, <1>4, <2>2 DEF RefreshCommit
<1>5. ASSUME NEW p \in Requests,
             LogoutCommit(p) \/ ChangeCommit(p) \/ UpdateCommit(p) \/ RevokeCommit(p)
      PROVE  OwnersStay
  BY <1>1, <1>2, <1>5 DEF LogoutCommit, ChangeCommit, UpdateCommit, RevokeCommit
<1>6. ASSUME NEW p \in Requests, Begin(p) PROVE UNCHANGED session
  BY <1>6 DEF Begin, LoginCheck, RefreshLock, LogoutLock, ChangeAuthorize, UpdateLock, RevokeAuthorize
<1>7. ASSUME NEW p \in Requests,
             LoginPurge(p) \/ ChangeLock(p) \/ ChangeRevoke(p) \/ UpdateRevoke(p) \/ RevokeLock(p)
               \/ Abort(p) \/ DeadlockAbort(p)
      PROVE  UNCHANGED session
  BY <1>7 DEF LoginPurge, ChangeLock, ChangeRevoke, UpdateRevoke, RevokeLock, Abort, DeadlockAbort
<1>8. CASE Tick \/ UNCHANGED vars
  BY <1>1, <1>8 DEF Tick, vars
<1>9. QED
  BY <1>1, <1>3, <1>4, <1>5, <1>6, <1>7, <1>8 DEF Next, Advance

\* The account a rotation has locked stays active, because whoever changes it locks it.
LEMMA RefreshStep == TypeOK /\ LockInv /\ RefreshInv /\ [Next]_vars => RefreshInv'
<1> SUFFICES ASSUME TypeOK, LockInv, RefreshInv, [Next]_vars,
                    NEW p \in Requests, req'[p].pc = "refresh"
             PROVE  /\ session'[req'[p].sid].state # "unused"
                    /\ session'[req'[p].sid].user = req'[p].user
                    /\ account'[req'[p].user].active
  BY DEF RefreshInv
<1>1. CASE \E s \in Sids : \E g \in 1 .. session[s].gen : RefreshLock(p, s, g)
  <2>1. PICK s \in Sids : \E g \in 1 .. session[s].gen : RefreshLock(p, s, g)
    BY <1>1
  <2>2. /\ session[s].state # "unused" /\ account[session[s].user].active
        /\ UNCHANGED <<account, session>>
        /\ \E g : req'[p] = [Idle EXCEPT !.pc = "refresh", !.user = session[s].user, !.sid = s,
                                         !.tok = g]
    BY <2>1 DEF RefreshLock, AccountOk, Start, TypeOK
  <2>3. req'[p].sid = s /\ req'[p].user = session[s].user
    BY <2>2 DEF Idle
  <2>4. QED
    BY <2>2, <2>3
<1>2. CASE req'[p] = req[p]
  <2>1. /\ req[p].pc = "refresh" /\ req[p].sid \in Sids /\ req[p].user \in Users
        /\ session[req[p].sid].state # "unused" /\ session[req[p].sid].user = req[p].user
        /\ account[req[p].user].active
    BY <1>2 DEF RefreshInv, LockInv, RequestInv
  <2>2. session'[req[p].sid].state # "unused" /\ session'[req[p].sid].user = req[p].user
    BY <2>1, OwnersStep DEF OwnersStay
  <2>3. ASSUME NEW q \in Requests, UpdateCommit(q)
        PROVE  account'[req[p].user] = account[req[p].user]
    <3>1. req[q].user # req[p].user
      BY <2>1, <2>3 DEF UpdateCommit, LockInv, UserLockInv, HoldsUser
    <3>2. QED
      BY <2>3, <3>1 DEF UpdateCommit
  <2>4. ASSUME NEW q \in Requests, ChangeCommit(q)
        PROVE  account'[req[p].user] = account[req[p].user]
    <3>1. req[q].user # req[p].user
      BY <2>1, <2>4 DEF ChangeCommit, LockInv, UserLockInv, HoldsUser
    <3>2. QED
      BY <2>4, <3>1 DEF ChangeCommit
  <2>5. ASSUME NEW q \in Requests, Begin(q) PROVE account' = account
    BY <2>5 DEF Begin, LoginCheck, RefreshLock, LogoutLock, ChangeAuthorize, UpdateLock, RevokeAuthorize
  <2>6. ASSUME NEW q \in Requests,
               \/ LoginPurge(q) \/ LoginCommit(q) \/ RefreshCommit(q) \/ LogoutCommit(q)
               \/ ChangeLock(q) \/ ChangeRevoke(q) \/ UpdateRevoke(q) \/ RevokeLock(q)
               \/ RevokeCommit(q) \/ Abort(q) \/ DeadlockAbort(q)
        PROVE  account' = account
    BY <2>6 DEF LoginPurge, LoginCommit, RefreshCommit, LogoutCommit, ChangeLock, ChangeRevoke,
       UpdateRevoke, RevokeLock, RevokeCommit, Abort, DeadlockAbort
  <2>7. CASE Tick \/ UNCHANGED vars
    BY <1>2, <2>1, <2>2, <2>7 DEF Tick, vars
  <2>8. QED
    BY <1>2, <2>1, <2>2, <2>3, <2>4, <2>5, <2>6, <2>7 DEF Next, Advance
<1>3. ASSUME NEW q \in Requests, Begin(q) \/ Advance(q) \/ Abort(q) \/ DeadlockAbort(q), q # p
      PROVE  req'[p] = req[p]
  BY <1>3 DEF TypeOK, Begin, Advance, LoginCheck, RefreshLock, LogoutLock, ChangeAuthorize,
     UpdateLock, RevokeAuthorize, LoginPurge, LoginCommit, RefreshCommit, LogoutCommit, ChangeLock,
     ChangeRevoke, ChangeCommit, UpdateRevoke, UpdateCommit, RevokeLock, RevokeCommit, Abort,
     DeadlockAbort, Start, Goto, Done
<1>4. ASSUME Begin(p)
      PROVE  \E s \in Sids : \E g \in 1 .. session[s].gen : RefreshLock(p, s, g)
  BY <1>4 DEF TypeOK, Begin, LoginCheck, LogoutLock, ChangeAuthorize, UpdateLock, RevokeAuthorize,
     Start, Idle
<1>5. ASSUME Advance(p) \/ Abort(p) \/ DeadlockAbort(p) PROVE FALSE
  <2>1. req \in [Requests -> Request] /\ Idle.pc = "idle"
    BY DEF TypeOK, Idle
  <2>2. \/ req' = [req EXCEPT ![p] = Idle]
        \/ req' = [req EXCEPT ![p].pc = "change_locked"]
        \/ \E S, e : req' = [req EXCEPT ![p].pc = "login_flush", ![p].rows = S, ![p].exp = e]
        \/ \E S : req' = [req EXCEPT ![p].pc = "change_commit", ![p].rows = S]
        \/ \E S : req' = [req EXCEPT ![p].pc = "update_commit", ![p].rows = S]
        \/ \E S : req' = [req EXCEPT ![p].pc = "revoke_row", ![p].rows = S]
    BY <1>5 DEF Advance, LoginPurge, LoginCommit, RefreshCommit, LogoutCommit, ChangeLock,
       ChangeRevoke, ChangeCommit, UpdateRevoke, UpdateCommit, RevokeLock, RevokeCommit, Abort,
       DeadlockAbort, Goto, Done
  <2>3. req'[p].pc # "refresh"
    BY <2>1, <2>2 DEF Request
  <2>4. QED
    BY <2>3
<1>6. CASE Tick \/ UNCHANGED vars
  BY <1>2, <1>6 DEF Tick, vars
<1>7. QED
  BY <1>1, <1>2, <1>3, <1>4, <1>5, <1>6 DEF Next

\* A token is exchanged for an account that is active.
LEMMA ExchangeStep ==
    TypeOK /\ LockInv /\ RefreshInv /\ [Next]_vars =>
        \A s \in Sids : session[s].state # "unused" /\ session'[s].gen # session[s].gen =>
            Exchanged(s) /\ account[session[s].user].active
BY OwnersStep DEF OwnersStay, Exchanged, RefreshInv

-----------------------------------------------------------------------------
(* Revocation.                                                             *)

\* Every step keeps the sessions revoked that a reset or a change of activation revoked.
LEMMA SafeStep == TypeOK /\ LockInv /\ Safe /\ [Next]_vars => Safe'
<1> SUFFICES ASSUME TypeOK, LockInv, Safe, [Next]_vars PROVE Safe'
  OBVIOUS
<1>0. /\ \A u \in Users : /\ account[u].pw \in Nat /\ account[u].reset \in Nat
                          /\ account[u].epoch \in Nat /\ account[u] \in Account
      /\ \A s \in Sids : session[s] \in Session /\ session[s].born \in Nat
      /\ \A s \in Sids : Open(s) => session[s].user \in Users
      /\ \A u \in Users : account[u].reset <= account[u].pw
  BY DEF TypeOK, Account, Session, Open, Safe, ResetInv
<1>1. ASSUME UNCHANGED account,
             \A s \in Sids : session'[s].state = "open" =>
                 /\ Open(s) /\ session'[s].user = session[s].user
                 /\ session'[s].epoch = session[s].epoch /\ session'[s].born = session[s].born
      PROVE  Safe'
  BY <1>0, <1>1 DEF Safe, ResetInv, NoSessionSurvivesActivationChange, AtMostOneSurvivor,
     ResetRevokesAll, Open
<1>2. \A S \in SUBSET Sids : Revoke(S) =>
          \A s \in Sids : session'[s].state = "open" => session'[s] = session[s] /\ s \notin S /\ Open(s)
  BY <1>0 DEF Revoke, Session, Open
<1>3. \A p \in Requests : req[p].rows \in SUBSET Sids
  BY DEF TypeOK, Request
<1>4. ASSUME NEW p \in Requests, LoginCommit(p) PROVE Safe'
  <2>1. req[p].user \in Users
    BY <1>4 DEF LoginCommit, LockInv, RequestInv
  <2>2. /\ NewSession(req[p]).user = req[p].user
        /\ NewSession(req[p]).epoch = account[req[p].user].epoch
        /\ NewSession(req[p]).born = account[req[p].user].pw
    BY DEF NewSession
  <2>3. UNCHANGED account
    BY <1>4 DEF LoginCommit
  <2>4. ASSUME NEW s \in Sids, session'[s].state = "open"
        PROVE  \/ session'[s] = session[s] /\ Open(s)
               \/ /\ session'[s].user = req[p].user
                  /\ session'[s].epoch = account[req[p].user].epoch
                  /\ session'[s].born = account[req[p].user].pw
    <3>1. [session[s] EXCEPT !.state = "purged"].state = "purged"
      BY <1>0 DEF Session
    <3>2. QED
      BY <1>4, <2>2, <2>4, <3>1 DEF LoginCommit, Open
  <2>5. NoSessionSurvivesActivationChange' /\ ResetInv'
    BY <2>3, <2>4 DEF Safe, NoSessionSurvivesActivationChange, ResetInv, Open
  <2>6. AtMostOneSurvivor'
    BY <1>0, <2>1, <2>3, <2>4 DEF Safe, AtMostOneSurvivor, Open
  <2>7. ResetRevokesAll'
    BY <1>0, <2>1, <2>3, <2>4 DEF Safe, ResetRevokesAll, Open
  <2>8. QED
    BY <2>5, <2>6, <2>7 DEF Safe
<1>5. ASSUME NEW p \in Requests, NEW u \in Users, u = req[p].user,
             req[p].pc \in {"change_commit", "update_commit"}, Revoke(req[p].rows)
      PROVE  \A s \in Sids : session'[s].state = "open" =>
                 /\ session'[s] = session[s] /\ Open(s)
                 /\ session[s].user = u => s = req[p].sid
  BY <1>2, <1>3, <1>5 DEF LockInv, CommitInv, Revocable, OpenRows
<1>6. ASSUME NEW p \in Requests, ChangeCommit(p) PROVE Safe'
  <2> DEFINE u == req[p].user
  <2>1. u \in Users
    BY <1>6 DEF ChangeCommit, LockInv, RequestInv
  <2>2. \A s \in Sids : session'[s].state = "open" =>
            /\ session'[s] = session[s] /\ Open(s)
            /\ session[s].user = u => s = req[p].sid
    BY <1>5, <1>6, <2>1 DEF ChangeCommit
  <2>3. \A w \in Users : /\ account'[w].reset = account[w].reset
                         /\ account'[w].epoch = account[w].epoch
                         /\ account'[w].pw = IF w = u THEN account[w].pw + 1 ELSE account[w].pw
    BY <1>0, <1>6, <2>1 DEF ChangeCommit, Account, TypeOK
  <2>4. ResetInv'
    BY <1>0, <2>3 DEF ResetInv
  <2>5. NoSessionSurvivesActivationChange' /\ ResetRevokesAll'
    BY <1>0, <2>2, <2>3 DEF Safe, NoSessionSurvivesActivationChange, ResetRevokesAll, Open
  <2>6. AtMostOneSurvivor'
    BY <1>0, <2>2, <2>3 DEF Safe, AtMostOneSurvivor, Open
  <2>7. QED
    BY <2>4, <2>5, <2>6 DEF Safe
<1>7. ASSUME NEW p \in Requests, UpdateCommit(p) PROVE Safe'
  <2> DEFINE u == req[p].user
  <2>1. u \in Users /\ req[p].sid = None
    BY <1>7 DEF UpdateCommit, LockInv, RequestInv
  <2>2. \A s \in Sids : session'[s].state = "open" =>
            session'[s] = session[s] /\ Open(s) /\ session[s].user # u
    BY <1>5, <1>7, <2>1, NoneAssumption DEF UpdateCommit
  <2>3. \A w \in Users : w # u => account'[w] = account[w]
    BY <1>7, <2>1 DEF UpdateCommit, TypeOK
  <2>4. account'[u] = Patched(account[u], req[p].patch)
    BY <1>7, <2>1 DEF UpdateCommit, TypeOK
  <2>5. account'[u].reset <= account'[u].pw
    BY <1>0, <2>1, <2>4 DEF Patched
  <2>6. ResetInv'
    BY <1>0, <2>3, <2>5 DEF ResetInv
  <2>7. NoSessionSurvivesActivationChange' /\ ResetRevokesAll' /\ AtMostOneSurvivor'
    BY <1>0, <2>2, <2>3 DEF Safe, NoSessionSurvivesActivationChange, ResetRevokesAll,
       AtMostOneSurvivor, Open
  <2>8. QED
    BY <2>6, <2>7 DEF Safe
<1>8. ASSUME NEW p \in Requests, RefreshCommit(p) PROVE Safe'
  <2>1. req[p].sid \in Sids /\ UNCHANGED account
    BY <1>8 DEF RefreshCommit, LockInv, RequestInv
  <2>2. CASE UNCHANGED session
    BY <1>1, <2>1, <2>2 DEF Open
  <2>3. CASE Revoke({req[p].sid})
    BY <1>1, <1>2, <2>1, <2>3
  <2>4. CASE Live(req[p].sid) /\ session' = [session EXCEPT ![req[p].sid] = Rotated(@)]
    <3>1. \A s \in Sids : /\ Rotated(session[s]).user = session[s].user
                          /\ Rotated(session[s]).epoch = session[s].epoch
                          /\ Rotated(session[s]).born = session[s].born
      BY <1>0 DEF Rotated, Session
    <3>2. \A s \in Sids : session'[s] = IF s = req[p].sid THEN Rotated(session[s]) ELSE session[s]
      BY <2>1, <2>4 DEF TypeOK
    <3>3. QED
      BY <1>1, <2>1, <2>4, <3>1, <3>2 DEF Live, Open
  <2>5. QED
    BY <1>8, <2>2, <2>3, <2>4 DEF RefreshCommit
<1>9. ASSUME NEW p \in Requests, LogoutCommit(p) \/ RevokeCommit(p) PROVE Safe'
  <2>1. UNCHANGED account
    BY <1>9 DEF LogoutCommit, RevokeCommit
  <2>2. UNCHANGED session \/ \E S \in SUBSET Sids : Revoke(S)
    BY <1>3, <1>9 DEF LogoutCommit, RevokeCommit, LockInv, RequestInv
  <2>3. QED
    BY <1>1, <1>2, <2>1, <2>2 DEF Open
<1>10. ASSUME NEW p \in Requests, Begin(p) PROVE UNCHANGED <<account, session>>
  BY <1>10 DEF Begin, LoginCheck, RefreshLock, LogoutLock, ChangeAuthorize, UpdateLock, RevokeAuthorize
<1>11. ASSUME NEW p \in Requests,
              LoginPurge(p) \/ ChangeLock(p) \/ ChangeRevoke(p) \/ UpdateRevoke(p) \/ RevokeLock(p)
                \/ Abort(p) \/ DeadlockAbort(p)
       PROVE  UNCHANGED <<account, session>>
  BY <1>11 DEF LoginPurge, ChangeLock, ChangeRevoke, UpdateRevoke, RevokeLock, Abort, DeadlockAbort
<1>12. ASSUME UNCHANGED <<account, session>> PROVE Safe'
  BY <1>1, <1>12 DEF Open
<1>13. CASE Tick \/ UNCHANGED vars
  BY <1>12, <1>13 DEF Tick, vars
<1>14. QED
  BY <1>4, <1>6, <1>7, <1>8, <1>9, <1>10, <1>11, <1>12, <1>13 DEF Next, Advance

\* The inductive invariant holds throughout.
LEMMA Invariance == Spec => []IInv
<1>1. IInv /\ [Next]_vars => IInv'
  BY TypeStep, LockStep, PurgeStep, RefreshStep, SafeStep DEF IInv
<1>2. QED
  BY InitIInv, <1>1, PTL DEF Spec

\* The tables and every request keep their type, and a row that exists has an
\* owner and a refresh token.
THEOREM TypeCorrect == Spec => []TypeOK
<1>1. IInv => TypeOK
  BY DEF IInv
<1>2. QED
  BY Invariance, <1>1, PTL

\* Activation changes revoke: an open session belongs to the activation of its
\* account that is in force (update_account).
THEOREM ActivationChangeRevokes == Spec => []NoSessionSurvivesActivationChange
<1>1. IInv => NoSessionSurvivesActivationChange
  BY DEF IInv, Safe
<1>2. QED
  BY Invariance, <1>1, PTL

\* A password change leaves at most one older session open (change_my_password).
THEOREM PasswordChangeKeepsOne == Spec => []AtMostOneSurvivor
<1>1. IInv => AtMostOneSurvivor
  BY DEF IInv, Safe
<1>2. QED
  BY Invariance, <1>1, PTL

\* An administrative reset leaves no older session open (update_account).
THEOREM ResetRevokes == Spec => []ResetRevokesAll
<1>1. IInv => ResetRevokesAll
  BY DEF IInv, Safe
<1>2. QED
  BY Invariance, <1>1, PTL

\* Revocation and expiry are final, start_session purges only rows that no token can
\* use any more, and refresh_session exchanges only the newest token of a live session,
\* for an account that is active at the commit.
THEOREM RevocationIsFinal == Spec => NoResurrection
<1> DEFINE Final == \A s \in Sids : session[s].state # "unused" =>
          /\ session'[s].exp = session[s].exp
          /\ session[s].state = "revoked" => session'[s].state \in {"revoked", "purged"}
          /\ session[s].state = "purged" => session'[s].state = "purged"
          /\ session'[s].state = "purged" => ~Live(s)
          /\ session'[s].gen # session[s].gen =>
                 /\ Live(s) /\ account[session[s].user].active
                 /\ \E p \in Requests :
                        req[p].pc = "refresh" /\ req[p].sid = s /\ req[p].tok = session[s].gen
<1>1. IInv /\ [Next]_vars => Final
  BY ResurrectionStep, ExchangeStep DEF IInv, NoResurrectionAction, Exchanged
<1>2. NoResurrection <=> [][Final]_vars
  BY DEF NoResurrection
<1>3. QED
  BY Invariance, <1>1, <1>2, PTL DEF Spec
=============================================================================
