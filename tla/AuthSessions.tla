---------------------------- MODULE AuthSessions ----------------------------
(***************************************************************************)
(* Durable login sessions: app/core/auth_sessions.py with the handlers of  *)
(* app/api/auth.py and app/api/users.py that open, rotate and revoke them. *)
(*                                                                         *)
(* Handlers run in a thread pool, each in one PostgreSQL transaction at    *)
(* READ COMMITTED.  A handler is split where another transaction may come  *)
(* between two of its statements: after an unlocked read, and where it     *)
(* waits for a row lock.  Its writes become visible in its commit step.    *)
(* A definition Name_Variant is Name with one fault; no behaviour of the   *)
(* specification uses it, it shows that a property notices the fault.      *)
(***************************************************************************)
EXTENDS Naturals

CONSTANTS
    Users,      \* accounts without a second factor (MfaLogin has the others)
    Sids,       \* session ids: uuid4, never used twice
    Requests,   \* requests that may be in flight together
    None,       \* no account, no session
    SessionTtl, \* refresh_token_expire_minutes, in clock ticks
    MaxTime,    \* bound of the clock
    MaxWork     \* bound on the rotations and account changes started

ASSUME NoneAssumption == None \notin Users /\ None \notin Sids
ASSUME BoundAssumption == SessionTtl \in Nat /\ MaxTime \in Nat /\ MaxWork \in Nat

VARIABLES
    account,    \* users: is_active and a version number for password_hash
    session,    \* auth_sessions
    req,        \* the transaction each request is in
    now,        \* the wall clock
    work        \* rotations and account changes started so far

vars == <<account, session, req, now, work>>

(***************************************************************************)
(* Rows.  Ghost fields: account.epoch counts the activation changes and    *)
(* account.reset is the password version set by the last administrative    *)
(* reset; a session records the epoch and the password version at its      *)
(* commit (epoch, born) and the version that was verified (auth).          *)
(***************************************************************************)
Account == [active : BOOLEAN, pw : Nat, epoch : Nat, reset : Nat]

\* gen numbers the refresh tokens of a session: refresh_digest matches gen.
Session == [state : {"unused", "open", "revoked", "purged"},
            user : Users \cup {None}, exp : Nat, gen : Nat,
            epoch : Nat, born : Nat, auth : Nat]

\* What one PATCH /users/{uuid}/account may ask of is_active and password.
Patches == {{"password"}, {"activate"}, {"deactivate"},
            {"password", "activate"}, {"password", "deactivate"}}

Request == [pc : {"idle", "login", "login_flush", "refresh", "logout",
                  "change", "change_locked", "change_commit",
                  "update", "update_commit", "revoke", "revoke_row"},
            user : Users \cup {None}, sid : Sids \cup {None},
            tok : Nat, pw : Nat, exp : Nat,
            rows : SUBSET Sids,          \* auth_sessions rows it has locked
            patch : Patches \cup {{}}]

Unused == [state |-> "unused", user |-> None, exp |-> 0, gen |-> 0,
           epoch |-> 0, born |-> 0, auth |-> 0]

Idle == [pc |-> "idle", user |-> None, sid |-> None, tok |-> 0, pw |-> 0,
         exp |-> 0, rows |-> {}, patch |-> {}]

Init ==
    /\ account = [u \in Users |-> [active |-> TRUE, pw |-> 0, epoch |-> 0, reset |-> 0]]
    /\ session = [s \in Sids |-> Unused]
    /\ req = [p \in Requests |-> Idle]
    /\ now = 0
    /\ work = 0

-----------------------------------------------------------------------------
(* Row state and row locks.                                                *)

Open(s) == session[s].state = "open"

\* require_live_session accepts the row: there, not revoked, not expired.
Live(s) == Open(s) /\ now < session[s].exp

OpenRows(u) == {s \in Sids : Open(s) /\ session[s].user = u}

Expired == {s \in Sids : session[s].state \in {"open", "revoked"} /\ session[s].exp <= now}

HoldsUser_UpdateUnlocked(p, u) ==
    /\ req[p].pc \in {"refresh", "logout", "change_locked", "change_commit"}
    /\ req[p].user = u

HoldsUser_ChangeUnlocked(p, u) ==
    /\ req[p].pc \in {"refresh", "logout", "update", "update_commit"}
    /\ req[p].user = u

\* The users row of u is held by SELECT ... FOR UPDATE.
HoldsUser(p, u) ==
    /\ req[p].pc \in {"refresh", "logout", "change_locked", "change_commit",
                      "update", "update_commit"}
    /\ req[p].user = u

UserFree(u) == \A p \in Requests : ~HoldsUser(p, u)

RowsFree(S) == \A p \in Requests : req[p].rows \cap S = {}

Revocable_DeactivationOnly(p) ==
    IF "activate" \in req[p].patch THEN {} ELSE OpenRows(req[p].user) \ {req[p].sid}

\* What revoke_user_sessions updates for the request p.
Revocable(p) == OpenRows(req[p].user) \ {req[p].sid}

\* get_current_user with a token of session s: the account is active and the
\* session row live, neither of them locked.
Authorized(s) == Live(s) /\ account[session[s].user].active

\* refresh_session reads the account under its lock and asks that it be active.
AccountOk(u) == account[u].active

Working == work < MaxWork

Start(p, r) == req[p].pc = "idle" /\ req' = [req EXCEPT ![p] = r]

Goto(p, pc) == req' = [req EXCEPT ![p].pc = pc]

Done(p) == req' = [req EXCEPT ![p] = Idle]

Revoke(S) == session' = [s \in Sids |-> IF s \in S THEN [session[s] EXCEPT !.state = "revoked"]
                                                   ELSE session[s]]

-----------------------------------------------------------------------------
(* login, for an account without MFA: nothing is locked between the check  *)
(* of the password and the flush of last_login.                            *)

\* The password matches the hash of the row and the account is active.
\* (A request that fails here changes nothing but the event log.)
LoginCheck(p, u, s) ==
    /\ account[u].active
    /\ session[s].state = "unused"
    /\ \A q \in Requests : req[q].sid # s
    /\ Start(p, [Idle EXCEPT !.pc = "login", !.user = u, !.sid = s, !.pw = account[u].pw])
    /\ UNCHANGED <<account, session, now, work>>

\* start_session: DELETE the expired rows of every account, stamp the new one.
LoginPurge(p) ==
    /\ req[p].pc = "login"
    /\ RowsFree(Expired)
    /\ req' = [req EXCEPT ![p].pc = "login_flush", ![p].rows = Expired,
                          ![p].exp = now + SessionTtl]
    /\ UNCHANGED <<account, session, now, work>>

NewSession_NoDigest(r) ==
    [state |-> "open", user |-> r.user, exp |-> r.exp, gen |-> 0,
     epoch |-> account[r.user].epoch, born |-> account[r.user].pw, auth |-> r.pw]

\* The row start_session adds, with the digest of its first refresh token.
NewSession(r) ==
    [state |-> "open", user |-> r.user, exp |-> r.exp, gen |-> 1,
     epoch |-> account[r.user].epoch, born |-> account[r.user].pw, auth |-> r.pw]

\* The flush updates users.last_login, so it waits for a holder of that row.
LoginCommit(p) ==
    LET r == req[p] IN
    /\ r.pc = "login_flush"
    /\ UserFree(r.user)
    /\ session' = [s \in Sids |->
          IF s = r.sid THEN NewSession(r)
          ELSE IF s \in r.rows THEN [session[s] EXCEPT !.state = "purged"] ELSE session[s]]
    /\ Done(p)
    /\ UNCHANGED <<account, now, work>>

-----------------------------------------------------------------------------
(* refresh_session: FOR UPDATE on the account, then on the session.        *)

\* The token decodes (its exp is the session's) and the account is active.
RefreshLock(p, s, g) ==
    /\ session[s].state # "unused"
    /\ g \in 1 .. session[s].gen
    /\ now < session[s].exp
    /\ UserFree(session[s].user)
    /\ AccountOk(session[s].user)
    /\ Working /\ work' = work + 1
    /\ Start(p, [Idle EXCEPT !.pc = "refresh", !.user = session[s].user, !.sid = s, !.tok = g])
    /\ UNCHANGED <<account, session, now>>

Rotated_Extending(row) == [row EXCEPT !.gen = @ + 1, !.exp = @ + SessionTtl]

\* issue_tokens: a new refresh token, the expiry of the row.
Rotated(row) == [row EXCEPT !.gen = @ + 1]

\* A spent token revokes the session, the newest one is exchanged.
RefreshCommit(p) ==
    LET s == req[p].sid IN
    /\ req[p].pc = "refresh"
    /\ RowsFree({s})
    /\ \/ ~Live(s) /\ UNCHANGED session
       \/ Live(s) /\ req[p].tok # session[s].gen /\ Revoke({s})
       \/ /\ Live(s) /\ req[p].tok = session[s].gen
          /\ session' = [session EXCEPT ![s] = Rotated(@)]
    /\ Done(p)
    /\ UNCHANGED <<account, now, work>>

(* logout: any unexpired refresh token of the session will do, an inactive *)
(* account too.                                                            *)

LogoutLock(p, s) ==
    /\ session[s].state # "unused"
    /\ now < session[s].exp
    /\ UserFree(session[s].user)
    /\ Start(p, [Idle EXCEPT !.pc = "logout", !.user = session[s].user, !.sid = s])
    /\ UNCHANGED <<account, session, now, work>>

LogoutCommit(p) ==
    LET s == req[p].sid IN
    /\ req[p].pc = "logout"
    /\ RowsFree({s})
    /\ \/ ~Live(s) /\ UNCHANGED session
       \/ Live(s) /\ Revoke({s})
    /\ Done(p)
    /\ UNCHANGED <<account, now, work>>

-----------------------------------------------------------------------------
(* change_my_password, called with an access token of session s.           *)

\* get_current_user loads the account, its password hash included.
ChangeAuthorize(p, s) ==
    /\ Authorized(s)
    /\ Working /\ work' = work + 1
    /\ Start(p, [Idle EXCEPT !.pc = "change", !.user = session[s].user, !.sid = s,
                             !.pw = account[session[s].user].pw])
    /\ UNCHANGED <<account, session, now>>

\* SELECT ... FOR UPDATE returns the instance the session already holds, so
\* the current password is verified against the hash loaded before the lock.
ChangeLock(p) ==
    /\ req[p].pc = "change"
    /\ UserFree(req[p].user)
    /\ Goto(p, "change_locked")
    /\ UNCHANGED <<account, session, now, work>>

\* revoke_user_sessions(except_session_id = the caller's session)
ChangeRevoke(p) ==
    /\ req[p].pc = "change_locked"
    /\ RowsFree(Revocable(p))
    /\ req' = [req EXCEPT ![p].pc = "change_commit", ![p].rows = Revocable(p)]
    /\ UNCHANGED <<account, session, now, work>>

ChangeCommit(p) ==
    /\ req[p].pc = "change_commit"
    /\ account' = [account EXCEPT ![req[p].user].pw = @ + 1]
    /\ Revoke(req[p].rows)
    /\ Done(p)
    /\ UNCHANGED <<now, work>>

-----------------------------------------------------------------------------
(* update_account by a platform administrator; the caller and the last     *)
(* administrator check are in AdminGuard.                                  *)

UpdateLock(p, u, patch) ==
    /\ UserFree(u)
    /\ Working /\ work' = work + 1
    /\ Start(p, [Idle EXCEPT !.pc = "update", !.user = u, !.patch = patch])
    /\ UNCHANGED <<account, session, now>>

UpdateRevoke(p) ==
    /\ req[p].pc = "update"
    /\ RowsFree(Revocable(p))
    /\ req' = [req EXCEPT ![p].pc = "update_commit", ![p].rows = Revocable(p)]
    /\ UNCHANGED <<account, session, now, work>>

Patched(a, patch) ==
    LET pw == IF "password" \in patch THEN a.pw + 1 ELSE a.pw
        sets == patch \cap {"activate", "deactivate"} IN
    [active |-> IF sets = {} THEN a.active ELSE "activate" \in sets,
     pw     |-> pw,
     epoch  |-> IF sets = {} THEN a.epoch ELSE a.epoch + 1,
     reset  |-> IF "password" \in patch THEN pw ELSE a.reset]

UpdateCommit(p) ==
    /\ req[p].pc = "update_commit"
    /\ account' = [account EXCEPT ![req[p].user] = Patched(@, req[p].patch)]
    /\ Revoke(req[p].rows)
    /\ Done(p)
    /\ UNCHANGED <<now, work>>

-----------------------------------------------------------------------------
(* revoke_my_session: the owner, using session s, revokes session t.       *)

RevokeAuthorize(p, s, t) ==
    /\ Authorized(s)
    /\ session[t].user = session[s].user
    /\ Start(p, [Idle EXCEPT !.pc = "revoke", !.user = session[s].user, !.sid = t])
    /\ UNCHANGED <<account, session, now, work>>

\* SELECT ... WHERE revoked_at IS NULL FOR UPDATE; 404 when there is none.
RevokeLock(p) ==
    LET s == req[p].sid IN
    /\ req[p].pc = "revoke"
    /\ RowsFree({s})
    /\ \/ Open(s) /\ req' = [req EXCEPT ![p].pc = "revoke_row", ![p].rows = {s}]
       \/ ~Open(s) /\ Done(p)
    /\ UNCHANGED <<account, session, now, work>>

\* The event inserted with it references the users row, which must not be
\* held FOR UPDATE.
RevokeCommit(p) ==
    /\ req[p].pc = "revoke_row"
    /\ UserFree(req[p].user)
    /\ Revoke(req[p].rows)
    /\ Done(p)
    /\ UNCHANGED <<account, now, work>>

-----------------------------------------------------------------------------
(* The environment: time, failing requests, PostgreSQL's deadlock check.   *)

Tick ==
    /\ now < MaxTime
    /\ now' = now + 1
    /\ UNCHANGED <<account, session, req, work>>

\* The process or its connection dies: get_db closes, the transaction is
\* rolled back.
Abort(p) ==
    /\ req[p].pc # "idle"
    /\ Done(p)
    /\ UNCHANGED <<account, session, now, work>>

WantedRows(p) ==
    CASE req[p].pc = "login" -> Expired
      [] req[p].pc \in {"refresh", "logout", "revoke"} -> {req[p].sid}
      [] req[p].pc \in {"change_locked", "update"} -> Revocable(p)
      [] OTHER -> {}

WaitsFor(p, q) ==
    /\ p # q
    /\ \/ WantedRows(p) \cap req[q].rows # {}
       \/ /\ req[p].pc \in {"login_flush", "change", "revoke_row"}
          /\ HoldsUser(q, req[p].user)

\* p is in a set of transactions each of which waits for, and keeps waiting,
\* another of the set.
Deadlocked(p) ==
    \E D \in SUBSET Requests :
        /\ p \in D
        /\ \A q \in D : (\E r \in D : WaitsFor(q, r)) /\ (\E r \in D : WaitsFor(r, q))

DeadlockAbort(p) ==
    /\ Deadlocked(p)
    /\ Done(p)
    /\ UNCHANGED <<account, session, now, work>>

-----------------------------------------------------------------------------
Advance(p) ==
    \/ LoginPurge(p) \/ LoginCommit(p)
    \/ RefreshCommit(p) \/ LogoutCommit(p)
    \/ ChangeLock(p) \/ ChangeRevoke(p) \/ ChangeCommit(p)
    \/ UpdateRevoke(p) \/ UpdateCommit(p)
    \/ RevokeLock(p) \/ RevokeCommit(p)

Begin(p) ==
    \/ \E u \in Users, s \in Sids : LoginCheck(p, u, s)
    \/ \E s \in Sids : \E g \in 1 .. session[s].gen : RefreshLock(p, s, g)
    \/ \E s \in Sids : LogoutLock(p, s)
    \/ \E s \in Sids : ChangeAuthorize(p, s)
    \/ \E u \in Users, patch \in Patches : UpdateLock(p, u, patch)
    \/ \E s, t \in Sids : RevokeAuthorize(p, s, t)

Next ==
    \/ \E p \in Requests : Begin(p) \/ Advance(p) \/ Abort(p) \/ DeadlockAbort(p)
    \/ Tick

Spec == Init /\ [][Next]_vars

-----------------------------------------------------------------------------
(* Properties.                                                             *)

\* Every variable keeps its type, and a row that is in the table has an owner
\* and a refresh token (refresh_digest is NOT NULL).
TypeOK ==
    /\ account \in [Users -> Account]
    /\ session \in [Sids -> Session]
    /\ req \in [Requests -> Request]
    /\ now \in Nat
    /\ work \in Nat
    /\ \A s \in Sids : session[s].state # "unused" => session[s].user \in Users /\ session[s].gen > 0

\* No session outlives an activation change of its account.  A login that
\* checked the account before a deactivation may still insert a session while
\* the account is inactive; re-activation revokes it, so a session that works
\* was opened under the activation in force.
NoSessionSurvivesActivationChange ==
    \A s \in Sids : Open(s) => session[s].epoch = account[session[s].user].epoch

\* change_my_password keeps one session, the caller's: of the open sessions of
\* an account at most one was inserted before its latest password change, even
\* when two sessions change the password at the same time.
AtMostOneSurvivor ==
    \A s, t \in Sids :
        /\ Open(s) /\ Open(t)
        /\ session[s].user = session[t].user
        /\ session[s].born < account[session[s].user].pw
        /\ session[t].born < account[session[t].user].pw
        => s = t

\* update_account keeps none: no session inserted before an administrative
\* password reset is open after it, whatever change_my_password was doing.
ResetRevokesAll ==
    \A s \in Sids : Open(s) => session[s].born >= account[session[s].user].reset

\* A revoked session stays revoked until it is purged, a purged id never comes
\* back, a live session is purged by nobody, and no rotation moves the expiry.
\* A refresh token is exchanged only if it is the newest of a live session, so that
\* of two requests with one token the later exchanges nothing, and only while the
\* account is active, whatever was deactivated since the request was let in.
NoResurrection ==
    [][\A s \in Sids : session[s].state # "unused" =>
          /\ session'[s].exp = session[s].exp
          /\ session[s].state = "revoked" => session'[s].state \in {"revoked", "purged"}
          /\ session[s].state = "purged" => session'[s].state = "purged"
          /\ session'[s].state = "purged" => ~Live(s)
          /\ session'[s].gen # session[s].gen =>
                 /\ Live(s) /\ account[session[s].user].active
                 /\ \E p \in Requests :
                        req[p].pc = "refresh" /\ req[p].sid = s /\ req[p].tok = session[s].gen
       ]_vars

-----------------------------------------------------------------------------
(* What the documents say and the code does not do.                        *)

\* OPERATIONS.md:64 "Password resets and account deactivation revoke every
\* durable session for that account": no open session was authenticated with
\* a password that a reset has replaced.
NoSessionFromReplacedPassword ==
    \A s \in Sids : Open(s) => session[s].auth >= account[session[s].user].reset
=============================================================================
