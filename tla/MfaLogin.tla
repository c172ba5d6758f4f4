------------------------------ MODULE MfaLogin ------------------------------
(***************************************************************************)
(* The second factor: login and verify_login_mfa of app/api/auth.py with   *)
(* the handlers of app/api/users.py that enroll, disable and renew it.     *)
(*                                                                         *)
(* As in AuthSessions, a handler is split at its unlocked reads and where  *)
(* it waits for a row lock, and its writes become visible in its commit    *)
(* step.  The rows of user_mfa_recovery_codes are only ever locked by a    *)
(* transaction that holds the user_mfa_secrets row, and need no lock of    *)
(* their own.  A definition Name_Variant is Name with one fault.           *)
(***************************************************************************)
EXTENDS Integers, FiniteSets

CONSTANTS
    Users, Sids, Challenges, Devices, Requests,
    Codes,          \* the recovery codes of one batch (10 in the code)
    None,
    ChallengeTtl,   \* MFA_CHALLENGE_TTL_MINUTES, in ticks
    DeviceTtl,      \* trusted_device_ttl_days, in ticks
    MaxTime,        \* bound of the clock
    MaxWork         \* bound on the account operations started

ASSUME NoneAssumption == None \notin Users \cup Sids \cup Challenges \cup Devices
ASSUME BoundAssumption == ChallengeTtl \in Nat /\ DeviceTtl \in Nat /\ MaxTime \in Nat /\ MaxWork \in Nat

VARIABLES
    active,     \* users.is_active
    secret,     \* user_mfa_secrets
    codes,      \* user_mfa_recovery_codes
    challenge,  \* user_mfa_challenges
    device,     \* trusted_devices
    session,    \* the sessions opened, with the credentials spent on each
    req,        \* the transaction each request is in
    now,        \* the clock; one tick is a TOTP time-step
    work        \* account operations started so far

vars == <<active, secret, codes, challenge, device, session, req, now, work>>

(***************************************************************************)
(* Rows.  ver and batch number the TOTP secrets and the batches of codes   *)
(* an account has had; last is last_totp_counter, -1 for NULL; gen numbers *)
(* the tokens of a device; revocations (ghost) counts the times all        *)
(* devices of an account were revoked, and a device records the count at   *)
(* its commit.                                                             *)
(***************************************************************************)
Secret == [state : {"none", "pending", "enabled"}, ver : Nat, last : Int, revocations : Nat]

CodeRows == [batch : Nat, unused : SUBSET Codes]

Challenge == [state : {"unused", "open", "consumed"}, user : Users \cup {None}, exp : Nat,
              remember : BOOLEAN]

Device == [state : {"unused", "live", "revoked"}, user : Users \cup {None}, exp : Nat, gen : Nat,
           revocations : Nat]

\* What a login may spend.
Cred == ({"totp"} \X Users \X Nat \X Nat) \cup ({"code"} \X Users \X Nat \X Codes)
          \cup ({"challenge"} \X Challenges \X {0} \X {0}) \cup ({"device"} \X Devices \X Nat \X {0})

SessionRow == [state : {"unused", "open"}, creds : SUBSET Cred]

\* The operations of an account on itself; "password" is change_my_password
\* or the password part of update_account.
Ops == {"start", "enable", "regenerate", "disable", "password"}

Request == [pc : {"idle", "login", "device", "challenge", "login_flush", "verify", "verify_flush",
                  "own", "own_mfa", "own_commit", "revoke_row"},
            user : Users \cup {None}, sid : Sids \cup {None}, chal : Challenges \cup {None},
            dev : Devices \cup {None}, gen : Nat, op : Ops \cup {"none"}, at : Nat,
            rows : SUBSET Devices,      \* trusted_devices rows it has locked
            creds : SUBSET Cred]

Idle == [pc |-> "idle", user |-> None, sid |-> None, chal |-> None, dev |-> None, gen |-> 0,
         op |-> "none", at |-> 0, rows |-> {}, creds |-> {}]

Init ==
    /\ active = [u \in Users |-> TRUE]
    /\ secret = [u \in Users |-> [state |-> "none", ver |-> 0, last |-> -1, revocations |-> 0]]
    /\ codes = [u \in Users |-> [batch |-> 0, unused |-> {}]]
    /\ challenge = [c \in Challenges |->
                       [state |-> "unused", user |-> None, exp |-> 0, remember |-> FALSE]]
    /\ device = [d \in Devices |->
                    [state |-> "unused", user |-> None, exp |-> 0, gen |-> 0, revocations |-> 0]]
    /\ session = [s \in Sids |-> [state |-> "unused", creds |-> {}]]
    /\ req = [p \in Requests |-> Idle]
    /\ now = 0
    /\ work = 0

-----------------------------------------------------------------------------
(* Row locks.                                                              *)

HoldsUser(p, u) == req[p].pc \in {"own", "own_mfa", "own_commit"} /\ req[p].user = u

HoldsSecret_Unlocked(p, u) ==
    req[p].user = u /\ req[p].pc \in {"own_mfa", "own_commit"} /\ req[p].op # "password"

\* SELECT ... FOR UPDATE on user_mfa_secrets.
HoldsSecret(p, u) ==
    /\ req[p].user = u
    /\ \/ req[p].pc = "verify_flush"
       \/ req[p].pc \in {"own_mfa", "own_commit"} /\ req[p].op # "password"

HoldsChallenge(p, c) == req[p].pc \in {"verify", "verify_flush"} /\ req[p].chal = c

UserFree(u) == \A p \in Requests : ~HoldsUser(p, u)

SecretFree(u) == \A p \in Requests : ~HoldsSecret(p, u)

ChallengeFree(c) == \A p \in Requests : ~HoldsChallenge(p, c)

RowsFree(S) == \A p \in Requests : req[p].rows \cap S = {}

Start(p, r) == req[p].pc = "idle" /\ req' = [req EXCEPT ![p] = r]

Done(p) == req' = [req EXCEPT ![p] = Idle]

Fresh(s) == session[s].state = "unused" /\ \A p \in Requests : req[p].sid # s

\* uuid4 never runs out of ids, the model must not strand a request without.
ChallengesLeft ==
    Cardinality({c \in Challenges : challenge[c].state = "unused"})
      > Cardinality({p \in Requests : req[p].pc \in {"login", "device", "challenge"}})

DevicesLeft ==
    Cardinality({d \in Devices : device[d].state = "unused"})
      > Cardinality({p \in Requests : req[p].pc \in {"verify", "verify_flush"}})

Enabled(u) == secret[u].state = "enabled"

LiveDevices(u) == {d \in Devices : device[d].state = "live" /\ device[d].user = u}

-----------------------------------------------------------------------------
(* login                                                                   *)

\* The password is right and the account active, on an unlocked row.
LoginCheck(p, u, s) ==
    /\ active[u]
    /\ Fresh(s) /\ ChallengesLeft
    /\ Start(p, [Idle EXCEPT !.pc = "login", !.user = u, !.sid = s])
    /\ UNCHANGED <<active, secret, codes, challenge, device, session, now, work>>

\* An enabled secret asks for a trusted device token or a challenge.
LoginFactor(p) ==
    LET r == req[p] IN
    /\ r.pc = "login"
    /\ \/ ~Enabled(r.user) /\ req' = [req EXCEPT ![p].pc = "login_flush"]
       \/ Enabled(r.user) /\ req' = [req EXCEPT ![p].pc = "challenge", ![p].at = now]
       \/ /\ Enabled(r.user)
          /\ \E d \in Devices : \E g \in 1 .. device[d].gen :
                req' = [req EXCEPT ![p].pc = "device", ![p].dev = d, ![p].gen = g, ![p].at = now]
    /\ UNCHANGED <<active, secret, codes, challenge, device, session, now, work>>

\* _trusted_device: the row with the digest of this token, FOR UPDATE.
Trusted(r) ==
    LET d == device[r.dev] IN
    d.state = "live" /\ d.user = r.user /\ d.gen = r.gen /\ d.exp > r.at

LoginDevice(p) ==
    LET r == req[p] IN
    /\ r.pc = "device"
    /\ \/ /\ Trusted(r)
          /\ RowsFree({r.dev})
          /\ req' = [req EXCEPT ![p].pc = "login_flush", ![p].rows = {r.dev},
                                ![p].creds = {<<"device", r.dev, r.gen, 0>>}]
       \/ ~Trusted(r) /\ req' = [req EXCEPT ![p].pc = "challenge", ![p].at = now]
    /\ UNCHANGED <<active, secret, codes, challenge, device, session, now, work>>

\* _create_mfa_challenge: the row references the users row.
ChallengeCommit(p, c, remember) ==
    /\ req[p].pc = "challenge"
    /\ challenge[c].state = "unused"
    /\ UserFree(req[p].user)
    /\ challenge' = [challenge EXCEPT ![c] =
          [state |-> "open", user |-> req[p].user, exp |-> req[p].at + ChallengeTtl,
           remember |-> remember]]
    /\ Done(p)
    /\ UNCHANGED <<active, secret, codes, device, session, now, work>>

\* start_session, and _rotate_trusted_device for the device that was used.
LoginCommit(p) ==
    LET r == req[p] IN
    /\ r.pc = "login_flush"
    /\ UserFree(r.user)
    /\ session' = [session EXCEPT ![r.sid] = [state |-> "open", creds |-> r.creds]]
    /\ device' = [d \in Devices |->
          IF d \in r.rows THEN [device[d] EXCEPT !.gen = @ + 1] ELSE device[d]]
    /\ Done(p)
    /\ UNCHANGED <<active, secret, codes, challenge, now, work>>

-----------------------------------------------------------------------------
(* verify_login_mfa: challenge row, secret row, then users row.            *)

\* Any other challenge is answered 401.
VerifyLock(p, c, s) ==
    /\ ChallengeFree(c)
    /\ challenge[c].state = "open"
    /\ challenge[c].exp > now
    /\ active[challenge[c].user]
    /\ Fresh(s)
    /\ challenge[c].remember => DevicesLeft
    /\ Start(p, [Idle EXCEPT !.pc = "verify", !.user = challenge[c].user, !.sid = s, !.chal = c,
                             !.at = now])
    /\ UNCHANGED <<active, secret, codes, challenge, device, session, now, work>>

NewerCounter_Equal(u, k) == k >= secret[u].last

\* A TOTP code is good for its time-step, once.
NewerCounter(u, k) == k > secret[u].last

\* The second factors the account's owner can present at time k.
Factors(u, k) ==
    {<<"totp", u, secret[u].ver, x>> : x \in {y \in {k} : NewerCounter(u, y)}}
      \cup {<<"code", u, codes[u].batch, c>> : c \in codes[u].unused}

\* The row of an enabled secret is waited for, and read when it is free.
VerifyFactor(p) ==
    LET r == req[p] IN
    /\ r.pc = "verify"
    /\ Enabled(r.user)
    /\ SecretFree(r.user)
    /\ \E f \in Factors(r.user, r.at) :
          req' = [req EXCEPT ![p].pc = "verify_flush",
                             ![p].creds = {f, <<"challenge", r.chal, 0, 0>>}]
    /\ UNCHANGED <<active, secret, codes, challenge, device, session, now, work>>

VerifyFail(p) ==
    LET r == req[p] IN
    /\ r.pc = "verify"
    /\ Enabled(r.user) => SecretFree(r.user)
    /\ Done(p)
    /\ UNCHANGED <<active, secret, codes, challenge, device, session, now, work>>

\* last_totp_counter or used_at of the factor.
Spend(u, creds) ==
    LET counters == {f[4] : f \in {c \in creds : c[1] = "totp"}}
        spent    == {f[4] : f \in {c \in creds : c[1] = "code"}} IN
    /\ secret' = [secret EXCEPT ![u].last = IF counters = {} THEN @ ELSE CHOOSE k \in counters : TRUE]
    /\ codes' = [codes EXCEPT ![u].unused = @ \ spent]

\* _issue_trusted_device, when the challenge asked for one.
IssueDevice(u, d) ==
    device' = [device EXCEPT ![d] =
        [state |-> "live", user |-> u, exp |-> now + DeviceTtl, gen |-> 1,
         revocations |-> secret[u].revocations]]

VerifyCommit(p) ==
    LET r == req[p] IN
    /\ r.pc = "verify_flush"
    /\ UserFree(r.user)
    /\ challenge' = [challenge EXCEPT ![r.chal].state = "consumed"]
    /\ Spend(r.user, r.creds)
    /\ session' = [session EXCEPT ![r.sid] = [state |-> "open", creds |-> r.creds]]
    /\ IF challenge[r.chal].remember
       THEN \E d \in Devices : device[d].state = "unused" /\ IssueDevice(r.user, d)
       ELSE UNCHANGED device
    /\ Done(p)
    /\ UNCHANGED <<active, now, work>>

-----------------------------------------------------------------------------
(* start_mfa_enrollment, verify_mfa_enrollment, regenerate_mfa_recovery_   *)
(* codes, disable_mfa and the password changes: users row, secret row,     *)
(* device rows.                                                            *)

OwnLock(p, u, op) ==
    /\ active[u]
    /\ UserFree(u)
    /\ work < MaxWork /\ work' = work + 1
    /\ Start(p, [Idle EXCEPT !.pc = "own", !.user = u, !.op = op])
    /\ UNCHANGED <<active, secret, codes, challenge, device, session, now>>

\* All codes of the batch have been used.
Renewable(u) == codes[u].unused = {}

\* What the handler asks of the secret row before it goes on.
OwnAccepts(u, op) ==
    CASE op = "start"      -> ~Enabled(u)
      [] op = "enable"     -> secret[u].state = "pending"
      [] op = "regenerate" -> Enabled(u) /\ Renewable(u)
      [] op = "disable"    -> Enabled(u) /\ Factors(u, now) # {}
      [] op = "password"   -> TRUE

\* The conflict (409) or the wrong code (400, 401) is the other case.
OwnSecret(p) ==
    LET r == req[p] IN
    /\ r.pc = "own"
    /\ r.op # "password" => SecretFree(r.user)
    /\ \/ OwnAccepts(r.user, r.op) /\ req' = [req EXCEPT ![p].pc = "own_mfa", ![p].at = now]
       \/ r.op # "password" /\ Done(p)
    /\ UNCHANGED <<active, secret, codes, challenge, device, session, now, work>>

RevokedBy_PasswordKeeps(op, u) == IF op \in {"enable", "disable"} THEN LiveDevices(u) ELSE {}

\* UPDATE trusted_devices SET revoked_at of the account's live devices.
RevokedBy(op, u) == IF op \in {"enable", "disable", "password"} THEN LiveDevices(u) ELSE {}

OwnDevices(p) ==
    LET r == req[p] IN
    /\ r.pc = "own_mfa"
    /\ RowsFree(RevokedBy(r.op, r.user))
    /\ req' = [req EXCEPT ![p].pc = "own_commit", ![p].rows = RevokedBy(r.op, r.user)]
    /\ UNCHANGED <<active, secret, codes, challenge, device, session, now, work>>

Confirmed_NoCounter(row, k) == [row EXCEPT !.state = "enabled"]

\* The code that confirms an enrollment is spent by it.
Confirmed(row, k) == [row EXCEPT !.state = "enabled", !.last = k]

OwnCommit(p) ==
    LET r == req[p]
        row == secret[r.user]
        count == IF r.op \in {"enable", "disable", "password"} THEN row.revocations + 1
                                                               ELSE row.revocations IN
    /\ r.pc = "own_commit"
    /\ secret' = [secret EXCEPT ![r.user] =
          CASE r.op = "start"   -> [row EXCEPT !.state = "pending", !.ver = @ + 1, !.last = -1]
            [] r.op = "enable"  -> [Confirmed(row, r.at) EXCEPT !.revocations = count]
            [] r.op = "disable" -> [row EXCEPT !.state = "none", !.revocations = count]
            [] OTHER            -> [row EXCEPT !.revocations = count]]
    /\ codes' = [codes EXCEPT ![r.user] =
          CASE r.op \in {"enable", "regenerate"} -> [batch |-> @.batch + 1, unused |-> Codes]
            [] r.op = "disable"                  -> [@ EXCEPT !.unused = {}]
            [] OTHER                             -> @]
    /\ device' = [d \in Devices |->
          IF d \in r.rows THEN [device[d] EXCEPT !.state = "revoked"] ELSE device[d]]
    /\ Done(p)
    /\ UNCHANGED <<active, challenge, session, now, work>>

-----------------------------------------------------------------------------
(* revoke_trusted_device, and what an administrator does to is_active.     *)

RevokeLock(p, d) ==
    /\ device[d].state = "live"
    /\ active[device[d].user]
    /\ RowsFree({d})
    /\ Start(p, [Idle EXCEPT !.pc = "revoke_row", !.user = device[d].user, !.dev = d, !.rows = {d}])
    /\ UNCHANGED <<active, secret, codes, challenge, device, session, now, work>>

\* The event it inserts references the users row.
RevokeCommit(p) ==
    /\ req[p].pc = "revoke_row"
    /\ UserFree(req[p].user)
    /\ device' = [device EXCEPT ![req[p].dev].state = "revoked"]
    /\ Done(p)
    /\ UNCHANGED <<active, secret, codes, challenge, session, now, work>>

SetActive(u) ==
    /\ UserFree(u)
    /\ work < MaxWork /\ work' = work + 1
    /\ active' = [active EXCEPT ![u] = ~@]
    /\ UNCHANGED <<secret, codes, challenge, device, session, req, now>>

-----------------------------------------------------------------------------
(* The environment.                                                        *)

Tick ==
    /\ now < MaxTime
    /\ now' = now + 1
    /\ UNCHANGED <<active, secret, codes, challenge, device, session, req, work>>

\* The process or its connection dies: rolled back.
Abort(p) ==
    /\ req[p].pc # "idle"
    /\ Done(p)
    /\ UNCHANGED <<active, secret, codes, challenge, device, session, now, work>>

WaitsFor(p, q) ==
    LET r == req[p] IN
    /\ p # q
    /\ \/ r.pc \in {"challenge", "login_flush", "verify_flush", "revoke_row"} /\ HoldsUser(q, r.user)
       \/ r.pc = "verify" /\ Enabled(r.user) /\ HoldsSecret(q, r.user)
       \/ r.pc = "own" /\ r.op # "password" /\ HoldsSecret(q, r.user)
       \/ r.pc = "own_mfa" /\ RevokedBy(r.op, r.user) \cap req[q].rows # {}
       \/ r.pc = "device" /\ Trusted(r) /\ r.dev \in req[q].rows

\* p is in a cycle of transactions that wait for one another.
Deadlocked(p) ==
    \E D \in SUBSET Requests :
        /\ p \in D
        /\ \A q \in D : (\E r \in D : WaitsFor(q, r)) /\ (\E r \in D : WaitsFor(r, q))

DeadlockAbort(p) ==
    /\ Deadlocked(p)
    /\ Done(p)
    /\ UNCHANGED <<active, secret, codes, challenge, device, session, now, work>>

-----------------------------------------------------------------------------
Advance(p) ==
    \/ LoginFactor(p) \/ LoginDevice(p) \/ LoginCommit(p)
    \/ \E c \in Challenges, remember \in BOOLEAN : ChallengeCommit(p, c, remember)
    \/ VerifyFactor(p) \/ VerifyFail(p) \/ VerifyCommit(p)
    \/ OwnSecret(p) \/ OwnDevices(p) \/ OwnCommit(p)
    \/ RevokeCommit(p)

Begin(p) ==
    \/ \E u \in Users, s \in Sids : LoginCheck(p, u, s)
    \/ \E c \in Challenges, s \in Sids : VerifyLock(p, c, s)
    \/ \E u \in Users, op \in Ops : OwnLock(p, u, op)
    \/ \E d \in Devices : RevokeLock(p, d)

Next ==
    \/ \E p \in Requests : Begin(p) \/ Advance(p) \/ Abort(p) \/ DeadlockAbort(p)
    \/ \E u \in Users : SetActive(u)
    \/ Tick

Spec == Init /\ [][Next]_vars

-----------------------------------------------------------------------------
(* Properties.                                                             *)

\* Every variable keeps its type, and an enabled secret has accepted a code.
TypeOK ==
    /\ active \in [Users -> BOOLEAN]
    /\ secret \in [Users -> Secret]
    /\ codes \in [Users -> CodeRows]
    /\ challenge \in [Challenges -> Challenge]
    /\ device \in [Devices -> Device]
    /\ session \in [Sids -> SessionRow]
    /\ req \in [Requests -> Request]
    /\ now \in Nat /\ work \in Nat
    /\ \A u \in Users : Enabled(u) => secret[u].last >= 0

\* A challenge, a TOTP time-step, a recovery code and a trusted device token
\* each open at most one session, whatever logins run at the same time ("The
\* row lock ensures concurrent requests cannot both succeed", auth.py).
CredentialsSingleUse ==
    \A s, t \in Sids : s # t => session[s].creds \cap session[t].creds = {}

InForce(x) ==
    CASE x[1] = "totp"      -> Enabled(x[2]) /\ secret[x[2]].ver = x[3] /\ secret[x[2]].last < x[4]
      [] x[1] = "code"      -> Enabled(x[2]) /\ codes[x[2]].batch = x[3] /\ x[4] \in codes[x[2]].unused
      [] x[1] = "challenge" -> challenge[x[2]].state = "open"
      [] x[1] = "device"    -> device[x[2]].state = "live" /\ device[x[2]].gen = x[3]

\* What a login checked before it waited for the users row still holds when it
\* commits: no factor of a disabled or replaced secret, no code of a deleted
\* batch and no revoked device opens a session.
FactorInForceAtCommit ==
    [][\A s \in Sids : session'[s] # session[s] => \A x \in session'[s].creds : InForce(x)]_vars

\* Enabling or disabling the second factor and changing the password leave no
\* older trusted device usable, not even one a login was just being issued.
NoDeviceSurvivesRevocation ==
    \A d \in Devices :
        device[d].state = "live" => device[d].revocations = secret[device[d].user].revocations
=============================================================================
