--------------------------- MODULE MfaLoginProofs ---------------------------
(***************************************************************************)
(* Proofs about MfaLogin, for any set of accounts, credentials and         *)
(* requests: every credential opens one session at most, it is in force    *)
(* when it does, and no device outlives the revocation of an account's     *)
(* devices.                                                                *)
(*                                                                         *)
(* The argument: a login holds the row of every credential it is about to  *)
(* spend (MayOpen with LockInv), so that it is in force at the commit; the *)
(* commit spends it; and what is spent stays spent (SpentStays), since     *)
(* versions, counters, batches and generations only grow.                  *)
(***************************************************************************)
EXTENDS MfaLogin, TLAPS

Flush == {"login_flush", "verify_flush"}
Own == {"own", "own_mfa", "own_commit"}
Revokes == {"enable", "disable", "password"}

\* What a request refers to exists.
Refers(p) ==
    /\ req[p].pc # "idle" => req[p].user \in Users
    /\ req[p].pc \in {"login", "device", "challenge", "verify"} \cup Flush => req[p].sid \in Sids
    /\ req[p].pc \in {"verify", "verify_flush"} => req[p].chal \in Challenges
    /\ req[p].pc \in {"device", "revoke_row"} => req[p].dev \in Devices
    /\ req[p].pc \in Own => req[p].op \in Ops

\* What a login has checked is still so, since it holds the row it checked.
MayOpen(p) ==
    /\ req[p].pc = "login" => req[p].rows = {} /\ req[p].creds = {}
    /\ req[p].pc = "login_flush" =>
           \/ req[p].rows = {} /\ req[p].creds = {}
           \/ \E d \in Devices :
                /\ device[d].state = "live"
                /\ req[p].rows = {d} /\ req[p].creds = {<<"device", d, device[d].gen, 0>>}
    /\ req[p].pc \in {"verify", "verify_flush"} => challenge[req[p].chal].state = "open"
    /\ req[p].pc = "verify_flush" =>
           /\ Enabled(req[p].user)
           /\ \E f \in Factors(req[p].user, req[p].at) :
                req[p].creds = {f, <<"challenge", req[p].chal, 0, 0>>}

\* An enrollment that is about to be confirmed is still pending, and a request
\* about to revoke the devices of an account has locked every one of them.
MayChange(p) ==
    /\ req[p].pc \in {"own_mfa", "own_commit"} /\ req[p].op = "enable" =>
           secret[req[p].user].state = "pending"
    /\ req[p].pc = "own_commit" /\ req[p].op \in Revokes => LiveDevices(req[p].user) \subseteq req[p].rows
    /\ req[p].pc = "revoke_row" => req[p].rows = {req[p].dev}

Good(p) == Refers(p) /\ MayOpen(p) /\ MayChange(p)

\* Two requests lock no row in common.
Apart(p, q) ==
    /\ \A u \in Users : ~(HoldsSecret(p, u) /\ HoldsSecret(q, u))
    /\ \A c \in Challenges : ~(HoldsChallenge(p, c) /\ HoldsChallenge(q, c))
    /\ req[p].rows \cap req[q].rows = {}

\* No other request has locked what p has.
Alone(p) == \A q \in Requests \ {p} : Apart(p, q)

ReqInv == \A p \in Requests : Good(p)
LockInv == \A p \in Requests : Alone(p)

\* A secret that waits for its first code has accepted none, a device that was
\* never issued has had no token, and what is issued belongs to an account.
RowInv ==
    /\ \A u \in Users : secret[u].state = "pending" => secret[u].last = -1
    /\ \A d \in Devices : device[d].state = "unused" => device[d].gen = 0
    /\ \A c \in Challenges : challenge[c].state # "unused" => challenge[c].user \in Users
    /\ \A d \in Devices : device[d].state = "live" => device[d].user \in Users

\* No login can present the credential any more.
Spent(x) ==
    CASE x[1] = "totp" ->
            \/ x[3] < secret[x[2]].ver
            \/ x[3] = secret[x[2]].ver /\ x[4] <= secret[x[2]].last
      [] x[1] = "code" ->
            \/ x[3] < codes[x[2]].batch
            \/ x[3] = codes[x[2]].batch /\ x[4] \notin codes[x[2]].unused
      [] x[1] = "challenge" -> challenge[x[2]].state = "consumed"
      [] x[1] = "device" -> x[3] < device[x[2]].gen

SpentInv == \A s \in Sids : \A x \in session[s].creds : Spent(x)

\* The inductive invariant of MfaLogin.
IInv ==
    /\ TypeOK /\ ReqInv /\ LockInv /\ RowInv /\ SpentInv
    /\ CredentialsSingleUse /\ NoDeviceSurvivesRevocation

-----------------------------------------------------------------------------
(* Credentials.                                                            *)

\* The two readings of each kind of credential.
LEMMA Totp ==
    ASSUME NEW u, NEW v, NEW k
    PROVE  /\ InForce(<<"totp", u, v, k>>) <=>
                  Enabled(u) /\ secret[u].ver = v /\ secret[u].last < k
           /\ Spent(<<"totp", u, v, k>>) <=>
                  v < secret[u].ver \/ (v = secret[u].ver /\ k <= secret[u].last)
BY DEF InForce, Spent

\* What it means that a recovery code is in force, or spent.
LEMMA Code ==
    ASSUME NEW u, NEW b, NEW c
    PROVE  /\ InForce(<<"code", u, b, c>>) <=>
                  Enabled(u) /\ codes[u].batch = b /\ c \in codes[u].unused
           /\ Spent(<<"code", u, b, c>>) <=>
                  b < codes[u].batch \/ (b = codes[u].batch /\ c \notin codes[u].unused)
BY DEF InForce, Spent

\* The same of a challenge: open, or consumed.
LEMMA OfChallenge ==
    ASSUME NEW c
    PROVE  /\ InForce(<<"challenge", c, 0, 0>>) <=> challenge[c].state = "open"
           /\ Spent(<<"challenge", c, 0, 0>>) <=> challenge[c].state = "consumed"
BY DEF InForce, Spent

\* The same of a trusted device: the cookie of its generation, or of an earlier one.
LEMMA OfDevice ==
    ASSUME NEW d, NEW g
    PROVE  /\ InForce(<<"device", d, g, 0>>) <=> device[d].state = "live" /\ device[d].gen = g
           /\ Spent(<<"device", d, g, 0>>) <=> g < device[d].gen
BY DEF InForce, Spent

\* Every credential is of one of four kinds.
LEMMA CredKinds ==
    ASSUME NEW x \in Cred
    PROVE  \/ \E u \in Users, v \in Nat, k \in Nat : x = <<"totp", u, v, k>>
           \/ \E u \in Users, b \in Nat, c \in Codes : x = <<"code", u, b, c>>
           \/ \E c \in Challenges : x = <<"challenge", c, 0, 0>>
           \/ \E d \in Devices, g \in Nat : x = <<"device", d, g, 0>>
BY DEF Cred

\* A credential in force is not spent.
LEMMA NotSpent ==
    ASSUME TypeOK, NEW x \in Cred, InForce(x)
    PROVE  ~Spent(x)
<1>1. CASE \E u \in Users, v \in Nat, k \in Nat : x = <<"totp", u, v, k>>
  BY <1>1, Totp DEF TypeOK, Secret
<1>2. CASE \E u \in Users, b \in Nat, c \in Codes : x = <<"code", u, b, c>>
  BY <1>2, Code DEF TypeOK, CodeRows
<1>3. CASE \E c \in Challenges : x = <<"challenge", c, 0, 0>>
  BY <1>3, OfChallenge
<1>4. CASE \E d \in Devices, g \in Nat : x = <<"device", d, g, 0>>
  BY <1>4, OfDevice DEF TypeOK, Device
<1> QED
  BY <1>1, <1>2, <1>3, <1>4, CredKinds

\* Versions, counters, batches and generations only grow.
Grows ==
    /\ \A u \in Users :
        /\ \/ secret[u].ver < secret'[u].ver
           \/ secret[u].ver = secret'[u].ver /\ secret[u].last <= secret'[u].last
        /\ \/ codes[u].batch < codes'[u].batch
           \/ codes[u].batch = codes'[u].batch /\ codes'[u].unused \subseteq codes[u].unused
    /\ \A c \in Challenges : challenge[c].state = "consumed" => challenge'[c].state = "consumed"
    /\ \A d \in Devices : device[d].gen <= device'[d].gen

\* What is spent stays spent.
LEMMA SpentStays ==
    ASSUME TypeOK, TypeOK', Grows, NEW x \in Cred, Spent(x)
    PROVE  Spent(x)'
<1>1. CASE \E u \in Users, v \in Nat, k \in Nat : x = <<"totp", u, v, k>>
  <2>1. PICK u \in Users, v \in Nat, k \in Nat : x = <<"totp", u, v, k>>
    BY <1>1
  <2>2. Spent(x)' <=> v < secret'[u].ver \/ (v = secret'[u].ver /\ k <= secret'[u].last)
    BY <2>1 DEF Spent
  <2> QED
    BY <2>1, <2>2, Totp DEF Grows, TypeOK, Secret
<1>2. CASE \E u \in Users, b \in Nat, c \in Codes : x = <<"code", u, b, c>>
  <2>1. PICK u \in Users, b \in Nat, c \in Codes : x = <<"code", u, b, c>>
    BY <1>2
  <2>2. Spent(x)' <=> b < codes'[u].batch \/ (b = codes'[u].batch /\ c \notin codes'[u].unused)
    BY <2>1 DEF Spent
  <2> QED
    BY <2>1, <2>2, Code DEF Grows, TypeOK, CodeRows
<1>3. CASE \E c \in Challenges : x = <<"challenge", c, 0, 0>>
  BY <1>3, OfChallenge DEF Grows, Spent
<1>4. CASE \E d \in Devices, g \in Nat : x = <<"device", d, g, 0>>
  <2>1. PICK d \in Devices, g \in Nat : x = <<"device", d, g, 0>>
    BY <1>4
  <2>2. Spent(x)' <=> g < device'[d].gen
    BY <2>1 DEF Spent
  <2> QED
    BY <2>1, <2>2, OfDevice DEF Grows, TypeOK, Device
<1> QED
  BY <1>1, <1>2, <1>3, <1>4, CredKinds

\* A commit that opens no session.
LEMMA OpensNone ==
    ASSUME TypeOK, TypeOK', Grows, SpentInv, CredentialsSingleUse, session' = session
    PROVE  SpentInv' /\ CredentialsSingleUse'
<1>1. \A s \in Sids : session[s].creds \subseteq Cred
  BY DEF TypeOK, SessionRow
<1> QED
  BY <1>1, SpentStays DEF SpentInv, CredentialsSingleUse

\* A commit that opens a session with credentials in force and spends them.
LEMMA OpensOne ==
    ASSUME TypeOK, TypeOK', Grows, SpentInv, CredentialsSingleUse,
           NEW s \in Sids, NEW C \in SUBSET Cred,
           session' = [session EXCEPT ![s] = [state |-> "open", creds |-> C]],
           \A x \in C : InForce(x) /\ Spent(x)'
    PROVE  SpentInv' /\ CredentialsSingleUse'
<1>1. /\ session'[s].creds = C
      /\ \A t \in Sids \ {s} : session'[t] = session[t]
      /\ \A t \in Sids : session[t].creds \subseteq Cred
  BY DEF TypeOK, SessionRow
<1>2. SpentInv'
  BY <1>1, SpentStays DEF SpentInv
<1>3. \A t \in Sids : session[t].creds \cap C = {}
  BY <1>1, NotSpent DEF SpentInv
<1>4. CredentialsSingleUse'
  BY <1>1, <1>3 DEF CredentialsSingleUse
<1> QED
  BY <1>2, <1>4

\* The factors of an account are credentials, in force while its second factor
\* is enabled.
LEMMA FactorsTyped ==
    ASSUME TypeOK, NEW u \in Users, NEW k \in Nat
    PROVE  /\ Factors(u, k) \subseteq Cred
           /\ \A f \in Factors(u, k) :
                  \/ f = <<"totp", u, secret[u].ver, k>> /\ secret[u].last < k
                  \/ \E c \in codes[u].unused : f = <<"code", u, codes[u].batch, c>>
<1>1. secret[u].ver \in Nat /\ secret[u].last \in Int
      /\ codes[u].batch \in Nat /\ codes[u].unused \subseteq Codes
  BY DEF TypeOK, Secret, CodeRows
<1>2. \A f \in Factors(u, k) :
          \/ f = <<"totp", u, secret[u].ver, k>> /\ secret[u].last < k
          \/ \E c \in codes[u].unused : f = <<"code", u, codes[u].batch, c>>
  BY <1>1 DEF Factors, NewerCounter
<1>3. Factors(u, k) \subseteq Cred
  BY <1>1, <1>2 DEF Cred
<1> QED
  BY <1>2, <1>3

-----------------------------------------------------------------------------
(* Requests.                                                               *)

tables == <<secret, codes, challenge, device, session>>

\* The fields of a request.
LEMMA ReqTypes ==
    ASSUME TypeOK, NEW p \in Requests
    PROVE  /\ req[p] \in Request
           /\ req[p].user \in Users \cup {None} /\ req[p].sid \in Sids \cup {None}
           /\ req[p].chal \in Challenges \cup {None} /\ req[p].dev \in Devices \cup {None}
           /\ req[p].gen \in Nat /\ req[p].op \in Ops \cup {"none"} /\ req[p].at \in Nat
           /\ req[p].rows \subseteq Devices /\ req[p].creds \subseteq Cred
BY DEF TypeOK, Request

\* A request that does nothing has the type of a request.
LEMMA IdleRequest == Idle \in Request
BY DEF Idle, Request

\* Nothing has been issued at the start.
LEMMA InitIInv == Init => IInv
<1> SUFFICES ASSUME Init PROVE IInv
  OBVIOUS
<1>1. TypeOK
  BY IdleRequest DEF Init, TypeOK, Secret, CodeRows, Challenge, Device, SessionRow, Enabled
<1>2. \A p \in Requests : req[p] = Idle
  BY DEF Init
<1>3. ReqInv /\ LockInv
  BY <1>2 DEF ReqInv, Good, Refers, MayOpen, MayChange, LockInv, Alone, Apart, HoldsSecret,
              HoldsChallenge, Idle, Flush, Own
<1>4. RowInv /\ SpentInv /\ CredentialsSingleUse /\ NoDeviceSurvivesRevocation
  BY DEF Init, RowInv, SpentInv, CredentialsSingleUse, NoDeviceSurvivesRevocation
<1> QED
  BY <1>1, <1>3, <1>4 DEF IInv

\* What is said of a request that stays depends on the rows only.
LEMMA GoodStays ==
    ASSUME NEW p \in Requests, Good(p), req'[p] = req[p], UNCHANGED tables
    PROVE  Good(p)'
BY DEF Good, Refers, MayOpen, MayChange, tables, Enabled, Factors, NewerCounter, LiveDevices

\* A step of one request that writes no row.
LEMMA RequestStep ==
    ASSUME IInv, NEW p \in Requests, NEW n \in Request, req' = [req EXCEPT ![p] = n],
           UNCHANGED tables, active' = active, now' = now, work' \in Nat,
           Good(p)', Alone(p)'
    PROVE  IInv'
<1>1. TypeOK'
  BY DEF IInv, TypeOK, tables, Enabled
<1>2. req'[p] = n /\ \A q \in Requests \ {p} : req'[q] = req[q]
  BY DEF IInv, TypeOK
<1>3. ReqInv'
  BY <1>2, GoodStays DEF IInv, ReqInv
<1>4. LockInv'
  <2>1. \A q, o \in Requests \ {p} : q # o => Apart(q, o)'
    BY <1>2 DEF IInv, LockInv, Alone, Apart, HoldsSecret, HoldsChallenge
  <2>2. \A q \in Requests \ {p} : Apart(q, p)'
    BY DEF Alone, Apart
  <2> QED
    BY <2>1, <2>2 DEF LockInv, Alone
<1>5. RowInv' /\ SpentInv' /\ CredentialsSingleUse' /\ NoDeviceSurvivesRevocation'
  BY DEF IInv, tables, RowInv, SpentInv, Spent, CredentialsSingleUse, NoDeviceSurvivesRevocation
<1> QED
  BY <1>1, <1>3, <1>4, <1>5 DEF IInv

\* A record of a request that locks no secret and no challenge.
LocksLittle(n) ==
    /\ n.pc \notin {"verify", "verify_flush"}
    /\ n.pc \in {"own_mfa", "own_commit"} => n.op = "password"

\* A request that locks no more than it did stays apart from the others.
LEMMA AloneStays ==
    ASSUME IInv, NEW p \in Requests, NEW n \in Request, req' = [req EXCEPT ![p] = n],
           n.rows \subseteq req[p].rows, LocksLittle(n)
    PROVE  Alone(p)'
<1>1. req'[p] = n /\ \A q \in Requests \ {p} : req'[q] = req[q]
  BY DEF IInv, TypeOK
<1> QED
  BY <1>1 DEF IInv, LockInv, Alone, Apart, HoldsSecret, HoldsChallenge, LocksLittle

\* The end of a request that writes no row.
LEMMA Ends ==
    ASSUME IInv, NEW p \in Requests, Done(p), UNCHANGED tables, active' = active,
           now' = now, work' = work
    PROVE  IInv'
<1>1. req' = [req EXCEPT ![p] = Idle] /\ req'[p] = Idle /\ Idle.pc = "idle" /\ Idle.rows = {}
  BY DEF Done, IInv, TypeOK, Idle
<1>2. Good(p)'
  BY <1>1 DEF Good, Refers, MayOpen, MayChange, Flush, Own
<1>3. Alone(p)'
  BY <1>1, IdleRequest, AloneStays DEF LocksLittle
<1> QED
  BY <1>1, <1>2, <1>3, IdleRequest, RequestStep DEF IInv, TypeOK

-----------------------------------------------------------------------------
(* The steps that write no row.                                            *)

\* A login that has its id and no lock yet.
LEMMA LoginCheckInv ==
    ASSUME IInv, NEW p \in Requests, NEW u \in Users, NEW s \in Sids, LoginCheck(p, u, s)
    PROVE  IInv'
<1>1. PICK n \in Request : n = [Idle EXCEPT !.pc = "login", !.user = u, !.sid = s]
  BY DEF Request, Idle
<1>2. req' = [req EXCEPT ![p] = n] /\ UNCHANGED <<tables, active, now, work>>
  BY <1>1 DEF LoginCheck, Start, tables
<1>3. /\ req'[p] = n /\ n.pc = "login" /\ n.user = u /\ n.sid = s
      /\ n.rows = {} /\ n.creds = {}
  BY <1>1, <1>2 DEF IInv, TypeOK, Idle
<1>4. Good(p)'
  BY <1>3 DEF Good, Refers, MayOpen, MayChange, Flush, Own
<1>5. Alone(p)'
  BY <1>2, <1>3, AloneStays DEF LocksLittle
<1> QED
  BY <1>2, <1>4, <1>5, RequestStep DEF IInv, TypeOK

\* Which factor a login needs changes nothing but its place.
LEMMA LoginFactorInv ==
    ASSUME IInv, NEW p \in Requests, LoginFactor(p)
    PROVE  IInv'
<1>1. /\ req[p] \in Request /\ req[p].pc = "login" /\ Good(p) /\ now \in Nat /\ work \in Nat
      /\ req \in [Requests -> Request] /\ \A d \in Devices : device[d].gen \in Nat
      /\ UNCHANGED <<tables, active, now, work>>
  BY DEF LoginFactor, IInv, ReqInv, TypeOK, tables, Device
<1>2. ASSUME NEW n \in Request, req' = [req EXCEPT ![p] = n],
             n.pc \in {"login_flush", "challenge", "device"}, n.user = req[p].user,
             n.sid = req[p].sid, n.rows = req[p].rows, n.creds = req[p].creds,
             n.pc = "device" => n.dev \in Devices
      PROVE  IInv'
  <2>1. req'[p] = n
    BY <1>1, <1>2
  <2>2. Good(p)'
    BY <1>1, <1>2, <2>1 DEF Good, Refers, MayOpen, MayChange, Flush, Own
  <2>3. Alone(p)'
    BY <1>2, AloneStays DEF LocksLittle
  <2> QED
    BY <1>1, <1>2, <2>2, <2>3, RequestStep
<1>3. CASE req' = [req EXCEPT ![p].pc = "login_flush"]
  <2>1. PICK n \in Request : n = [req[p] EXCEPT !.pc = "login_flush"]
    BY <1>1 DEF Request
  <2> QED
    BY <1>1, <1>2, <1>3, <2>1 DEF Request
<1>4. CASE req' = [req EXCEPT ![p].pc = "challenge", ![p].at = now]
  <2>1. PICK n \in Request : n = [req[p] EXCEPT !.pc = "challenge", !.at = now]
    BY <1>1 DEF Request
  <2> QED
    BY <1>1, <1>2, <1>4, <2>1 DEF Request
<1>5. CASE \E d \in Devices : \E g \in 1 .. device[d].gen :
              req' = [req EXCEPT ![p].pc = "device", ![p].dev = d, ![p].gen = g, ![p].at = now]
  <2>1. PICK d \in Devices : \E g \in 1 .. device[d].gen :
              req' = [req EXCEPT ![p].pc = "device", ![p].dev = d, ![p].gen = g, ![p].at = now]
    BY <1>5
  <2>2. PICK g \in 1 .. device[d].gen :
              req' = [req EXCEPT ![p].pc = "device", ![p].dev = d, ![p].gen = g, ![p].at = now]
    BY <2>1
  <2>3. g \in Nat
    BY <1>1
  <2>4. PICK n \in Request :
              n = [req[p] EXCEPT !.pc = "device", !.dev = d, !.gen = g, !.at = now]
    BY <1>1, <2>3 DEF Request
  <2> QED
    BY <1>1, <1>2, <2>2, <2>4 DEF Request
<1> QED
  BY <1>3, <1>4, <1>5 DEF LoginFactor

\* A device token that is found locks its row, which nobody else has locked.
LEMMA LoginDeviceInv ==
    ASSUME IInv, NEW p \in Requests, LoginDevice(p)
    PROVE  IInv'
<1>1. /\ req[p] \in Request /\ req[p].pc = "device" /\ Good(p) /\ now \in Nat /\ work \in Nat
      /\ req \in [Requests -> Request] /\ req[p].dev \in Devices /\ req[p].gen \in Nat
      /\ req[p].user \in Users /\ req[p].sid \in Sids
      /\ UNCHANGED <<tables, active, now, work>>
  BY DEF LoginDevice, IInv, ReqInv, Good, Refers, TypeOK, tables, Request
<1>2. CASE /\ Trusted(req[p]) /\ RowsFree({req[p].dev})
           /\ req' = [req EXCEPT ![p].pc = "login_flush", ![p].rows = {req[p].dev},
                                 ![p].creds = {<<"device", req[p].dev, req[p].gen, 0>>}]
  <2>1. {<<"device", req[p].dev, req[p].gen, 0>>} \subseteq Cred
    BY <1>1 DEF Cred
  <2>2. PICK n \in Request : n = [req[p] EXCEPT !.pc = "login_flush", !.rows = {req[p].dev},
                                      !.creds = {<<"device", req[p].dev, req[p].gen, 0>>}]
    BY <1>1, <2>1 DEF Request
  <2>3. /\ req' = [req EXCEPT ![p] = n] /\ req'[p] = n
        /\ \A q \in Requests \ {p} : req'[q] = req[q]
        /\ n.pc = "login_flush" /\ n.user = req[p].user /\ n.sid = req[p].sid
        /\ n.rows = {req[p].dev} /\ n.creds = {<<"device", req[p].dev, req[p].gen, 0>>}
    BY <1>1, <1>2, <2>2 DEF Request
  <2>4. device'[req[p].dev].state = "live" /\ device'[req[p].dev].gen = req[p].gen
    BY <1>1, <1>2 DEF Trusted, tables
  <2>5. Good(p)'
    BY <1>1, <2>3, <2>4 DEF Good, Refers, MayOpen, MayChange, Flush, Own
  <2>6. Alone(p)'
    BY <1>2, <2>3 DEF Alone, Apart, HoldsSecret, HoldsChallenge, RowsFree
  <2> QED
    BY <1>1, <2>3, <2>5, <2>6, RequestStep
<1>3. CASE req' = [req EXCEPT ![p].pc = "challenge", ![p].at = now]
  <2>1. PICK n \in Request : n = [req[p] EXCEPT !.pc = "challenge", !.at = now]
    BY <1>1 DEF Request
  <2>2. /\ req' = [req EXCEPT ![p] = n] /\ req'[p] = n /\ n.pc = "challenge"
        /\ n.user = req[p].user /\ n.sid = req[p].sid /\ n.rows = req[p].rows
    BY <1>1, <1>3, <2>1 DEF Request
  <2>3. Good(p)'
    BY <1>1, <2>2 DEF Good, Refers, MayOpen, MayChange, Flush, Own
  <2> QED
    BY <1>1, <2>2, <2>3, AloneStays, RequestStep DEF LocksLittle
<1> QED
  BY <1>2, <1>3 DEF LoginDevice

\* The challenge is locked by nobody else and open.
LEMMA VerifyLockInv ==
    ASSUME IInv, NEW p \in Requests, NEW c \in Challenges, NEW s \in Sids, VerifyLock(p, c, s)
    PROVE  IInv'
<1>1. challenge[c].user \in Users /\ now \in Nat /\ work \in Nat /\ req \in [Requests -> Request]
  BY DEF VerifyLock, IInv, TypeOK, RowInv
<1>2. PICK n \in Request : n = [Idle EXCEPT !.pc = "verify", !.user = challenge[c].user, !.sid = s,
                                            !.chal = c, !.at = now]
  BY <1>1 DEF Request, Idle
<1>3. /\ req' = [req EXCEPT ![p] = n] /\ req'[p] = n
      /\ \A q \in Requests \ {p} : req'[q] = req[q]
      /\ n.pc = "verify" /\ n.user = challenge[c].user /\ n.sid = s /\ n.chal = c /\ n.rows = {}
      /\ challenge'[c].state = "open" /\ UNCHANGED <<tables, active, now, work>>
  BY <1>1, <1>2 DEF VerifyLock, Start, tables, Idle
<1>4. Good(p)'
  BY <1>1, <1>3 DEF Good, Refers, MayOpen, MayChange, Flush, Own
<1>5. Alone(p)'
  BY <1>3 DEF VerifyLock, Alone, Apart, HoldsSecret, HoldsChallenge, ChallengeFree
<1> QED
  BY <1>1, <1>3, <1>4, <1>5, RequestStep

\* The factor that is found locks the secret, which nobody else has locked.
LEMMA VerifyFactorInv ==
    ASSUME IInv, NEW p \in Requests, VerifyFactor(p)
    PROVE  IInv'
<1>1. /\ req[p] \in Request /\ req[p].pc = "verify" /\ Good(p) /\ now \in Nat /\ work \in Nat
      /\ req \in [Requests -> Request] /\ req[p].chal \in Challenges /\ req[p].at \in Nat
      /\ req[p].user \in Users /\ req[p].sid \in Sids
      /\ Enabled(req[p].user) /\ SecretFree(req[p].user) /\ Alone(p)
      /\ UNCHANGED <<tables, active, now, work>>
  BY DEF VerifyFactor, IInv, ReqInv, LockInv, Good, Refers, TypeOK, tables, Request
<1>2. PICK f \in Factors(req[p].user, req[p].at) :
          req' = [req EXCEPT ![p].pc = "verify_flush",
                             ![p].creds = {f, <<"challenge", req[p].chal, 0, 0>>}]
  BY DEF VerifyFactor
<1>3. {f, <<"challenge", req[p].chal, 0, 0>>} \subseteq Cred
  <2>1. Factors(req[p].user, req[p].at) \subseteq Cred
    BY <1>1, FactorsTyped DEF IInv
  <2> QED
    BY <1>1, <2>1 DEF Cred
<1>4. PICK n \in Request : n = [req[p] EXCEPT !.pc = "verify_flush",
                                    !.creds = {f, <<"challenge", req[p].chal, 0, 0>>}]
  BY <1>1, <1>3 DEF Request
<1>5. /\ req' = [req EXCEPT ![p] = n] /\ req'[p] = n
      /\ \A q \in Requests \ {p} : req'[q] = req[q]
      /\ n.pc = "verify_flush" /\ n.user = req[p].user /\ n.sid = req[p].sid
      /\ n.chal = req[p].chal /\ n.at = req[p].at
      /\ n.rows = req[p].rows /\ n.creds = {f, <<"challenge", req[p].chal, 0, 0>>}
  BY <1>1, <1>2, <1>4 DEF Request
<1>6. Good(p)'
  <2>1. Refers(p)' /\ MayChange(p)'
    BY <1>1, <1>5 DEF Good, Refers, MayChange, Flush, Own
  <2>2. MayOpen(p)'
    <3>1. challenge'[n.chal].state = "open" /\ Enabled(n.user)'
      BY <1>1, <1>5 DEF Good, MayOpen, tables, Enabled
    <3>2. f \in Factors(n.user, n.at)'
      BY <1>1, <1>2, <1>5 DEF tables, Factors, NewerCounter
    <3> QED
      BY <1>5, <3>1, <3>2 DEF MayOpen
  <2> QED
    BY <2>1, <2>2 DEF Good
<1>7. Alone(p)'
  BY <1>1, <1>5 DEF Alone, Apart, HoldsSecret, HoldsChallenge, SecretFree
<1> QED
  BY <1>1, <1>5, <1>6, <1>7, RequestStep

\* The users row, of which no invariant speaks.
LEMMA OwnLockInv ==
    ASSUME IInv, NEW p \in Requests, NEW u \in Users, NEW op \in Ops, OwnLock(p, u, op)
    PROVE  IInv'
<1>1. PICK n \in Request : n = [Idle EXCEPT !.pc = "own", !.user = u, !.op = op]
  BY DEF Request, Idle
<1>2. req' = [req EXCEPT ![p] = n] /\ UNCHANGED <<tables, active, now>> /\ work' \in Nat
  BY <1>1 DEF OwnLock, Start, tables, IInv, TypeOK
<1>3. req'[p] = n /\ n.pc = "own" /\ n.user = u /\ n.op = op /\ n.rows = {}
  BY <1>1, <1>2 DEF IInv, TypeOK, Idle
<1>4. Good(p)'
  BY <1>3 DEF Good, Refers, MayOpen, MayChange, Flush, Own
<1>5. Alone(p)'
  BY <1>2, <1>3, AloneStays DEF LocksLittle
<1> QED
  BY <1>2, <1>4, <1>5, RequestStep

\* The secret is locked by nobody else; an enrollment to confirm is pending.
LEMMA OwnSecretInv ==
    ASSUME IInv, NEW p \in Requests, OwnSecret(p)
    PROVE  IInv'
<1>1. /\ req[p] \in Request /\ req[p].pc = "own" /\ Good(p) /\ now \in Nat /\ work \in Nat
      /\ req \in [Requests -> Request] /\ req[p].user \in Users /\ req[p].op \in Ops
      /\ req[p].op # "password" => SecretFree(req[p].user)
      /\ Alone(p) /\ UNCHANGED <<tables, active, now, work>>
  BY DEF OwnSecret, IInv, ReqInv, LockInv, Good, Refers, Own, TypeOK, tables
<1>2. CASE /\ OwnAccepts(req[p].user, req[p].op)
           /\ req' = [req EXCEPT ![p].pc = "own_mfa", ![p].at = now]
  <2>1. PICK n \in Request : n = [req[p] EXCEPT !.pc = "own_mfa", !.at = now]
    BY <1>1 DEF Request
  <2>2. /\ req' = [req EXCEPT ![p] = n] /\ req'[p] = n
        /\ \A q \in Requests \ {p} : req'[q] = req[q]
        /\ n.pc = "own_mfa" /\ n.user = req[p].user /\ n.op = req[p].op /\ n.rows = req[p].rows
    BY <1>1, <1>2, <2>1 DEF Request
  <2>3. n.op = "enable" => secret'[n.user].state = "pending"
    BY <1>1, <1>2, <2>2 DEF OwnAccepts, tables
  <2>4. Good(p)'
    BY <1>1, <2>2, <2>3 DEF Good, Refers, MayOpen, MayChange, Flush, Own
  <2>5. Alone(p)'
    BY <1>1, <2>2 DEF Alone, Apart, HoldsSecret, HoldsChallenge, SecretFree
  <2> QED
    BY <1>1, <2>2, <2>4, <2>5, RequestStep
<1>3. CASE Done(p)
  BY <1>1, <1>3, Ends
<1> QED
  BY <1>2, <1>3 DEF OwnSecret

\* The live devices of the account, locked by nobody else.
LEMMA OwnDevicesInv ==
    ASSUME IInv, NEW p \in Requests, OwnDevices(p)
    PROVE  IInv'
<1>1. /\ req[p] \in Request /\ req[p].pc = "own_mfa" /\ Good(p) /\ work \in Nat
      /\ req \in [Requests -> Request] /\ req[p].user \in Users /\ req[p].op \in Ops
      /\ RowsFree(RevokedBy(req[p].op, req[p].user))
      /\ RevokedBy(req[p].op, req[p].user) \subseteq Devices
      /\ Alone(p) /\ UNCHANGED <<tables, active, now, work>>
  BY DEF OwnDevices, IInv, ReqInv, LockInv, Good, Refers, Own, TypeOK, tables, RevokedBy, LiveDevices
<1>2. PICK n \in Request : n = [req[p] EXCEPT !.pc = "own_commit",
                                              !.rows = RevokedBy(req[p].op, req[p].user)]
  BY <1>1 DEF Request
<1>3. /\ req' = [req EXCEPT ![p] = n] /\ req'[p] = n
      /\ \A q \in Requests \ {p} : req'[q] = req[q]
      /\ n.pc = "own_commit" /\ n.user = req[p].user /\ n.op = req[p].op
      /\ n.rows = RevokedBy(req[p].op, req[p].user)
  BY <1>1, <1>2 DEF OwnDevices, Request
<1>4. n.op \in Revokes => LiveDevices(n.user)' \subseteq n.rows
  BY <1>1, <1>3 DEF RevokedBy, Revokes, LiveDevices, tables
<1>5. n.op = "enable" => secret'[n.user].state = "pending"
  BY <1>1, <1>3 DEF Good, MayChange, tables
<1>6. Good(p)'
  BY <1>1, <1>3, <1>4, <1>5 DEF Good, Refers, MayOpen, MayChange, Flush, Own
<1>7. Alone(p)'
  BY <1>1, <1>3 DEF Alone, Apart, HoldsSecret, HoldsChallenge, RowsFree
<1> QED
  BY <1>1, <1>3, <1>6, <1>7, RequestStep

\* The row of one device.
LEMMA RevokeLockInv ==
    ASSUME IInv, NEW p \in Requests, NEW d \in Devices, RevokeLock(p, d)
    PROVE  IInv'
<1>1. device[d].user \in Users /\ work \in Nat /\ req \in [Requests -> Request]
  BY DEF RevokeLock, IInv, TypeOK, RowInv
<1>2. PICK n \in Request : n = [Idle EXCEPT !.pc = "revoke_row", !.user = device[d].user,
                                            !.dev = d, !.rows = {d}]
  BY <1>1 DEF Request, Idle
<1>3. /\ req' = [req EXCEPT ![p] = n] /\ req'[p] = n
      /\ \A q \in Requests \ {p} : req'[q] = req[q]
      /\ n.pc = "revoke_row" /\ n.user = device[d].user /\ n.dev = d /\ n.rows = {d}
      /\ UNCHANGED <<tables, active, now, work>>
  BY <1>1, <1>2 DEF RevokeLock, Start, tables, Idle
<1>4. Good(p)'
  BY <1>1, <1>3 DEF Good, Refers, MayOpen, MayChange, Flush, Own
<1>5. Alone(p)'
  BY <1>3 DEF RevokeLock, Alone, Apart, HoldsSecret, HoldsChallenge, RowsFree
<1> QED
  BY <1>1, <1>3, <1>4, <1>5, RequestStep

-----------------------------------------------------------------------------
(* Commits.                                                                *)

\* What is said of another request holds on if the rows it has locked stay as
\* they are and no device is issued to the account it revokes the devices of.
LEMMA GoodKept ==
    ASSUME NEW q \in Requests, Good(q), req'[q] = req[q],
           req[q].pc = "login_flush" => \A d \in req[q].rows : device'[d] = device[d],
           \A c \in Challenges : HoldsChallenge(q, c) => challenge'[c].state = challenge[c].state,
           \A u \in Users : HoldsSecret(q, u) =>
               /\ secret'[u].state = secret[u].state /\ secret'[u].ver = secret[u].ver
               /\ secret'[u].last = secret[u].last /\ codes'[u] = codes[u],
           req[q].pc = "own_commit" => LiveDevices(req[q].user)' \subseteq LiveDevices(req[q].user)
    PROVE  Good(q)'
<1>1. Refers(q)'
  BY DEF Good, Refers
<1>2. MayOpen(q)'
  <2>1. ASSUME req[q].pc = "login_flush"
        PROVE  MayOpen(q)'
    BY <2>1 DEF Good, MayOpen
  <2>2. ASSUME req[q].pc \in {"verify", "verify_flush"}
        PROVE  challenge'[req[q].chal].state = "open"
    BY <2>2 DEF Good, Refers, MayOpen, HoldsChallenge
  <2>3. ASSUME req[q].pc = "verify_flush"
        PROVE  Enabled(req[q].user)' /\ Factors(req[q].user, req[q].at)' = Factors(req[q].user, req[q].at)
    BY <2>3 DEF Good, Refers, MayOpen, HoldsSecret, Enabled, Factors, NewerCounter
  <2>4. req[q].pc = "login" => MayOpen(q)'
    BY DEF Good, MayOpen
  <2> QED
    BY <2>1, <2>2, <2>3, <2>4 DEF Good, MayOpen
<1>3. MayChange(q)'
  BY DEF Good, Refers, MayChange, HoldsSecret, Own, Revokes
<1> QED
  BY <1>1, <1>2, <1>3 DEF Good

\* A commit, after which its request is idle.
LEMMA CommitStep ==
    ASSUME IInv, NEW p \in Requests, Done(p), TypeOK',
           \A q \in Requests \ {p} : Good(q)',
           RowInv', SpentInv' /\ CredentialsSingleUse', NoDeviceSurvivesRevocation'
    PROVE  IInv'
<1>1. req' = [req EXCEPT ![p] = Idle] /\ req'[p] = Idle /\ Idle.pc = "idle" /\ Idle.rows = {}
      /\ \A q \in Requests \ {p} : req'[q] = req[q]
  BY DEF Done, IInv, TypeOK, Idle
<1>2. ReqInv'
  BY <1>1 DEF ReqInv, Good, Refers, MayOpen, MayChange, Flush, Own
<1>3. LockInv'
  BY <1>1 DEF IInv, LockInv, Alone, Apart, HoldsSecret, HoldsChallenge
<1> QED
  BY <1>2, <1>3 DEF IInv

\* A request that is done leaves the other requests as they are.
LEMMA DoneTyped ==
    ASSUME TypeOK, NEW p \in Requests, Done(p)
    PROVE  req' \in [Requests -> Request] /\ \A q \in Requests \ {p} : req'[q] = req[q]
BY IdleRequest DEF Done, TypeOK

\* An unused challenge is open now; nobody has locked it.
LEMMA ChallengeCommitInv ==
    ASSUME IInv, NEW p \in Requests, NEW c \in Challenges, NEW remember \in BOOLEAN,
           ChallengeCommit(p, c, remember)
    PROVE  IInv'
<1>1. /\ Done(p) /\ challenge[c].state = "unused"
      /\ req[p].user \in Users /\ req[p].at + ChallengeTtl \in Nat
      /\ challenge \in [Challenges -> Challenge]
      /\ UNCHANGED <<active, secret, codes, device, session, now, work>>
  BY ReqTypes, BoundAssumption DEF ChallengeCommit, IInv, ReqInv, Good, Refers, TypeOK
<1>2. PICK row \in Challenge :
          row = [state |-> "open", user |-> req[p].user, exp |-> req[p].at + ChallengeTtl,
                 remember |-> remember]
  BY <1>1 DEF Challenge
<1>3. challenge' = [challenge EXCEPT ![c] = row] /\ row.state = "open" /\ row.user \in Users
      /\ challenge' \in [Challenges -> Challenge] /\ challenge'[c] = row
      /\ \A x \in Challenges \ {c} : challenge'[x] = challenge[x]
  BY <1>1, <1>2 DEF ChallengeCommit
<1>4. TypeOK'
  BY <1>1, <1>3, DoneTyped DEF IInv, TypeOK, Enabled
<1>5. ASSUME NEW q \in Requests \ {p}
      PROVE  Good(q)'
  <2>1. Good(q) /\ req'[q] = req[q]
    BY <1>1, DoneTyped DEF IInv, ReqInv
  <2>2. ~HoldsChallenge(q, c)
    BY <1>1, <2>1 DEF Good, MayOpen, HoldsChallenge
  <2>3. \A x \in Challenges : HoldsChallenge(q, x) => challenge'[x].state = challenge[x].state
    BY <1>3, <2>2
  <2> QED
    BY <1>1, <2>1, <2>3, GoodKept DEF LiveDevices
<1>6. RowInv'
  BY <1>1, <1>3 DEF IInv, RowInv
<1>7. Grows
  BY <1>1, <1>3 DEF Grows, IInv, TypeOK, Secret, CodeRows, Device
<1>8. SpentInv' /\ CredentialsSingleUse'
  BY <1>1, <1>4, <1>7, OpensNone DEF IInv
<1>9. NoDeviceSurvivesRevocation'
  BY <1>1 DEF IInv, NoDeviceSurvivesRevocation
<1> QED
  BY <1>1, <1>4, <1>5, <1>6, <1>8, <1>9, CommitStep

\* The token of the device is spent by its rotation.
LEMMA LoginCommitInv ==
    ASSUME IInv, NEW p \in Requests, LoginCommit(p)
    PROVE  IInv' /\ \A x \in req[p].creds : InForce(x)
<1>1. /\ Done(p) /\ req[p].pc = "login_flush" /\ Good(p) /\ Alone(p)
      /\ req[p].sid \in Sids /\ req[p].rows \subseteq Devices /\ req[p].creds \subseteq Cred
      /\ session' = [session EXCEPT ![req[p].sid] = [state |-> "open", creds |-> req[p].creds]]
      /\ UNCHANGED <<active, secret, codes, challenge, now, work>>
  BY ReqTypes DEF LoginCommit, IInv, ReqInv, LockInv, Good, Refers, Flush
<1>2. /\ device \in [Devices -> Device] /\ device' \in [Devices -> Device]
      /\ \A d \in Devices :
            /\ device'[d].state = device[d].state /\ device'[d].user = device[d].user
            /\ device'[d].revocations = device[d].revocations
            /\ device[d].gen \in Nat
            /\ device'[d].gen = IF d \in req[p].rows THEN device[d].gen + 1 ELSE device[d].gen
            /\ d \notin req[p].rows => device'[d] = device[d]
  BY DEF LoginCommit, IInv, TypeOK, Device
<1>3. TypeOK'
  <2>1. session' \in [Sids -> SessionRow]
    BY <1>1 DEF IInv, TypeOK, SessionRow
  <2> QED
    BY <1>1, <1>2, <2>1, DoneTyped DEF IInv, TypeOK, Enabled
<1>4. ASSUME NEW q \in Requests \ {p}
      PROVE  Good(q)'
  <2>1. Good(q) /\ req'[q] = req[q] /\ req[q].rows \subseteq Devices
    BY <1>1, DoneTyped, ReqTypes DEF IInv, ReqInv
  <2>2. \A d \in req[q].rows : device'[d] = device[d]
    BY <1>1, <1>2, <2>1 DEF Alone, Apart
  <2>3. LiveDevices(req[q].user)' \subseteq LiveDevices(req[q].user)
    BY <1>2, <2>1 DEF LiveDevices
  <2> QED
    BY <1>1, <2>1, <2>2, <2>3, GoodKept
<1>5. RowInv'
  <2>1. \A d \in Devices : device[d].state = "unused" => d \notin req[p].rows
    BY <1>1 DEF Good, MayOpen
  <2> QED
    BY <1>1, <1>2, <2>1 DEF IInv, RowInv
<1>6. Grows
  BY <1>1, <1>2 DEF Grows, IInv, TypeOK, Secret, CodeRows
<1>7. \A x \in req[p].creds : InForce(x) /\ Spent(x)'
  <2>1. CASE req[p].creds = {}
    BY <2>1
  <2>2. CASE \E d \in Devices :
                /\ device[d].state = "live"
                /\ req[p].rows = {d} /\ req[p].creds = {<<"device", d, device[d].gen, 0>>}
    <3>1. PICK d \in Devices :
                /\ device[d].state = "live"
                /\ req[p].rows = {d} /\ req[p].creds = {<<"device", d, device[d].gen, 0>>}
      BY <2>2
    <3>2. PICK g \in Nat : g = device[d].gen
      BY <1>2
    <3>3. req[p].creds = {<<"device", d, g, 0>>} /\ g < device'[d].gen
      BY <1>2, <3>1, <3>2
    <3>4. InForce(<<"device", d, g, 0>>)
      BY <3>1, <3>2, OfDevice
    <3>5. Spent(<<"device", d, g, 0>>)'
      BY <3>3 DEF Spent
    <3> QED
      BY <3>3, <3>4, <3>5
  <2> QED
    BY <1>1, <2>1, <2>2 DEF Good, MayOpen
<1>8. SpentInv' /\ CredentialsSingleUse'
  BY <1>1, <1>3, <1>6, <1>7, OpensOne DEF IInv
<1>9. NoDeviceSurvivesRevocation'
  BY <1>1, <1>2 DEF IInv, NoDeviceSurvivesRevocation
<1> QED
  BY <1>1, <1>3, <1>4, <1>5, <1>7, <1>8, <1>9, CommitStep

\* What a TOTP code and what a recovery code leave of the account's rows.
SpendsCounter(u, k, f) ==
    /\ f = <<"totp", u, secret[u].ver, k>> /\ secret[u].last < k
    /\ secret' = [secret EXCEPT ![u].last = k]
    /\ codes' = codes

SpendsCode(u, f) ==
    \E x \in codes[u].unused :
        /\ f = <<"code", u, codes[u].batch, x>>
        /\ secret' = secret
        /\ codes' = [codes EXCEPT ![u].unused = codes[u].unused \ {x}]

\* A factor that is spent is either a counter that moves on or a code that leaves its batch.
LEMMA SpendFactor ==
    ASSUME TypeOK, NEW u \in Users, NEW k \in Nat, NEW c \in Challenges,
           NEW f \in Factors(u, k),
           NEW C, C = {f, <<"challenge", c, 0, 0>>}, Spend(u, C)
    PROVE  SpendsCounter(u, k, f) \/ SpendsCode(u, f)
<1> DEFINE counters == {y[4] : y \in {z \in C : z[1] = "totp"}}
           spent == {y[4] : y \in {z \in C : z[1] = "code"}}
<1>1. /\ secret \in [Users -> Secret] /\ codes \in [Users -> CodeRows]
      /\ secret' = [secret EXCEPT ![u].last = IF counters = {} THEN @ ELSE CHOOSE y \in counters : TRUE]
      /\ codes' = [codes EXCEPT ![u].unused = @ \ spent]
  BY DEF Spend, TypeOK
<1>2. CASE f = <<"totp", u, secret[u].ver, k>> /\ secret[u].last < k
  <2>1. {z \in C : z[1] = "totp"} = {f} /\ {z \in C : z[1] = "code"} = {} /\ f[4] = k
    BY <1>2
  <2>2. counters = {k} /\ spent = {}
    BY <2>1
  <2> HIDE DEF counters, spent
  <2>3. (CHOOSE y \in counters : TRUE) = k
    BY <2>2
  <2>4. secret' = [secret EXCEPT ![u].last = k]
    BY <1>1, <2>2, <2>3
  <2>5. codes' = codes
    BY <1>1, <2>2 DEF CodeRows
  <2> QED
    BY <1>2, <2>4, <2>5 DEF SpendsCounter
<1>3. CASE \E x \in codes[u].unused : f = <<"code", u, codes[u].batch, x>>
  <2>1. PICK x \in codes[u].unused : f = <<"code", u, codes[u].batch, x>>
    BY <1>3
  <2>2. {z \in C : z[1] = "code"} = {f} /\ {z \in C : z[1] = "totp"} = {} /\ f[4] = x
    BY <2>1
  <2>3. counters = {} /\ spent = {x}
    BY <2>2
  <2> HIDE DEF counters, spent
  <2>4. secret' = secret
    BY <1>1, <2>3 DEF Secret
  <2>5. codes' = [codes EXCEPT ![u].unused = codes[u].unused \ {x}]
    BY <1>1, <2>3
  <2> QED
    BY <2>1, <2>4, <2>5 DEF SpendsCode
<1> QED
  BY <1>2, <1>3, FactorsTyped

\* What a successful verification leaves of the devices: at most one that was
\* unused is issued, to the account of the challenge.
LEMMA VerifyDevices ==
    ASSUME IInv, NEW p \in Requests, VerifyCommit(p)
    PROVE  /\ device' \in [Devices -> Device]
           /\ \A d \in Devices :
                \/ device'[d] = device[d]
                \/ /\ device[d].state = "unused"
                   /\ device'[d].state = "live" /\ device'[d].user = req[p].user
                   /\ device'[d].gen = 1 /\ device'[d].revocations = secret[req[p].user].revocations
<1>1. /\ device \in [Devices -> Device] /\ req[p].user \in Users
      /\ now + DeviceTtl \in Nat /\ secret[req[p].user].revocations \in Nat
  BY BoundAssumption DEF VerifyCommit, IInv, ReqInv, Good, Refers, TypeOK, Secret
<1>2. CASE UNCHANGED device
  BY <1>1, <1>2
<1>3. CASE \E d \in Devices : device[d].state = "unused" /\ IssueDevice(req[p].user, d)
  <2>1. PICK d \in Devices : device[d].state = "unused" /\ IssueDevice(req[p].user, d)
    BY <1>3
  <2>2. PICK row \in Device :
            row = [state |-> "live", user |-> req[p].user, exp |-> now + DeviceTtl, gen |-> 1,
                   revocations |-> secret[req[p].user].revocations]
    BY <1>1 DEF Device
  <2>3. device' = [device EXCEPT ![d] = row]
    BY <2>1, <2>2 DEF IssueDevice
  <2> QED
    BY <1>1, <2>1, <2>2, <2>3
<1> QED
  BY <1>2, <1>3 DEF VerifyCommit

\* The factor and the challenge are in force, and spent by the commit.
LEMMA VerifyCommitInv ==
    ASSUME IInv, NEW p \in Requests, VerifyCommit(p)
    PROVE  IInv' /\ \A x \in req[p].creds : InForce(x)
<1>1. /\ Done(p) /\ req[p].pc = "verify_flush" /\ Good(p) /\ Alone(p) /\ UserFree(req[p].user)
      /\ req[p].sid \in Sids /\ req[p].chal \in Challenges /\ req[p].user \in Users
      /\ req[p].at \in Nat /\ req[p].creds \subseteq Cred
      /\ session' = [session EXCEPT ![req[p].sid] = [state |-> "open", creds |-> req[p].creds]]
      /\ challenge' = [challenge EXCEPT ![req[p].chal].state = "consumed"]
      /\ UNCHANGED <<active, now, work>>
  BY ReqTypes DEF VerifyCommit, IInv, ReqInv, LockInv, Good, Refers, Flush
<1>2. /\ challenge \in [Challenges -> Challenge] /\ challenge' \in [Challenges -> Challenge]
      /\ challenge[req[p].chal].state = "open" /\ challenge'[req[p].chal].state = "consumed"
      /\ \A c \in Challenges : challenge'[c].user = challenge[c].user
      /\ \A c \in Challenges \ {req[p].chal} : challenge'[c] = challenge[c]
  BY <1>1 DEF IInv, TypeOK, Challenge, Good, MayOpen
<1>3. PICK f \in Factors(req[p].user, req[p].at) :
          Enabled(req[p].user) /\ req[p].creds = {f, <<"challenge", req[p].chal, 0, 0>>}
  BY <1>1 DEF Good, MayOpen
<1>4. SpendsCounter(req[p].user, req[p].at, f) \/ SpendsCode(req[p].user, f)
  <2>1. /\ TypeOK /\ req[p].creds = {f, <<"challenge", req[p].chal, 0, 0>>}
        /\ Spend(req[p].user, req[p].creds)
    BY <1>3 DEF VerifyCommit, IInv
  <2> QED
    BY <1>1, <2>1, SpendFactor
<1>5. /\ secret \in [Users -> Secret] /\ secret' \in [Users -> Secret]
      /\ codes \in [Users -> CodeRows] /\ codes' \in [Users -> CodeRows]
      /\ \A u \in Users :
            /\ secret'[u].state = secret[u].state /\ secret'[u].ver = secret[u].ver
            /\ secret'[u].revocations = secret[u].revocations
            /\ secret[u].last <= secret'[u].last /\ secret[u].ver \in Nat
            /\ codes'[u].batch = codes[u].batch /\ codes'[u].unused \subseteq codes[u].unused
            /\ codes[u].batch \in Nat
            /\ u # req[p].user => secret'[u] = secret[u] /\ codes'[u] = codes[u]
  <2>1. CASE SpendsCounter(req[p].user, req[p].at, f)
    <3>1. PICK row \in Secret :
              /\ row.state = secret[req[p].user].state /\ row.ver = secret[req[p].user].ver
              /\ row.revocations = secret[req[p].user].revocations /\ row.last = req[p].at
              /\ secret' = [secret EXCEPT ![req[p].user] = row]
      <4>1. secret[req[p].user] \in Secret /\ req[p].at \in Int
        BY <1>1 DEF IInv, TypeOK
      <4>2. PICK row \in Secret : row = [secret[req[p].user] EXCEPT !.last = req[p].at]
        BY <1>1, <4>1 DEF Secret
      <4> QED
        BY <2>1, <4>1, <4>2 DEF SpendsCounter, Secret
    <3>2. secret[req[p].user].last < req[p].at /\ codes' = codes
      BY <2>1 DEF SpendsCounter
    <3> QED
      BY <1>1, <3>1, <3>2 DEF IInv, TypeOK, Secret, CodeRows
  <2>2. CASE SpendsCode(req[p].user, f)
    BY <1>1, <2>2 DEF SpendsCode, IInv, TypeOK, Secret, CodeRows
  <2> QED
    BY <1>4, <2>1, <2>2
<1>6. TypeOK'
  <2>1. session' \in [Sids -> SessionRow]
    BY <1>1 DEF IInv, TypeOK, SessionRow
  <2>2. \A u \in Users : Enabled(u)' => secret'[u].last >= 0
    BY <1>5 DEF IInv, TypeOK, Enabled, Secret
  <2> QED
    BY <1>1, <1>2, <1>5, <2>1, <2>2, VerifyDevices, DoneTyped DEF IInv, TypeOK
<1>7. ASSUME NEW q \in Requests \ {p}
      PROVE  Good(q)'
  <2>1. Good(q) /\ req'[q] = req[q] /\ req[q].rows \subseteq Devices
    BY <1>1, DoneTyped, ReqTypes DEF IInv, ReqInv
  <2>2. req[q].pc = "login_flush" => \A d \in req[q].rows : device'[d] = device[d]
    BY <2>1, VerifyDevices DEF Good, MayOpen
  <2>3. ~HoldsChallenge(q, req[p].chal) /\ ~HoldsSecret(q, req[p].user)
    BY <1>1 DEF Alone, Apart, HoldsChallenge, HoldsSecret
  <2>4. req[q].pc = "own_commit" => LiveDevices(req[q].user)' \subseteq LiveDevices(req[q].user)
    <3>1. req[q].pc = "own_commit" => req[q].user # req[p].user
      BY <1>1 DEF UserFree, HoldsUser
    <3>2. \A d \in Devices : device'[d] = device[d] \/ device'[d].user = req[p].user
      BY VerifyDevices
    <3> QED
      BY <2>1, <3>1, <3>2 DEF LiveDevices
  <2> QED
    BY <1>2, <1>5, <2>1, <2>2, <2>3, <2>4, GoodKept
<1>8. RowInv'
  <2>1. \A u \in Users : secret'[u].state = "pending" => u # req[p].user
    BY <1>3, <1>5 DEF Enabled
  <2>2. \A d \in Devices : \/ device'[d] = device[d]
                           \/ device'[d].state = "live" /\ device'[d].user \in Users
    BY <1>1, VerifyDevices
  <2>3. \A u \in Users : secret'[u].state = "pending" => secret'[u].last = -1
    BY <1>5, <2>1 DEF IInv, RowInv
  <2>4. \A c \in Challenges : challenge'[c].state # "unused" => challenge'[c].user \in Users
    BY <1>2 DEF IInv, RowInv
  <2> QED
    BY <2>2, <2>3, <2>4 DEF IInv, RowInv
<1>9. Grows
  <2>1. \A d \in Devices : device[d].gen <= device'[d].gen
    BY VerifyDevices DEF IInv, RowInv, TypeOK, Device
  <2> QED
    BY <1>2, <1>5, <2>1 DEF Grows
<1>10. \A x \in req[p].creds : InForce(x) /\ Spent(x)'
  <2>1. InForce(<<"challenge", req[p].chal, 0, 0>>)
    BY <1>2, OfChallenge
  <2>2. PICK c \in Challenges : c = req[p].chal
    BY <1>1
  <2>3. Spent(<<"challenge", c, 0, 0>>)'
    BY <1>2, <2>2 DEF Spent
  <2>4. InForce(f) /\ Spent(f)'
    <3>1. CASE SpendsCounter(req[p].user, req[p].at, f)
      <4>1. PICK u \in Users, k \in Nat : u = req[p].user /\ k = req[p].at
        BY <1>1
      <4>2. PICK v \in Nat : /\ v = secret[u].ver /\ f = <<"totp", u, v, k>>
                             /\ secret[u].last < k /\ secret' = [secret EXCEPT ![u].last = k]
        BY <1>5, <3>1, <4>1 DEF SpendsCounter
      <4>3. secret'[u].ver = v /\ secret'[u].last = k
        BY <1>5, <4>2 DEF Secret
      <4>4. Spent(<<"totp", u, v, k>>)'
        BY <4>3 DEF Spent
      <4> QED
        BY <1>3, <4>1, <4>2, <4>4, Totp
    <3>2. CASE SpendsCode(req[p].user, f)
      <4>1. PICK u \in Users : u = req[p].user
        BY <1>1
      <4>2. PICK b \in Nat, x \in codes[u].unused :
                  /\ b = codes[u].batch /\ f = <<"code", u, b, x>>
                  /\ codes' = [codes EXCEPT ![u].unused = codes[u].unused \ {x}]
        BY <1>5, <3>2, <4>1 DEF SpendsCode
      <4>3. codes'[u].batch = b /\ x \notin codes'[u].unused
        BY <1>5, <4>2 DEF CodeRows
      <4>4. Spent(<<"code", u, b, x>>)'
        BY <4>3 DEF Spent
      <4> QED
        BY <1>3, <4>1, <4>2, <4>4, Code
    <3> QED
      BY <1>4, <3>1, <3>2
  <2> QED
    BY <1>3, <2>1, <2>2, <2>3, <2>4
<1>11. SpentInv' /\ CredentialsSingleUse'
  BY <1>1, <1>6, <1>9, <1>10, OpensOne DEF IInv
<1>12. NoDeviceSurvivesRevocation'
  BY <1>1, <1>5, VerifyDevices DEF IInv, NoDeviceSurvivesRevocation, RowInv
<1> QED
  BY <1>1, <1>6, <1>7, <1>8, <1>10, <1>11, <1>12, CommitStep

\* What OwnCommit does to the rows of the account.
LEMMA OwnRows ==
    ASSUME IInv, NEW p \in Requests, OwnCommit(p)
    PROVE  LET u == req[p].user
               op == req[p].op IN
           /\ u \in Users /\ op \in Ops
           /\ secret' \in [Users -> Secret] /\ codes' \in [Users -> CodeRows]
           /\ device' \in [Devices -> Device]
           /\ \A x \in Users \ {u} : secret'[x] = secret[x] /\ codes'[x] = codes[x]
           /\ op \in Revokes => secret'[u].revocations = secret[u].revocations + 1
           /\ op \notin Revokes => secret'[u].revocations = secret[u].revocations
           /\ op = "start" => /\ secret'[u].state = "pending" /\ secret'[u].last = -1
                              /\ secret'[u].ver = secret[u].ver + 1
           /\ op = "enable" => secret'[u].state = "enabled" /\ secret'[u].last = req[p].at
           /\ op = "disable" => secret'[u].state = "none" /\ secret'[u].last = secret[u].last
           /\ op # "start" => secret'[u].ver = secret[u].ver
           /\ op \in {"regenerate", "password"} =>
                  secret'[u].state = secret[u].state /\ secret'[u].last = secret[u].last
           /\ op \in {"enable", "regenerate"} => codes'[u].batch = codes[u].batch + 1
           /\ op = "disable" => codes'[u].batch = codes[u].batch /\ codes'[u].unused = {}
           /\ op \in {"start", "password"} => codes'[u] = codes[u]
           /\ \A d \in Devices :
                /\ device'[d].user = device[d].user /\ device'[d].gen = device[d].gen
                /\ device'[d].revocations = device[d].revocations
                /\ IF d \in req[p].rows THEN device'[d].state = "revoked" ELSE device'[d] = device[d]
<1> DEFINE u == req[p].user
           op == req[p].op
<1>1. /\ u \in Users /\ op \in Ops /\ req[p].at \in Nat /\ req[p].rows \subseteq Devices
      /\ secret \in [Users -> Secret] /\ codes \in [Users -> CodeRows]
      /\ device \in [Devices -> Device]
  BY ReqTypes DEF OwnCommit, IInv, ReqInv, Good, Refers, Own, TypeOK
<1>2. /\ device' \in [Devices -> Device]
      /\ \A d \in Devices :
            /\ device'[d].user = device[d].user /\ device'[d].gen = device[d].gen
            /\ device'[d].revocations = device[d].revocations
            /\ IF d \in req[p].rows THEN device'[d].state = "revoked" ELSE device'[d] = device[d]
  BY <1>1 DEF OwnCommit, Device
<1>3. CASE op = "start"
  <2>1. /\ secret' = [secret EXCEPT ![u] = [secret[u] EXCEPT !.state = "pending", !.ver = secret[u].ver + 1, !.last = -1]]
        /\ codes' = [codes EXCEPT ![u] = codes[u]]
    BY <1>3 DEF OwnCommit
  <2>2. /\ secret[u].ver + 1 \in Nat /\ secret[u].revocations + 1 \in Nat
        /\ secret[u] \in Secret /\ codes[u] \in CodeRows /\ codes[u].batch + 1 \in Nat /\ -1 \in Int
    BY <1>1 DEF Secret, CodeRows
  <2>3. secret' \in [Users -> Secret]
    BY <1>1, <2>1, <2>2 DEF Secret
  <2>4. codes' \in [Users -> CodeRows]
    BY <1>1, <2>1, <2>2 DEF CodeRows
  <2> QED
    BY <1>1, <1>2, <1>3, <2>1, <2>2, <2>3, <2>4 DEF Secret, CodeRows, Revokes
<1>4. CASE op = "enable"
  <2>1. /\ secret' = [secret EXCEPT ![u] = [secret[u] EXCEPT !.state = "enabled", !.last = req[p].at,
                                                   !.revocations = secret[u].revocations + 1]]
        /\ codes' = [codes EXCEPT ![u] = [batch |-> codes[u].batch + 1, unused |-> Codes]]
    BY <1>4 DEF OwnCommit, Confirmed
  <2>2. /\ secret[u].ver + 1 \in Nat /\ secret[u].revocations + 1 \in Nat
        /\ secret[u] \in Secret /\ codes[u] \in CodeRows /\ codes[u].batch + 1 \in Nat /\ req[p].at \in Int
    BY <1>1 DEF Secret, CodeRows
  <2>3. secret' \in [Users -> Secret]
    BY <1>1, <2>1, <2>2 DEF Secret
  <2>4. codes' \in [Users -> CodeRows]
    BY <1>1, <2>1, <2>2 DEF CodeRows
  <2> QED
    BY <1>1, <1>2, <1>4, <2>1, <2>2, <2>3, <2>4 DEF Secret, CodeRows, Revokes
<1>5. CASE op = "disable"
  <2>1. /\ secret' = [secret EXCEPT ![u] = [secret[u] EXCEPT !.state = "none",
                                                   !.revocations = secret[u].revocations + 1]]
        /\ codes' = [codes EXCEPT ![u] = [codes[u] EXCEPT !.unused = {}]]
    BY <1>5 DEF OwnCommit
  <2>2. /\ secret[u].ver + 1 \in Nat /\ secret[u].revocations + 1 \in Nat
        /\ secret[u] \in Secret /\ codes[u] \in CodeRows /\ codes[u].batch + 1 \in Nat
    BY <1>1 DEF Secret, CodeRows
  <2>3. secret' \in [Users -> Secret]
    BY <1>1, <2>1, <2>2 DEF Secret
  <2>4. codes' \in [Users -> CodeRows]
    BY <1>1, <2>1, <2>2 DEF CodeRows
  <2> QED
    BY <1>1, <1>2, <1>5, <2>1, <2>2, <2>3, <2>4 DEF Secret, CodeRows, Revokes
<1>6. CASE op = "regenerate"
  <2>1. /\ secret' = [secret EXCEPT ![u] = [secret[u] EXCEPT !.revocations = secret[u].revocations]]
        /\ codes' = [codes EXCEPT ![u] = [batch |-> codes[u].batch + 1, unused |-> Codes]]
    BY <1>6 DEF OwnCommit
  <2>2. /\ secret[u].ver + 1 \in Nat /\ secret[u].revocations + 1 \in Nat
        /\ secret[u] \in Secret /\ codes[u] \in CodeRows /\ codes[u].batch + 1 \in Nat
    BY <1>1 DEF Secret, CodeRows
  <2>3. secret' \in [Users -> Secret]
    BY <1>1, <2>1, <2>2 DEF Secret
  <2>4. codes' \in [Users -> CodeRows]
    BY <1>1, <2>1, <2>2 DEF CodeRows
  <2> QED
    BY <1>1, <1>2, <1>6, <2>1, <2>2, <2>3, <2>4 DEF Secret, CodeRows, Revokes
<1>7. CASE op = "password"
  <2>1. /\ secret' = [secret EXCEPT ![u] = [secret[u] EXCEPT !.revocations = secret[u].revocations + 1]]
        /\ codes' = [codes EXCEPT ![u] = codes[u]]
    BY <1>7 DEF OwnCommit
  <2>2. /\ secret[u].ver + 1 \in Nat /\ secret[u].revocations + 1 \in Nat
        /\ secret[u] \in Secret /\ codes[u] \in CodeRows /\ codes[u].batch + 1 \in Nat
    BY <1>1 DEF Secret, CodeRows
  <2>3. secret' \in [Users -> Secret]
    BY <1>1, <2>1, <2>2 DEF Secret
  <2>4. codes' \in [Users -> CodeRows]
    BY <1>1, <2>1, <2>2 DEF CodeRows
  <2> QED
    BY <1>1, <1>2, <1>7, <2>1, <2>2, <2>3, <2>4 DEF Secret, CodeRows, Revokes
<1> QED
  BY <1>1, <1>3, <1>4, <1>5, <1>6, <1>7 DEF Ops

\* The secret, the codes and the devices of one account are changed together.
LEMMA OwnCommitInv ==
    ASSUME IInv, NEW p \in Requests, OwnCommit(p)
    PROVE  IInv'
<1>1. /\ Done(p) /\ req[p].pc = "own_commit" /\ Good(p) /\ Alone(p)
      /\ req[p].user \in Users /\ req[p].op \in Ops /\ req[p].at \in Nat
      /\ UNCHANGED <<active, challenge, session, now, work>>
  BY ReqTypes DEF OwnCommit, IInv, ReqInv, LockInv, Good, Refers, Own
<1>2. \A u \in Users : secret[u] \in Secret /\ codes[u] \in CodeRows
  BY DEF IInv, TypeOK
<1>3. TypeOK'
  <2>1. \A u \in Users : Enabled(u)' => secret'[u].last >= 0
    <3> SUFFICES ASSUME NEW u \in Users, secret'[u].state = "enabled"
                 PROVE  secret'[u].last >= 0
      BY DEF Enabled
    <3>1. CASE u # req[p].user
      BY <1>1, <3>1, OwnRows DEF IInv, TypeOK, Enabled
    <3>2. CASE u = req[p].user
      BY <1>1, <3>2, OwnRows DEF IInv, TypeOK, Enabled, Ops
    <3> QED
      BY <3>1, <3>2
  <2> QED
    BY <1>1, <2>1, OwnRows, DoneTyped DEF IInv, TypeOK
<1>4. ASSUME NEW q \in Requests \ {p}
      PROVE  Good(q)'
  <2>1. Good(q) /\ req'[q] = req[q] /\ req[q].rows \subseteq Devices
    BY <1>1, DoneTyped, ReqTypes DEF IInv, ReqInv
  <2>2. \A d \in req[q].rows : device'[d] = device[d]
    BY <1>1, <2>1, OwnRows DEF Alone, Apart
  <2>3. ASSUME NEW u \in Users, HoldsSecret(q, u)
        PROVE  /\ secret'[u].state = secret[u].state /\ secret'[u].ver = secret[u].ver
               /\ secret'[u].last = secret[u].last /\ codes'[u] = codes[u]
    <3>1. req[p].op = "password" \/ u # req[p].user
      BY <1>1, <2>3 DEF Alone, Apart, HoldsSecret
    <3> QED
      BY <1>1, <3>1, OwnRows
  <2>4. LiveDevices(req[q].user)' \subseteq LiveDevices(req[q].user)
    <3>1. \A d \in Devices : device'[d].state = "live" => device'[d] = device[d]
      BY OwnRows
    <3> QED
      BY <2>1, <3>1 DEF LiveDevices
  <2> QED
    BY <1>1, <2>1, <2>2, <2>3, <2>4, GoodKept
<1>5. RowInv'
  <2>1. \A u \in Users : secret'[u].state = "pending" => secret'[u].last = -1
    <3> SUFFICES ASSUME NEW u \in Users, secret'[u].state = "pending"
                 PROVE  secret'[u].last = -1
      OBVIOUS
    <3>1. CASE u # req[p].user
      BY <3>1, OwnRows DEF IInv, RowInv
    <3>2. CASE u = req[p].user
      BY <1>1, <3>2, OwnRows DEF IInv, RowInv, Ops
    <3> QED
      BY <3>1, <3>2
  <2>2. \A d \in Devices : device'[d].state \in {"unused", "live"} => device'[d] = device[d]
    BY OwnRows
  <2> QED
    BY <1>1, <2>1, <2>2 DEF IInv, RowInv
<1>6. Grows
  <2>1. ASSUME NEW u \in Users
        PROVE  /\ \/ secret[u].ver < secret'[u].ver
                  \/ secret[u].ver = secret'[u].ver /\ secret[u].last <= secret'[u].last
               /\ \/ codes[u].batch < codes'[u].batch
                  \/ codes[u].batch = codes'[u].batch /\ codes'[u].unused \subseteq codes[u].unused
    <3>1. CASE u # req[p].user
      BY <1>2, <3>1, OwnRows DEF Secret, CodeRows
    <3>2. CASE u = req[p].user
      <4>1. req[p].op = "enable" => secret[u].last = -1
        BY <1>1, <3>2 DEF Good, MayChange, IInv, RowInv
      <4> QED
        BY <1>1, <1>2, <3>2, <4>1, OwnRows DEF Secret, CodeRows, Ops
    <3> QED
      BY <3>1, <3>2
  <2>2. \A d \in Devices : device[d].gen <= device'[d].gen
    BY OwnRows DEF IInv, TypeOK, Device
  <2> QED
    BY <1>1, <2>1, <2>2 DEF Grows
<1>7. SpentInv' /\ CredentialsSingleUse'
  BY <1>1, <1>3, <1>6, OpensNone DEF IInv
<1>8. NoDeviceSurvivesRevocation'
  <2> SUFFICES ASSUME NEW d \in Devices, device'[d].state = "live"
               PROVE  device'[d].revocations = secret'[device'[d].user].revocations
    BY DEF NoDeviceSurvivesRevocation
  <2>1. device'[d] = device[d] /\ d \notin req[p].rows /\ device[d].user \in Users
        /\ device[d].revocations = secret[device[d].user].revocations
    BY OwnRows DEF IInv, NoDeviceSurvivesRevocation, RowInv
  <2>2. CASE device[d].user # req[p].user
    BY <2>1, <2>2, OwnRows
  <2>3. CASE device[d].user = req[p].user
    <3>1. req[p].op \notin Revokes
      BY <1>1, <2>1, <2>3 DEF Good, MayChange, LiveDevices
    <3> QED
      BY <2>1, <2>3, <3>1, OwnRows
  <2> QED
    BY <2>2, <2>3
<1> QED
  BY <1>1, <1>3, <1>4, <1>5, <1>7, <1>8, CommitStep

\* One device is revoked, the row of which is locked.
LEMMA RevokeCommitInv ==
    ASSUME IInv, NEW p \in Requests, RevokeCommit(p)
    PROVE  IInv'
<1>1. /\ Done(p) /\ req[p].pc = "revoke_row" /\ Alone(p)
      /\ req[p].dev \in Devices /\ req[p].rows = {req[p].dev}
      /\ UNCHANGED <<active, secret, codes, challenge, session, now, work>>
  BY DEF RevokeCommit, IInv, ReqInv, LockInv, Good, Refers, MayChange
<1>2. /\ device \in [Devices -> Device] /\ device' \in [Devices -> Device]
      /\ device'[req[p].dev].state = "revoked"
      /\ \A d \in Devices : device'[d].user = device[d].user /\ device'[d].gen = device[d].gen
      /\ \A d \in Devices \ {req[p].dev} : device'[d] = device[d]
  BY <1>1 DEF RevokeCommit, IInv, TypeOK, Device
<1>3. TypeOK'
  BY <1>1, <1>2, DoneTyped DEF IInv, TypeOK, Enabled
<1>4. ASSUME NEW q \in Requests \ {p}
      PROVE  Good(q)'
  <2>1. Good(q) /\ req'[q] = req[q] /\ req[q].rows \subseteq Devices
    BY <1>1, DoneTyped, ReqTypes DEF IInv, ReqInv
  <2>2. \A d \in req[q].rows : device'[d] = device[d]
    BY <1>1, <1>2, <2>1 DEF Alone, Apart
  <2>3. LiveDevices(req[q].user)' \subseteq LiveDevices(req[q].user)
    <3>1. \A d \in Devices : device'[d].state = "live" => device'[d] = device[d]
      BY <1>1, <1>2
    <3> QED
      BY <2>1, <3>1 DEF LiveDevices
  <2> QED
    BY <1>1, <2>1, <2>2, <2>3, GoodKept
<1>5. RowInv'
  BY <1>1, <1>2 DEF IInv, RowInv
<1>6. Grows
  BY <1>1, <1>2 DEF Grows, IInv, TypeOK, Secret, CodeRows, Device
<1>7. SpentInv' /\ CredentialsSingleUse'
  BY <1>1, <1>3, <1>6, OpensNone DEF IInv
<1>8. NoDeviceSurvivesRevocation'
  BY <1>1, <1>2 DEF IInv, NoDeviceSurvivesRevocation
<1> QED
  BY <1>1, <1>3, <1>4, <1>5, <1>7, <1>8, CommitStep

-----------------------------------------------------------------------------
\* Nothing that is proved depends on the clock or on who is active.
LEMMA Elsewhere ==
    ASSUME IInv, UNCHANGED <<tables, req>>,
           active' \in [Users -> BOOLEAN], now' \in Nat, work' \in Nat
    PROVE  IInv'
<1>1. TypeOK'
  BY DEF IInv, TypeOK, tables, Enabled
<1>2. ReqInv' /\ LockInv'
  BY GoodStays DEF IInv, ReqInv, LockInv, Alone, Apart, HoldsSecret, HoldsChallenge
<1>3. RowInv' /\ SpentInv' /\ CredentialsSingleUse' /\ NoDeviceSurvivesRevocation'
  BY DEF IInv, tables, RowInv, SpentInv, Spent, CredentialsSingleUse, NoDeviceSurvivesRevocation
<1> QED
  BY <1>1, <1>2, <1>3 DEF IInv

\* Every step preserves the invariant.
LEMMA NextInv == IInv /\ [Next]_vars => IInv'
<1> SUFFICES ASSUME IInv, [Next]_vars PROVE IInv'
  OBVIOUS
<1> USE DEF Begin, Advance
<1>1. CASE UNCHANGED vars
  BY <1>1, Elsewhere DEF vars, tables, IInv, TypeOK
<1>2. ASSUME NEW u \in Users, SetActive(u) PROVE IInv'
  BY <1>2, Elsewhere DEF SetActive, tables, IInv, TypeOK
<1>3. CASE Tick
  BY <1>3, Elsewhere DEF Tick, tables, IInv, TypeOK
<1>4. ASSUME NEW p \in Requests, Begin(p) PROVE IInv'
  BY <1>4, LoginCheckInv, VerifyLockInv, OwnLockInv, RevokeLockInv
<1>5. ASSUME NEW p \in Requests, Advance(p) PROVE IInv'
  <2>1. VerifyFail(p) => IInv'
    BY Ends DEF VerifyFail, tables
  <2> QED
    BY <1>5, <2>1, LoginFactorInv, LoginDeviceInv, LoginCommitInv, ChallengeCommitInv,
       VerifyFactorInv, VerifyCommitInv, OwnSecretInv, OwnDevicesInv, OwnCommitInv,
       RevokeCommitInv
<1>6. ASSUME NEW p \in Requests, Abort(p) \/ DeadlockAbort(p) PROVE IInv'
  BY <1>6, Ends DEF Abort, DeadlockAbort, tables
<1> QED
  BY <1>1, <1>2, <1>3, <1>4, <1>5, <1>6 DEF Next

\* The invariant holds in every reachable state.
THEOREM Invariance == Spec => []IInv
BY InitIInv, NextInv, PTL DEF Spec

\* Accounts, credentials, sessions and requests keep their types.
THEOREM TypeCorrect == Spec => []TypeOK
<1>1. IInv => TypeOK
  BY DEF IInv
<1> QED
  BY <1>1, Invariance, PTL

\* No challenge, time-step, recovery code or device token opens two sessions,
\* however the logins overlap.
THEOREM CredentialsOpenOnce == Spec => []CredentialsSingleUse
<1>1. IInv => CredentialsSingleUse
  BY DEF IInv
<1> QED
  BY <1>1, Invariance, PTL

\* Enabling or disabling the second factor and changing the password leave no
\* device trusted.
THEOREM RevocationIsComplete == Spec => []NoDeviceSurvivesRevocation
<1>1. IInv => NoDeviceSurvivesRevocation
  BY DEF IInv
<1> QED
  BY <1>1, Invariance, PTL

\* A step that changes a session commits a login.
LEMMA Opening ==
    ASSUME IInv, [Next]_vars, NEW s \in Sids, session'[s] # session[s], NEW x \in session'[s].creds
    PROVE  InForce(x)
<1>1. \E p \in Requests : LoginCommit(p) \/ VerifyCommit(p)
  BY DEF Next, vars, Begin, Advance, LoginCheck, LoginFactor, LoginDevice, ChallengeCommit,
     VerifyLock, VerifyFactor, VerifyFail, OwnLock, OwnSecret, OwnDevices, OwnCommit,
     RevokeLock, RevokeCommit, Abort, DeadlockAbort, SetActive, Tick
<1>2. PICK p \in Requests : LoginCommit(p) \/ VerifyCommit(p)
  BY <1>1
<1>3. session' = [session EXCEPT ![req[p].sid] = [state |-> "open", creds |-> req[p].creds]]
  BY <1>2 DEF LoginCommit, VerifyCommit
<1>4. session'[s].creds = req[p].creds
  BY <1>3 DEF IInv, TypeOK
<1> QED
  BY <1>2, <1>4, LoginCommitInv, VerifyCommitInv

\* Every credential a login opens a session with is in force when it commits.
THEOREM FactorsInForce == Spec => FactorInForceAtCommit
<1>1. IInv /\ [Next]_vars =>
        [\A s \in Sids : session'[s] # session[s] => \A x \in session'[s].creds : InForce(x)]_vars
  BY Opening
<1> QED
  BY <1>1, Invariance, PTL DEF Spec, FactorInForceAtCommit
=============================================================================
