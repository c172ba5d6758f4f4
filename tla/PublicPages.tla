----------------------------- MODULE PublicPages -----------------------------
(***************************************************************************)
(* What a school shows to the public: the links to the design of its cards *)
(* (CardTemplates), its form (FormSubmissions), the verification links of  *)
(* its students (PublicCredentials), and the limiter before them           *)
(* (RateLimiter).  No handler decides by the state of two of them.         *)
(***************************************************************************)
EXTENDS CardTemplates

CONSTANTS
    None,
    Subs, Keys, Visits, MaxObjects, MaxVisits,          \* of FormSubmissions
    Pupils, Validity, Orders, MaxClock, MaxOrders,      \* of PublicCredentials
    Limit, Window, PurgeEvery, MaxTicks, MaxCalls       \* of RateLimiter

VARIABLES
    sub, student, claim, review, store, fresh, visit, visits, lost, faults,
    link, school, now, tokens, order, orders, superseded, denied,
    clock, window, checks, caller, calls, admitted, forgotten

Forms == INSTANCE FormSubmissions WITH
    Requests <- Visits, MaxWork <- MaxVisits, lock <- review, req <- visit, work <- visits

Credentials == INSTANCE PublicCredentials WITH
    Students <- Pupils, Requests <- Orders, MaxTime <- MaxClock, MaxWork <- MaxOrders,
    req <- order, work <- orders

Limiter == INSTANCE RateLimiter WITH
    Keys <- Pupils, Requests <- Visits, MaxTime <- MaxTicks, MaxWork <- MaxCalls,
    req <- caller, work <- calls

formVars == <<sub, student, claim, review, store, fresh, visit, visits, lost, faults>>
linkVars == <<link, school, now, tokens, order, orders, superseded, denied>>
limiterVars == <<clock, window, checks, caller, calls, admitted, forgotten>>

ASSUME PagesAssumption ==
    /\ Forms!FormsAssumption /\ Credentials!CredentialsAssumption /\ Limiter!LimiterAssumption

PagesNext ==
    \/ Next /\ UNCHANGED <<formVars, linkVars, limiterVars>>
    \/ Forms!Next /\ UNCHANGED <<vars, linkVars, limiterVars>>
    \/ Credentials!Next /\ UNCHANGED <<vars, formVars, limiterVars>>
    \/ Limiter!Next /\ UNCHANGED <<vars, formVars, linkVars>>

PagesSpec ==
    /\ Init /\ Forms!Init /\ Credentials!Init /\ Limiter!Init
    /\ [][PagesNext]_<<vars, formVars, linkVars, limiterVars>>

\* Submissions are decided once and for good.
DecidedOnce == Forms!DecidedOnce
\* Types; photographs that are referred to exist; the bucket keeps no other.
PhotosHold == Forms!TypeOK /\ Forms!PhotosHold /\ Forms!NothingLeftBehind
\* Replaced and disabled verification links are refused.
RevokedCredentialsRefused == Credentials!RevokedCredentialsRefused
\* No window lets more requests through than the limit.
WindowHolds == Limiter!WindowHolds
=============================================================================
