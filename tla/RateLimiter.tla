---------------------------- MODULE RateLimiter ----------------------------
(***************************************************************************)
(* The sliding-window limiter of one process (core/rate_limit.py).         *)
(*                                                                         *)
(* A check reads the clock before it takes the lock, so that checks of     *)
(* concurrent requests reach the windows out of the order of their times.  *)
(* Every PurgeEvery-th check drops the windows it takes for expired.       *)
(***************************************************************************)
EXTENDS Naturals, Sequences, FiniteSets

CONSTANTS
    Keys,           \* a bucket and a client address, or a link and an address
    Limit, Window,  \* of the settings
    PurgeEvery,     \* 1000
    None,
    Requests,
    MaxTime,        \* bound on the clock
    MaxWork         \* bound: requests ever begun

LimiterAssumption == Limit \in Nat /\ Window \in Nat

VARIABLES
    clock,      \* monotonic
    window,     \* per key the timestamps, _requests
    checks,     \* _checks, modulo PurgeEvery
    req,        \* per request the key and the time it has read, or None
    work,
    admitted,   \* history: per key the times of the requests let through
    forgotten   \* history: keys of which a purge dropped a live timestamp

vars == <<clock, window, checks, req, work, admitted, forgotten>>

\* _enforce and its counterparts ask for a key, and check reads the clock.
Check(k) == [key |-> k, now |-> clock]

\* now <= cutoff, with now and cutoff moved up by Window.
Expired(t, now) == t + Window <= now

\* check, before the lock.
ReadClock(r) ==
    /\ req[r] = None
    /\ work < MaxWork /\ work' = work + 1
    /\ \E k \in Keys : req' = [req EXCEPT ![r] = Check(k)]
    /\ UNCHANGED <<clock, window, checks, admitted, forgotten>>

\* The windows after the purge of a check at time now: the last timestamp decides.
Purged(now) ==
    [k \in Keys |-> IF window[k] # <<>> /\ Expired(window[k][Len(window[k])], now) THEN <<>>
                    ELSE window[k]]

\* What remains of a window: expired timestamps leave at its head.
ExpiredHead(ts, now) == {i \in 1 .. Len(ts) : \A j \in 1 .. i : Expired(ts[j], now)}
Slid(ts, now) == SubSeq(ts, Cardinality(ExpiredHead(ts, now)) + 1, Len(ts))

\* Mutant: one request more than the limit.
Full_OneMore(ts) == Len(ts) > Limit
Full(ts) == Len(ts) >= Limit

\* check, under the lock.
Decide(r) ==
    LET k == req[r].key
        now == req[r].now
        purges == checks + 1 = PurgeEvery
        kept == IF purges THEN Purged(now) ELSE window
        slid == Slid(kept[k], now) IN
    /\ req[r] # None
    /\ checks' = IF purges THEN 0 ELSE checks + 1
    /\ forgotten' = forgotten \cup
           {l \in Keys : kept[l] # window[l] /\ \E i \in 1 .. Len(window[l]) : ~Expired(window[l][i], now)}
    /\ window' = [kept EXCEPT ![k] = IF Full(slid) THEN slid ELSE Append(slid, now)]
    /\ admitted' = IF Full(slid) THEN admitted ELSE [admitted EXCEPT ![k] = Append(@, now)]
    /\ req' = [req EXCEPT ![r] = None]
    /\ UNCHANGED <<clock, work>>

Tick ==
    /\ clock < MaxTime /\ clock' = clock + 1
    /\ UNCHANGED <<window, checks, req, work, admitted, forgotten>>

Init ==
    /\ clock = 1
    /\ window = [k \in Keys |-> <<>>]
    /\ checks = 0
    /\ req = [r \in Requests |-> None]
    /\ work = 0
    /\ admitted = [k \in Keys |-> <<>>]
    /\ forgotten = {}

Next == Tick \/ \E r \in Requests : ReadClock(r) \/ Decide(r)

-----------------------------------------------------------------------------
\* "Thread-safe sliding-window limiter" (rate_limit.py:29): of the requests whose
\* time lies in the last Window no more than Limit were let through, in whatever
\* order they have taken the lock.  Excepted are the keys of which a purge dropped
\* a live timestamp because a later one in the window was older.
WindowHolds ==
    \A k \in Keys \ forgotten :
        Cardinality({i \in 1 .. Len(admitted[k]) : ~Expired(admitted[k][i], clock)}) <= Limit
=============================================================================
