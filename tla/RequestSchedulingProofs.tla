---------------------- MODULE RequestSchedulingProofs ----------------------
(***************************************************************************)
(* What RequestScheduling promises of the pool and the row, and the one    *)
(* way in which it can stop, for any number of requests and connections.   *)
(***************************************************************************)
EXTENDS RequestScheduling, FiniteSetTheorems, TLAPS

\* A request has a connection from its first query to its commit, and again from
\* the refresh; only such a request holds the row, until it is closed.
Connected == {"authenticated", "body", "locked", "read", "commit", "closing"}
HoldersInv ==
    /\ \A r \in inUse : pc[r] \in Connected
    /\ \A r \in Requests : pc[r] \in Connected \ {"closing"} => r \in inUse
    /\ lock # Free => lock \in inUse /\ pc[lock] \in {"locked", "closing"}
    /\ Cardinality(inUse) <= PoolSize
KindsInv ==
    /\ \A r \in Requests : pc[r] \in {"body", "locked"} => r \in Threaded
    /\ \A r \in Requests : pc[r] \in {"read", "commit", "refresh"} => r \in Coroutines

\* The inductive invariant of RequestScheduling.
IInv == TypeOK /\ HoldersInv /\ KindsInv

\* At most PoolSize connections are lent when one is added below the limit or
\* some are given back.
LEMMA PoolBounds ==
    ASSUME NEW S, S \subseteq Requests, NEW r \in Requests
    PROVE  /\ Cardinality(S) \in Nat
           /\ Cardinality(S \ {r}) <= Cardinality(S)
           /\ Cardinality(S) < PoolSize => Cardinality(S \cup {r}) <= PoolSize
<1>1. IsFiniteSet(S)
    BY FS_Subset, SchedulingAssumption DEF Requests
<1>2. Cardinality(S) \in Nat
    BY <1>1, FS_CardinalityType
<1>3. Cardinality(S \ {r}) = IF r \in S THEN Cardinality(S) - 1 ELSE Cardinality(S)
    BY <1>1, FS_RemoveElement
<1>4. Cardinality(S \cup {r}) = IF r \in S THEN Cardinality(S) ELSE Cardinality(S) + 1
    BY <1>1, FS_AddElement
<1> QED BY <1>2, <1>3, <1>4, SchedulingAssumption

\* No connection is lent and nobody runs at the start.
LEMMA InitInv == Init => IInv
<1> SUFFICES ASSUME Init PROVE IInv
    OBVIOUS
<1>1. Cardinality(inUse) = 0
    BY FS_EmptySet DEF Init
<1> QED BY <1>1, SchedulingAssumption DEF Init, IInv, TypeOK, HoldersInv, KindsInv, Labels, Connected

\* Every step of a request preserves the invariant.
LEMMA StepInv ==
    ASSUME IInv, NEW r \in Requests, Step(r)
    PROVE  IInv'
<1> USE SchedulingAssumption DEF IInv, TypeOK, HoldersInv, KindsInv, Labels, Connected, To
<1>1. CASE Dispatch(r)
    BY <1>1 DEF Dispatch
<1>2. CASE Connect(r)
    <2>1. Cardinality(inUse') <= PoolSize
        BY <1>2, PoolBounds DEF Connect
    <2> QED BY <1>2, <2>1 DEF Connect
<1>3. CASE Enter(r)
    BY <1>3 DEF Enter, Requests
<1>4. CASE LockRow(r)
    BY <1>4 DEF LockRow
<1>5. CASE CommitBody(r)
    <2>1. Cardinality(inUse') <= PoolSize
        BY <1>5, PoolBounds DEF CommitBody, GiveBack
    <2> QED BY <1>5, <2>1 DEF CommitBody, GiveBack
<1>6. CASE Refuse(r)
    BY <1>6 DEF Refuse
<1>7. CASE Resume(r)
    BY <1>7 DEF Resume
<1>8. CASE CommitOnLoop(r)
    <2>1. Cardinality(inUse') <= PoolSize
        BY <1>8, PoolBounds DEF CommitOnLoop, GiveBack
    <2> QED BY <1>8, <2>1 DEF CommitOnLoop, GiveBack
<1>9. CASE RefreshOnLoop(r)
    <2>1. Cardinality(inUse') <= PoolSize
        BY <1>9, PoolBounds DEF RefreshOnLoop
    <2> QED BY <1>9, <2>1 DEF RefreshOnLoop
<1>10. CASE PoolTimeout(r)
    BY <1>10 DEF PoolTimeout
<1>11. CASE Close(r)
    <2>1. Cardinality(inUse') <= PoolSize
        BY <1>11, PoolBounds DEF Close, GiveBack
    <2> QED BY <1>11, <2>1 DEF Close, GiveBack
<1> QED BY <1>1, <1>2, <1>3, <1>4, <1>5, <1>6, <1>7, <1>8, <1>9, <1>10, <1>11 DEF Step

\* The invariant holds in every reachable state.
THEOREM Invariance == Spec => []IInv
<1>1. IInv /\ [Next]_vars => IInv'
    <2> SUFFICES ASSUME IInv, [Next]_vars PROVE IInv'
        OBVIOUS
    <2>1. CASE \E r \in Requests : Step(r)
        BY <2>1, StepInv
    <2>2. CASE UNCHANGED vars
        BY <2>2 DEF IInv, TypeOK, HoldersInv, KindsInv, vars
    <2> QED BY <2>1, <2>2 DEF Next, Done
<1> QED BY InitInv, <1>1, PTL DEF Spec

\* The state keeps its type (get_db, the handlers' shape).
THEOREM TypeCorrect == Spec => []TypeOK
<1>1. IInv => TypeOK
    BY DEF IInv
<1> QED BY Invariance, <1>1, PTL

\* A request gives back what it took from the pool, the pool is never exceeded,
\* and a row is only held with a connection (database.py:49, get_db).
THEOREM PoolIsKept == Spec => []NothingLeaks
<1>1. IInv => NothingLeaks
    BY DEF IInv, TypeOK, HoldersInv, NothingLeaks, Connected
<1> QED BY Invariance, <1>1, PTL
-----------------------------------------------------------------------------
(***************************************************************************)
(* What is behind RequestsEnd, short of fairness: a step brings its        *)
(* request nearer to its end, outside Standstill there is a step to take,  *)
(* and Standstill has no way out.                                          *)
(***************************************************************************)
\* A coroutine is on the loop while it executes commit and refresh, and only then.
LoopInv == \A r \in Requests : pc[r] \in {"commit", "refresh"} <=> loop = r

\* The guards of the steps of r, where the handler is not refused: a request at the
\* pool has a connection or its timeout.
Ready(r) ==
    \/ pc[r] \in {"new", "authenticated", "read", "closing"} /\ loop = Free
    \/ pc[r] \in {"auth", "refresh", "locked"}
    \/ pc[r] \in {"body", "commit"} /\ lock = Free

\* How far a request is.
Rank == [new |-> 0, auth |-> 1, authenticated |-> 2, body |-> 3, read |-> 3, locked |-> 4,
         commit |-> 4, refresh |-> 5, closing |-> 6, done |-> 7]

\* Nobody is on the loop at the start.
LEMMA InitLoop == Init => LoopInv
BY SchedulingAssumption DEF Init, LoopInv, Requests

\* Every step of a request keeps LoopInv.
LEMMA StepLoop ==
    ASSUME IInv, LoopInv, NEW r \in Requests, Step(r)
    PROVE  LoopInv'
<1> USE SchedulingAssumption DEF IInv, TypeOK, KindsInv, LoopInv, To, Requests
<1>1. CASE Dispatch(r) \/ Connect(r) \/ Enter(r)
    BY <1>1 DEF Dispatch, Connect, Enter
<1>2. CASE LockRow(r) \/ CommitBody(r) \/ Refuse(r)
    BY <1>2 DEF LockRow, CommitBody, Refuse
<1>3. CASE Resume(r) \/ CommitOnLoop(r) \/ RefreshOnLoop(r)
    BY <1>3 DEF Resume, CommitOnLoop, RefreshOnLoop
<1>4. CASE PoolTimeout(r) \/ Close(r)
    BY <1>4 DEF PoolTimeout, Close
<1> QED BY <1>1, <1>2, <1>3, <1>4 DEF Step

\* Both invariants hold in every reachable state.
LEMMA LoopInvariance == Spec => [](IInv /\ LoopInv)
<1>1. IInv /\ LoopInv /\ [Next]_vars => LoopInv'
    <2> SUFFICES ASSUME IInv, LoopInv, [Next]_vars PROVE LoopInv'
        OBVIOUS
    <2>1. CASE \E r \in Requests : Step(r)
        BY <2>1, StepLoop
    <2>2. CASE UNCHANGED vars
        BY <2>2 DEF LoopInv, vars
    <2> QED BY <2>1, <2>2 DEF Next, Done
<1> QED BY InitLoop, Invariance, <1>1, PTL DEF Spec

\* Ready is what every step asks for that is not a refusal.
LEMMA StepsNeedReady ==
    ASSUME NEW r \in Requests, Step(r), ~Refuse(r)
    PROVE  Ready(r)
BY DEF Step, Ready, Dispatch, Connect, Enter, LockRow, CommitBody, Resume,
    CommitOnLoop, RefreshOnLoop, PoolTimeout, Close

\* Each step of a request moves it on and no other: none takes more than seven, and
\* no request runs for ever (no handler retries).
THEOREM StepsAdvance ==
    Spec => [][\E r \in Requests :
                /\ Rank[pc'[r]] > Rank[pc[r]]
                /\ \A q \in Requests \ {r} : pc'[q] = pc[q]]_vars
<1> DEFINE Advance(r) ==
        /\ Rank[pc'[r]] > Rank[pc[r]]
        /\ \A q \in Requests \ {r} : pc'[q] = pc[q]
<1>1. ASSUME IInv, NEW r \in Requests, Step(r) PROVE Advance(r)
    <2> USE <1>1 DEF IInv, TypeOK, To, Rank
    <2>1. CASE Dispatch(r) \/ Connect(r)
        BY <2>1 DEF Dispatch, Connect
    <2>2. CASE Enter(r)
        BY <2>2 DEF Enter
    <2>3. CASE LockRow(r) \/ CommitBody(r)
        BY <2>3 DEF LockRow, CommitBody
    <2>4. CASE Refuse(r)
        BY <2>4 DEF Refuse
    <2>5. CASE Resume(r) \/ CommitOnLoop(r) \/ RefreshOnLoop(r)
        BY <2>5 DEF Resume, CommitOnLoop, RefreshOnLoop
    <2>6. CASE PoolTimeout(r) \/ Close(r)
        BY <2>6 DEF PoolTimeout, Close
    <2> QED BY <2>1, <2>2, <2>3, <2>4, <2>5, <2>6 DEF Step
<1>2. IInv /\ [Next]_vars => [\E r \in Requests : Advance(r)]_vars
    BY <1>1 DEF Next, Done
<1> QED BY <1>2, Invariance, PTL DEF Spec

\* Unless all have ended, some request can go on; but for the standstill in which
\* the coroutine on the loop waits for the row of a request that needs the loop
\* (students.py:410 against bulk_student_photos.py:693).
THEOREM OnlyStandstillStops ==
    Spec => []((\A r \in Requests : pc[r] = "done") \/ Standstill \/ \E r \in Requests : Ready(r))
<1>1. ASSUME IInv, LoopInv, NEW r \in Requests, pc[r] # "done", ~Standstill
      PROVE  \E q \in Requests : Ready(q)
    <2>1. CASE loop = Free
        <3>1. pc[r] # "commit"
            BY <1>1, <2>1, SchedulingAssumption DEF LoopInv, Requests
        <3>2. CASE pc[r] = "body" /\ lock # Free
            <4>1. lock \in Requests /\ pc[lock] \in {"locked", "closing"}
                BY <1>1, <3>2 DEF IInv, TypeOK, HoldersInv, Requests
            <4> QED BY <2>1, <4>1 DEF Ready
        <3> QED BY <1>1, <2>1, <3>1, <3>2 DEF Ready, IInv, TypeOK, Labels
    <2>2. CASE loop # Free
        <3>1. loop \in Requests /\ pc[loop] \in {"commit", "refresh"}
            BY <1>1, <2>2 DEF IInv, TypeOK, LoopInv, Requests
        <3>2. CASE pc[loop] = "refresh" \/ lock = Free
            BY <3>1, <3>2 DEF Ready
        <3>3. CASE pc[loop] = "commit" /\ lock # Free
            <4>1. lock \in Requests /\ pc[lock] = "locked"
                BY <1>1, <2>2, <3>3 DEF IInv, TypeOK, HoldersInv, Standstill, Requests
            <4> QED BY <4>1 DEF Ready
        <3> QED BY <3>1, <3>2, <3>3
    <2> QED BY <2>1, <2>2
<1>2. IInv /\ LoopInv =>
        (\A r \in Requests : pc[r] = "done") \/ Standstill \/ \E r \in Requests : Ready(r)
    BY <1>1
<1> QED BY <1>2, LoopInvariance, PTL

\* Nothing ends the standstill: it is the process that has to be restarted.
THEOREM StandstillIsFinal == Spec => [](Standstill => []Standstill)
<1>1. ASSUME IInv, LoopInv, Standstill, NEW r \in Requests, Step(r) PROVE Standstill'
    <2> USE SchedulingAssumption, <1>1 DEF IInv, TypeOK, LoopInv, Standstill, To, Requests
    <2>1. r # loop /\ r # lock
        BY StepsNeedReady DEF Ready, Refuse
    <2>2. CASE Dispatch(r) \/ Connect(r) \/ Enter(r)
        BY <2>1, <2>2 DEF Dispatch, Connect, Enter
    <2>3. CASE LockRow(r) \/ CommitBody(r) \/ Refuse(r)
        BY <2>1, <2>3 DEF LockRow, CommitBody, Refuse, GiveBack
    <2>4. CASE Resume(r) \/ CommitOnLoop(r) \/ RefreshOnLoop(r)
        BY <2>1, <2>4 DEF Resume, CommitOnLoop, RefreshOnLoop
    <2>5. CASE PoolTimeout(r) \/ Close(r)
        BY <2>1, <2>5 DEF PoolTimeout, Close
    <2> QED BY <2>2, <2>3, <2>4, <2>5 DEF Step
<1>2. IInv /\ LoopInv /\ Standstill /\ [Next]_vars => Standstill'
    BY <1>1 DEF Next, Done, vars, Standstill
<1> QED BY <1>2, LoopInvariance, PTL DEF Spec
=============================================================================
