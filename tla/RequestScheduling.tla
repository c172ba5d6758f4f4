-------------------------- MODULE RequestScheduling --------------------------
(***************************************************************************)
(* How requests share the one process: the event loop, the connections of  *)
(* the pool and the rows that transactions lock (core/database.py and the  *)
(* shape of the handlers).                                                 *)
(*                                                                         *)
(* A "def" handler runs in a thread.  An "async def" handler (the uploads) *)
(* runs on the event loop itself and calls the synchronous session there,  *)
(* so that a statement that waits stops the loop.  The session of either   *)
(* is closed by get_db after the handler, which takes the loop to          *)
(* schedule: until then a refused request keeps its transaction, its       *)
(* connection and the rows it locked.                                      *)
(*                                                                         *)
(* Abstracted: one row stands for those that handlers lock (the students   *)
(* of a school, a user); every request is answered once.                   *)
(***************************************************************************)
EXTENDS Naturals, FiniteSets

CONSTANTS
    Threaded,       \* requests with a "def" handler that locks the row
    Coroutines,     \* requests with an "async def" handler that updates it
    Free,           \* nobody
    PoolSize        \* connections of the engine, overflow included

ASSUME SchedulingAssumption ==
    /\ Threaded \cap Coroutines = {}
    /\ Free \notin Threaded \cup Coroutines
    /\ IsFiniteSet(Threaded \cup Coroutines)
    /\ PoolSize \in Nat \ {0}

VARIABLES
    pc,
    loop,       \* the coroutine that runs between two awaits, or Free
    lock,       \* the request whose transaction holds the row, or Free
    inUse       \* the requests that have a connection of the pool

vars == <<pc, loop, lock, inUse>>

Requests == Threaded \cup Coroutines

To(r, label) == pc' = [pc EXCEPT ![r] = label]
GiveBack(r) ==
    /\ inUse' = inUse \ {r}
    /\ lock' = IF lock = r THEN Free ELSE lock

\* The loop hands the dependency get_current_user to a thread.
Dispatch(r) ==
    /\ pc[r] = "new" /\ loop = Free
    /\ To(r, "auth")
    /\ UNCHANGED <<loop, lock, inUse>>

\* Its first query takes a connection of the pool.
Connect(r) ==
    /\ pc[r] = "auth"
    /\ Cardinality(inUse) < PoolSize
    /\ inUse' = inUse \cup {r}
    /\ To(r, "authenticated")
    /\ UNCHANGED <<loop, lock>>

\* Mutant: every handler runs on the loop.
Enter_OnLoop(r) ==
    /\ pc[r] = "authenticated" /\ loop = Free
    /\ To(r, IF r \in Threaded THEN "body" ELSE "read")
    /\ loop' = IF r \in Threaded THEN r ELSE Free
    /\ UNCHANGED <<lock, inUse>>
\* The loop starts the handler: in a thread, or as a coroutine that reads the
\* body of the request.
Enter(r) ==
    /\ pc[r] = "authenticated" /\ loop = Free
    /\ To(r, IF r \in Threaded THEN "body" ELSE "read")
    /\ UNCHANGED <<loop, lock, inUse>>

\* SELECT ... FOR UPDATE in a thread.
LockRow(r) ==
    /\ pc[r] = "body" /\ lock = Free
    /\ lock' = r
    /\ To(r, "locked")
    /\ UNCHANGED <<loop, inUse>>

CommitBody(r) ==
    /\ pc[r] = "locked"
    /\ GiveBack(r)
    /\ To(r, "closing")
    /\ UNCHANGED loop

\* The handler raises an HTTPException, with the row locked or before.
Refuse(r) ==
    /\ \/ pc[r] \in {"body", "locked"} /\ UNCHANGED loop
       \/ pc[r] = "read" /\ loop = Free /\ UNCHANGED loop
    /\ To(r, "closing")
    /\ UNCHANGED <<lock, inUse>>

\* The body is read: the coroutine goes on and does not await again.
Resume(r) ==
    /\ pc[r] = "read" /\ loop = Free
    /\ loop' = r
    /\ To(r, "commit")
    /\ UNCHANGED <<lock, inUse>>

\* db.commit() on the loop: the UPDATE waits for the row.
CommitOnLoop(r) ==
    /\ pc[r] = "commit" /\ lock = Free
    /\ GiveBack(r)
    /\ To(r, "refresh")
    /\ UNCHANGED loop

\* db.refresh() on the loop: a connection is needed once more.
RefreshOnLoop(r) ==
    /\ pc[r] = "refresh"
    /\ Cardinality(inUse) < PoolSize
    /\ inUse' = inUse \cup {r}
    /\ loop' = Free
    /\ To(r, "closing")
    /\ UNCHANGED lock

\* Mutant: waiting for a connection has no end.
PoolTimeout_Never(r) == FALSE /\ pc[r] = "auth" /\ UNCHANGED vars
\* The pool gives up after its timeout: the request fails.
PoolTimeout(r) ==
    /\ pc[r] \in {"auth", "refresh"}
    /\ Cardinality(inUse) >= PoolSize
    /\ loop' = IF loop = r THEN Free ELSE loop
    /\ To(r, "closing")
    /\ UNCHANGED <<lock, inUse>>

\* Mutant: the session is not closed after the request.
Close_Leak(r) ==
    /\ pc[r] = "closing" /\ loop = Free
    /\ To(r, "done")
    /\ UNCHANGED <<loop, lock, inUse>>
\* get_db closes the session, from the loop: what the transaction holds is
\* rolled back and released.
Close(r) ==
    /\ pc[r] = "closing" /\ loop = Free
    /\ GiveBack(r)
    /\ To(r, "done")
    /\ UNCHANGED loop

Init ==
    /\ pc = [r \in Requests |-> "new"]
    /\ loop = Free /\ lock = Free
    /\ inUse = {}

Step(r) ==
    \/ Dispatch(r) \/ Connect(r) \/ Enter(r) \/ LockRow(r) \/ CommitBody(r) \/ Refuse(r)
    \/ Resume(r) \/ CommitOnLoop(r) \/ RefreshOnLoop(r) \/ PoolTimeout(r) \/ Close(r)

Done == (\A r \in Requests : pc[r] = "done") /\ UNCHANGED vars
Next == (\E r \in Requests : Step(r)) \/ Done

\* The loop runs its callbacks and the scheduler the threads, PostgreSQL grants a
\* row that is released, and the pool's clock runs.
Fairness == \A r \in Requests : WF_vars(Step(r))

Spec == Init /\ [][Next]_vars
FairSpec == Spec /\ Fairness

(***************************************************************************)
(* Properties.                                                             *)
(***************************************************************************)
Labels == {"new", "auth", "authenticated", "body", "locked", "read", "commit", "refresh",
           "closing", "done"}

\* Types of the state.
TypeOK ==
    /\ pc \in [Requests -> Labels]
    /\ loop \in Coroutines \cup {Free}
    /\ lock \in Threaded \cup {Free}
    /\ inUse \subseteq Requests

\* "get_db ... finally: db.close()" (database.py:49): what a request takes from
\* the pool it gives back, the pool never lends more than it has, and only a
\* request with a connection holds the row.
NothingLeaks ==
    /\ Cardinality(inUse) <= PoolSize
    /\ lock # Free => lock \in inUse
    /\ \A r \in inUse : pc[r] \notin {"new", "auth", "refresh", "done"}

\* The one way the process can stop: the coroutine on the loop waits for the row
\* of a request that has been refused and needs the loop to give it back.
Standstill == loop # Free /\ pc[loop] = "commit" /\ lock # Free /\ pc[lock] = "closing"

\* Full pools and waiting transactions resolve: every request ends, unless the
\* process comes to that standstill.
RequestsEnd == \A r \in Requests : <>(pc[r] = "done" \/ Standstill)

\* "GET /health is a process/liveness check. It does not query PostgreSQL. ...
\* Use liveness to determine whether the FastAPI process responds"
\* (OPERATIONS.md:57-60): the loop that answers it is always free again, also
\* while PostgreSQL makes transactions wait.
LivenessAnswered == []<>(loop = Free)
=============================================================================
