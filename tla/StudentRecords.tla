--------------------------- MODULE StudentRecords ---------------------------
(***************************************************************************)
(* The life of the student records of one school: creation, edits through  *)
(* the record form (PUT) and the Excel Grid, verification, printing,       *)
(* deactivation, and the history these leave (students.py,                 *)
(* student_grid.py, student_audit.py).                                     *)
(*                                                                         *)
(* Handlers run in a thread pool, each with a database session of its own. *)
(* None of these locks the student: a handler loads the row, checks it and *)
(* computes the new one ("Load..."), and a later commit writes the columns *)
(* whose value differs from the one loaded and adds the audit events.      *)
(* Two commits are atomic to each other: the ORM updates the rows of one   *)
(* flush in the order of their ids, and inserts the events after them, so  *)
(* that the ids of the events follow the order of the commits.  The        *)
(* history is not shown in that order: an event is dated by now(), the     *)
(* start of its transaction, which may be long before its load.            *)
(*                                                                         *)
(* Abstracted: full_name stands for every freely edited column, roll for a *)
(* key that is unique in the school (the admission number, and the roll    *)
(* number with session, class and section); the photograph is not modelled *)
(* here.                                                                   *)
(***************************************************************************)
EXTENDS Naturals, FiniteSets

CONSTANTS
    StudentCount,   \* students are numbered in the order of their ids
    Users,          \* accounts with access to the school's card data
    Admins,         \* those of them that administer the school
    Names, Rolls, Notes,
    NoUser, NoNote, NoRoll, Idle,
    Requests,
    Tokens,         \* whether a grid save may send expected_updated_at
    MaxTime,        \* bound: the times at which transactions begin
    MaxWork         \* bound: requests ever begun

ASSUME StudentsAssumption ==
    /\ StudentCount \in Nat /\ MaxWork \in Nat /\ MaxTime \in Nat
    /\ Admins \subseteq Users /\ Tokens \subseteq BOOLEAN
    /\ NoUser \notin Users /\ NoNote \notin Notes /\ NoRoll \notin Rolls

VARIABLES
    row,        \* the students table
    enrolled,   \* the ids that have a row
    told,       \* per column, what its audit events say
    req,
    work

vars == <<row, enrolled, told, req, work>>

Students == 1 .. StudentCount
Statuses == {"pending", "needs_correction", "verified"}

\* A row of students, as far as it is audited.
Student == [active: BOOLEAN, status: Statuses, note: Notes \cup {NoNote},
            verifier: Users \cup {NoUser}, name: Names, roll: Rolls \cup {NoRoll},
            count: Nat]
\* The columns the history speaks of; the verifier is told by the event's actor.
Audited == {"active", "status", "note", "name", "roll", "count"}
\* What student_created names: of the key, the admission number only.
NamedAtCreation == {"name"}
Lifecycle == {"status", "note", "verifier", "count"}

\* Mutant: the column has no default.
Created_NoCount(name, roll) ==
    [active |-> TRUE, status |-> "pending", note |-> NoNote, verifier |-> NoUser,
     name |-> name, roll |-> roll, count |-> NoNote]
\* A new row, the defaults of the columns included.
Created(name, roll) ==
    [active |-> TRUE, status |-> "pending", note |-> NoNote, verifier |-> NoUser,
     name |-> name, roll |-> roll, count |-> 0]

Ops == {"create", "edit", "grid", "verification", "print", "delete"}
Times == 1 .. MaxTime
\* A request between its checks and its commit: the start of its transaction, the
\* rows as it loaded them and as its session holds them now.
Request == [op: Ops, began: Times, targets: SUBSET Students, seen: [Students -> Student],
            new: [Students -> Student], token: BOOLEAN]

\* The events of a column: the one with the highest id and the one the history
\* shows first; at 0 stands for no event, and for the value the row had then.
Told(value, at) == [last |-> [value |-> value, at |-> at], shown |-> [value |-> value, at |-> at]]
\* A further event of the column; the history is sorted by created_at and id.
Hear(old, value, at) ==
    IF at >= old.shown.at THEN Told(value, at)
    ELSE [last |-> [value |-> value, at |-> at], shown |-> old.shown]

(***************************************************************************)
(* Loading and computing.                                                  *)
(***************************************************************************)
\* The request goes on to its commit with the rows `new' of the students T.  Its
\* transaction began with the query for the caller, before or after any other.
Planned(r, op, T, new, token) ==
    \E began \in Times :
        req' = [req EXCEPT ![r] = [op |-> op, began |-> began, targets |-> T, seen |-> row,
            new |-> [s \in Students |-> IF s \in T THEN new[s] ELSE row[s]],
            token |-> token]]

Begin(r) ==
    /\ req[r] = Idle
    /\ work < MaxWork
    /\ work' = work + 1
    /\ UNCHANGED <<row, enrolled, told>>

\* Mutant: inactive students are not looked at.
RollConflict_Active(roll, s) ==
    roll # NoRoll /\ \E t \in enrolled \ {s} : row[t].active /\ row[t].roll = roll
\* student_roll_conflict_query: another row, active or not, has the roll.
RollConflict(roll, s) ==
    roll # NoRoll /\ \E t \in enrolled \ {s} : row[t].roll = roll

\* A fresh uuid: not one another request is about to insert.
Fresh(s) ==
    /\ s \notin enrolled
    /\ \A r \in Requests : req[r] # Idle => ~ (req[r].op = "create" /\ s \in req[r].targets)

LoadCreate(r) ==
    /\ Begin(r)
    /\ \E s \in Students, name \in Names, roll \in Rolls \cup {NoRoll} :
        /\ Fresh(s)
        /\ ~ RollConflict(roll, s)
        /\ Planned(r, "create", {s}, [t \in {s} |-> Created(name, roll)], FALSE)

\* The edit form: an operator neither changes the activation nor edits an
\* inactive record.
LoadEdit(r) ==
    /\ Begin(r)
    /\ \E s \in enrolled, u \in Users, name \in Names, roll \in Rolls \cup {NoRoll},
          active \in BOOLEAN :
        /\ u \in Admins \/ (row[s].active /\ active)
        /\ ~ RollConflict(roll, s)
        /\ Planned(r, "edit", {s},
               [t \in {s} |-> [row[s] EXCEPT !.name = name, !.roll = roll, !.active = active]],
               FALSE)

\* _active_student, and the queries of the batch operations.
Active(T) == T # {} /\ T \subseteq {s \in enrolled : row[s].active}

\* The rows `new' of the students T leave every roll number to one student.
UniqueRolls(table, ids) ==
    \A s, t \in ids : s # t /\ table[s].roll # NoRoll => table[s].roll # table[t].roll

Merged(T, new) == [s \in Students |-> IF s \in T THEN new[s] ELSE row[s]]

\* Rows with an expected_updated_at that is not the row's are refused here; the
\* uniqueness of the final values is checked before anything is changed.
LoadGrid(r) ==
    /\ Begin(r)
    /\ \E T \in SUBSET enrolled, token \in Tokens :
        /\ Active(T)
        /\ \E name \in [T -> Names], roll \in [T -> Rolls \cup {NoRoll}] :
            LET new == [s \in T |-> [row[s] EXCEPT !.name = name[s], !.roll = roll[s]]]
            IN  /\ UniqueRolls(Merged(T, new), enrolled)
                /\ Planned(r, "grid", T, new, token)

\* Mutant: a transition away from verified keeps the verifier.
Transition_VerifierKept(s, target, note, actor) ==
    LET kept == IF target = "needs_correction" THEN note ELSE NoNote
    IN  IF s.status = target /\ s.note = kept THEN s
        ELSE [s EXCEPT !.status = target, !.note = kept,
                       !.verifier = IF target = "verified" THEN actor ELSE s.verifier]
\* _apply_verification_transition
Transition(s, target, note, actor) ==
    LET kept == IF target = "needs_correction" THEN note ELSE NoNote
    IN  IF s.status = target /\ s.note = kept THEN s
        ELSE [s EXCEPT !.status = target, !.note = kept,
                       !.verifier = IF target # "verified" THEN NoUser
                                    ELSE IF s.status # "verified" THEN actor
                                    ELSE s.verifier]

\* One student, by an administrator, to any status; a correction needs a note.
LoadVerification(r) ==
    /\ Begin(r)
    /\ \E s \in Students, u \in Admins, target \in Statuses, note \in Notes :
        /\ Active({s})
        /\ Planned(r, "verification", {s},
               [t \in {s} |-> Transition(row[s], target, note, u)], FALSE)

\* The batch refuses students that are verified already.
Verifiable(T) == \A s \in T : row[s].status # "verified"
LoadBatchVerify(r) ==
    /\ Begin(r)
    /\ \E T \in SUBSET Students, u \in Admins :
        /\ Active(T)
        /\ Verifiable(T)
        /\ Planned(r, "verification", T,
               [s \in T |-> Transition(row[s], "verified", NoNote, u)], FALSE)

\* Marking printed, one student or a batch.
Printed(s) == [s EXCEPT !.count = @ + 1]
Printable(T) == \A s \in T : row[s].status = "verified"
LoadPrint(r) ==
    /\ Begin(r)
    /\ \E T \in SUBSET Students :
        /\ Active(T)
        /\ Printable(T)
        /\ Planned(r, "print", T, [s \in T |-> Printed(row[s])], FALSE)

LoadDelete(r) ==
    /\ Begin(r)
    /\ \E s \in Students :
        /\ Active({s})
        /\ Planned(r, "delete", {s}, [t \in {s} |-> [row[s] EXCEPT !.active = FALSE]], FALSE)

(***************************************************************************)
(* Committing.                                                             *)
(***************************************************************************)
\* Mutant: the whole row is written back.
Written_WholeRow(seen, new, there) == IF new # seen THEN new ELSE there
\* What an UPDATE leaves of a row: the columns whose value in the session
\* differs from the value loaded are written, the others keep what is there.
Written(seen, new, there) ==
    [c \in DOMAIN there |-> IF new[c] # seen[c] THEN new[c] ELSE there[c]]

\* The row a request leaves of student s.
Result(r, s) ==
    IF s \notin req[r].targets THEN row[s]
    ELSE IF req[r].op = "create" THEN req[r].new[s]
    ELSE Written(req[r].seen[s], req[r].new[s], row[s])

\* Mutant: deactivation leaves no event.
Tells_NotDeactivation(r, s, c) ==
    /\ c # "active"
    /\ IF req[r].op = "create" THEN c \in NamedAtCreation
       ELSE req[r].new[s][c] # req[r].seen[s][c]
\* A column of a written row that an audit event of this request names:
\* record_student_audit and record_student_field_changes compare the values loaded
\* with those set.
Tells(r, s, c) ==
    IF req[r].op = "create" THEN c \in NamedAtCreation
    ELSE req[r].new[s][c] # req[r].seen[s][c]

\* What the events of column c of student s say once the request's are added.
Heard(r, s, c) ==
    LET new == req[r].new[s][c] IN
    IF s \notin req[r].targets THEN told[s][c]
    ELSE IF req[r].op = "create" THEN Told(new, IF Tells(r, s, c) THEN req[r].began ELSE 0)
    ELSE IF Tells(r, s, c) THEN Hear(told[s][c], new, req[r].began)
    ELSE told[s][c]

\* Rows after the request's writes to the students up to id i.
Prefix(r, i) == [s \in Students |-> IF s <= i THEN Result(r, s) ELSE row[s]]

\* The unique constraints are checked row by row, in the order of the ids.
Accepted(r) ==
    \A i \in Students : UniqueRolls(Prefix(r, i), enrolled \cup req[r].targets)

Commit(r) ==
    /\ req[r] # Idle
    /\ Accepted(r)
    /\ row' = [s \in Students |-> Result(r, s)]
    /\ enrolled' = enrolled \cup req[r].targets
    /\ told' = [s \in Students |-> [c \in Audited |-> Heard(r, s, c)]]
    /\ req' = [req EXCEPT ![r] = Idle]
    /\ UNCHANGED work

\* IntegrityError: the transaction is rolled back, nothing is saved.
Conflict(r) ==
    /\ req[r] # Idle
    /\ ~ Accepted(r)
    /\ req' = [req EXCEPT ![r] = Idle]
    /\ UNCHANGED <<row, enrolled, told, work>>

\* The connection, the process or the transaction fails before the commit.
Abort(r) ==
    /\ req[r] # Idle
    /\ req' = [req EXCEPT ![r] = Idle]
    /\ UNCHANGED <<row, enrolled, told, work>>

-----------------------------------------------------------------------------
\* A school that has students with a first name and no roll number, and none.
Init ==
    /\ enrolled \in SUBSET Students
    /\ \E name \in Names : row = [s \in Students |-> Created(name, NoRoll)]
    /\ told = [s \in Students |-> [c \in Audited |-> Told(row[s][c], 0)]]
    /\ req = [r \in Requests |-> Idle]
    /\ work = 0

Load(r) ==
    \/ LoadCreate(r) \/ LoadEdit(r) \/ LoadGrid(r) \/ LoadVerification(r)
    \/ LoadBatchVerify(r) \/ LoadPrint(r) \/ LoadDelete(r)

Next == \E r \in Requests : Load(r) \/ Commit(r) \/ Conflict(r) \/ Abort(r)

Spec == Init /\ [][Next]_vars

-----------------------------------------------------------------------------
(***************************************************************************)
(* Properties.                                                             *)
(***************************************************************************)
\* Rows, history and requests have their type.
TypeOK ==
    /\ row \in [Students -> Student]
    /\ enrolled \subseteq Students
    /\ \A s \in Students : DOMAIN told[s] = Audited
    /\ DOMAIN told = Students
    /\ req \in [Requests -> Request \cup {Idle}]
    /\ work \in 0 .. MaxWork

\* The event shown first is of a transaction that began after the one that wrote
\* the column last, and yet committed before it.
Overtaken(s, c) == told[s][c].shown.at > told[s][c].last.at

\* However the edits, decisions and prints of one student overlap, the event of a
\* column that was inserted last states the value in the row, and the history shows
\* it first except where the transaction it is of was overtaken: README.md:161
\* "update paths record changes only when values actually change".
AuditTellsTheRow ==
    \A s \in Students, c \in Audited :
        /\ told[s][c].last.value = row[s][c]
        /\ ~Overtaken(s, c) => told[s][c].shown.value = row[s][c]

\* An edit that was loaded before a decision and is saved after it does not undo
\* the decision: README.md:157 "Verification metadata and correction notes are
\* managed through dedicated lifecycle operations rather than ordinary student
\* edits".
Ends(r) == req[r] # Idle /\ req'[r] = Idle
EditsKeepLifecycle ==
    [][\A r \in Requests : Ends(r) /\ req[r].op \in {"edit", "grid", "delete"} =>
          \A s \in Students, c \in Lifecycle : row'[s][c] = row[s][c]]_vars

\* A row takes the roll that a row with a higher id gives up in the same save.
PassedDown(r) ==
    \E s, t \in req[r].targets :
        s < t /\ req[r].new[s].roll # NoRoll /\ req[r].new[s].roll = req[r].seen[t].roll

\* A save of validated rows in a table that is still as it was loaded is refused by
\* the unique constraint when, and only when, it passes a roll down in the order of
\* the ids (student_grid.py:408 checks the final values, student_grid.py:438 writes
\* row by row).
RefusedWhenPassedDown ==
    \A r \in Requests :
        req[r] # Idle /\ req[r].seen = row => (Accepted(r) <=> ~PassedDown(r))

\* The saving request loaded the rows it is about to write.
SawItsRows(r) == \A s \in req[r].targets : req[r].seen[s] = row[s]

\* Exactly the verified students name a verifier and exactly those that need a
\* correction carry a note (tests/test_student_lifecycle.py:166 and :187).  A save
\* computed from a row that is not there any more is excepted: two decisions that
\* overlap may leave the verifier of the one with the status of the other.
Coherent ==
    \A s \in Students :
        /\ row[s].status = "verified" <=> row[s].verifier # NoUser
        /\ row[s].status = "needs_correction" <=> row[s].note # NoNote
VerificationCoherent ==
    [][Coherent /\ (\A r \in Requests : Ends(r) => SawItsRows(r)) => Coherent']_vars

\* A grid save with expected_updated_at replaces the rows it was compared with:
\* README.md:192 "compares each supplied expected_updated_at with the current
\* row to detect optimistic-concurrency conflicts".
GridTokenHolds ==
    [][\A r \in Requests :
          req[r] # Idle /\ req[r].op = "grid" /\ req[r].token /\ Ends(r)
          /\ row' # row
          => \A s \in req[r].targets : row[s] = req[r].seen[s]]_vars
=============================================================================
