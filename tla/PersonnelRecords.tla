-------------------------- MODULE PersonnelRecords --------------------------
(***************************************************************************)
(* Teachers and staff of one school: creation, edits through the form and  *)
(* the grid, change of type, verification, printing, deactivation, bulk    *)
(* import, and the custom fields of each type (personnel.py,               *)
(* personnel_grid.py, personnel_imports.py, personnel_fields.py,           *)
(* core/custom_fields.py).                                                 *)
(*                                                                         *)
(* As in StudentRecords a handler loads rows and definitions without a     *)
(* lock, validates ("Load..."), and commits later what differs from its    *)
(* load.  What is particular here: employee numbers are compared without   *)
(* regard to case but constrained with it; custom values are rows of their *)
(* own, that are inserted, updated and deleted; a change of type removes   *)
(* the values of the former type.                                          *)
(*                                                                         *)
(* Abstracted: employee_no stands for every freely edited column; of the   *)
(* correction note only its presence matters; photographs are in           *)
(* PhotoStorage.                                                           *)
(***************************************************************************)
EXTENDS Naturals

CONSTANTS
    PersonCount,    \* persons are numbered in the order of their ids
    Admins,         \* accounts that administer the school
    Numbers,        \* employee numbers
    Fold,           \* per number the one it equals without regard to case
    Fields,         \* custom fields there may be
    Kind,           \* per field the type of personnel it is defined for
    Values,
    Uploads,        \* uploaded sheets
    Sheet,          \* per upload the type it was made for and its numbers
    None,
    Requests,
    MaxTime,        \* bound: the times at which transactions begin
    MaxWork         \* bound: requests ever begun

Types == {"teacher", "staff"}

PersonnelAssumption ==
    /\ PersonCount \in Nat \ {0} /\ MaxWork \in Nat /\ MaxTime \in Nat
    /\ Fold \in [Numbers -> Numbers]
    /\ Kind \in [Fields -> Types]
    /\ Sheet \in [Uploads -> [type: Types, numbers: SUBSET Numbers]]
    /\ None \notin Admins \cup Values \cup Uploads \cup Requests

VARIABLES
    person,     \* the personnel table and the custom values of each row
    enrolled,   \* the ids that have a row
    told,       \* per column, what its audit events say
    field,      \* custom_field_definitions
    upload,     \* per upload, whether its manifest is on the disk
    req,
    work

vars == <<person, enrolled, told, field, upload, req, work>>

Persons == 1 .. PersonCount
Statuses == {"pending", "needs_correction", "verified"}
Person == [active: BOOLEAN, type: Types, no: Numbers, status: Statuses, note: BOOLEAN,
           verifier: Admins \cup {None}, count: Nat, values: [Fields -> Values \cup {None}]]
\* The columns the history speaks of.
Audited == {"active", "type", "no", "status", "note", "count"}
\* What personnel_created names.
NamedAtCreation == {"type", "no"}
\* A definition is never deleted, only deactivated.
Definition == [active: BOOLEAN, required: BOOLEAN]

Ops == {"create", "edit", "grid", "verification", "print", "delete", "import", "discard"}
Times == 1 .. MaxTime
\* A request between its checks and its end, and the start of its transaction;
\* fresh (history): nothing has been committed since it loaded.
Request(T) == [op: Ops, began: Times, targets: {T}, seen: [T -> Person], new: [T -> Person],
               upload: Uploads \cup {None}, fresh: BOOLEAN]

\* The events of a column: the one with the highest id, as they are inserted in the
\* order of the commits, and the one the history shows first, as it is sorted by
\* created_at, the start of the transaction, and id; at 0 stands for no event.
Told(value, at) == [last |-> [value |-> value, at |-> at], shown |-> [value |-> value, at |-> at]]
Hear(old, value, at) ==
    IF at >= old.shown.at THEN Told(value, at)
    ELSE [last |-> [value |-> value, at |-> at], shown |-> old.shown]

NoValues == [f \in Fields |-> None]
Created(type, no, values) ==
    [active |-> TRUE, type |-> type, no |-> no, status |-> "pending", note |-> FALSE,
     verifier |-> None, count |-> 0, values |-> values]

Begin(r) ==
    /\ req[r] = None
    /\ work < MaxWork
    /\ work' = work + 1
    /\ UNCHANGED <<person, enrolled, told, field, upload>>

\* The request goes on to its commit with the rows `new' of the persons T.  Its
\* transaction began with the query for the caller, before or after any other.
Planned(r, op, T, new, u) ==
    \E began \in Times :
        req' = [req EXCEPT ![r] = [op |-> op, began |-> began, targets |-> T,
            seen |-> [s \in T |-> person[s]], new |-> [s \in T |-> new[s]],
            upload |-> u, fresh |-> TRUE]]

(***************************************************************************)
(* Employee numbers and custom fields.                                     *)
(***************************************************************************)
\* _ensure_employee_no_available: no other row, active or not, has the number.
Available(no, s) == \A t \in enrolled \ {s} : Fold[person[t].no] # Fold[no]

\* The final numbers of the grid, compared without regard to case.
Differ(table, ids) == \A s, t \in ids : s # t => Fold[table[s].no] # Fold[table[t].no]
\* The unique constraint compares them as they are.
Distinct(table, ids) == \A s, t \in ids : s # t => table[s].no # table[t].no

IsActive(f) == field[f] # None /\ field[f].active

\* validate_personnel_custom_fields: only active fields of the type, and all that
\* are required.
Valid(values, type) ==
    \A f \in Fields :
        /\ values[f] # None => IsActive(f) /\ Kind[f] = type
        /\ IsActive(f) /\ Kind[f] = type /\ field[f].required => values[f] # None

\* replace_personnel_custom_fields: values of active fields are replaced, those of
\* inactive fields stay.
Replaced(old, values) ==
    [f \in Fields |-> IF values[f] # None THEN values[f]
                      ELSE IF IsActive(f) THEN None ELSE old[f]]

AnyValues == [Fields -> Values \cup {None}]

\* create_personnel_field.
CreateField(f) ==
    /\ work < MaxWork /\ work' = work + 1
    /\ field[f] = None
    /\ \E required \in BOOLEAN :
        field' = [field EXCEPT ![f] = [active |-> TRUE, required |-> required]]
    /\ req' = [r \in Requests |-> IF req[r] = None THEN None ELSE [req[r] EXCEPT !.fresh = FALSE]]
    /\ UNCHANGED <<person, enrolled, told, upload>>

\* update_personnel_field, also deactivating it.
UpdateField(f) ==
    /\ work < MaxWork /\ work' = work + 1
    /\ field[f] # None
    /\ \E d \in Definition : d # field[f] /\ field' = [field EXCEPT ![f] = d]
    /\ req' = [r \in Requests |-> IF req[r] = None THEN None ELSE [req[r] EXCEPT !.fresh = FALSE]]
    /\ UNCHANGED <<person, enrolled, told, upload>>

(***************************************************************************)
(* Loading and computing.                                                  *)
(***************************************************************************)
\* A row that another request is not about to insert: ids come from a sequence.
Unused(s) ==
    /\ s \notin enrolled
    /\ \A r \in Requests : req[r] # None =>
        ~ (req[r].op \in {"create", "import"} /\ s \in req[r].targets)

LoadCreate(r) ==
    /\ Begin(r)
    /\ \E s \in Persons, type \in Types, no \in Numbers, values \in AnyValues :
        /\ Unused(s)
        /\ Available(no, s)
        /\ Valid(values, type)
        /\ Planned(r, "create", {s}, [t \in {s} |-> Created(type, no, values)], None)

\* Mutant: of the former type's values the inactive ones stay.
Retyped_Replaced(old, values) == Replaced(old, values)
\* A change of type deletes every value first.
Retyped(old, values) == Replaced(NoValues, values)

Edited(p, type, no, given, values) ==
    [p EXCEPT !.type = type, !.no = no,
              !.values = IF type # p.type THEN Retyped(@, values)
                         ELSE IF given THEN Replaced(@, values) ELSE @]

\* update_personnel: the payload may leave out the number and the custom fields;
\* with a new type the latter are validated as an empty list.
LoadEdit(r) ==
    /\ Begin(r)
    /\ \E s \in enrolled, type \in Types, no \in Numbers, given \in BOOLEAN, values \in AnyValues :
        /\ person[s].active
        /\ ~ given => values = NoValues
        /\ given \/ type # person[s].type => Valid(values, type)
        /\ no = person[s].no \/ Available(no, s)
        /\ Planned(r, "edit", {s}, [t \in {s} |-> Edited(person[s], type, no, given, values)], None)

\* The values of the active fields with those of the patch over them.
Merged(p, patch) ==
    [f \in Fields |-> IF patch[f] # None THEN patch[f]
                      ELSE IF IsActive(f) THEN p.values[f] ELSE None]

\* patch_personnel_grid: inactive rows too; the numbers are compared in the final
\* table, for the rows of the patch.
LoadGrid(r) ==
    /\ Begin(r)
    /\ \E T \in SUBSET enrolled : T # {} /\
        \E no \in [T -> Numbers], patch \in [T -> AnyValues] :
            LET new == [s \in Persons |-> IF s \notin T THEN person[s]
                           ELSE [person[s] EXCEPT !.no = no[s], !.values =
                               [f \in Fields |-> IF patch[s][f] # None THEN patch[s][f] ELSE @[f]]]]
            IN  /\ \A s \in T : Valid(Merged(person[s], patch[s]), person[s].type)
                /\ \A s \in T, t \in enrolled : Differ(new, {s, t})
                /\ Planned(r, "grid", T, new, None)

\* _active_personnel, and the queries of the batch operations.
Active(T) == T # {} /\ T \subseteq {s \in enrolled : person[s].active}

\* _apply_verification_transition
Transition(p, target, actor) ==
    LET note == target = "needs_correction" IN
    IF p.status = target /\ p.note = note THEN p
    ELSE [p EXCEPT !.status = target, !.note = note,
                   !.verifier = IF target # "verified" THEN None
                                ELSE IF p.status # "verified" THEN actor ELSE @]

LoadVerification(r) ==
    /\ Begin(r)
    /\ \E s \in Persons, u \in Admins, target \in Statuses :
        /\ Active({s})
        /\ Planned(r, "verification", {s}, [t \in {s} |-> Transition(person[s], target, u)], None)

LoadBatchVerify(r) ==
    /\ Begin(r)
    /\ \E T \in SUBSET Persons, u \in Admins :
        /\ Active(T)
        /\ \A s \in T : person[s].status # "verified"
        /\ Planned(r, "verification", T, [s \in T |-> Transition(person[s], "verified", u)], None)

Printed(p) == [p EXCEPT !.count = @ + 1]
LoadPrint(r) ==
    /\ Begin(r)
    /\ \E s \in Persons :
        /\ Active({s})
        /\ person[s].status = "verified"
        /\ Planned(r, "print", {s}, [t \in {s} |-> Printed(person[s])], None)
LoadBatchPrint(r) ==
    /\ Begin(r)
    /\ \E T \in SUBSET Persons :
        /\ Active(T)
        /\ \A s \in T : person[s].status = "verified"
        /\ Planned(r, "print", T, [s \in T |-> Printed(person[s])], None)

LoadDelete(r) ==
    /\ Begin(r)
    /\ \E s \in Persons :
        /\ Active({s})
        /\ Planned(r, "delete", {s}, [t \in {s} |-> [person[s] EXCEPT !.active = FALSE]], None)

(***************************************************************************)
(* Bulk imports.                                                           *)
(***************************************************************************)
\* upload_personnel_import: a manifest of its own on the disk.
Upload(u) ==
    /\ work < MaxWork /\ work' = work + 1
    /\ upload[u] = "none"
    /\ upload' = [upload EXCEPT ![u] = "stored"]
    /\ UNCHANGED <<person, enrolled, told, field, req>>

\* load_import_manifest finds it older than its 24 hours and removes it.
Expire(u) ==
    /\ upload[u] = "stored"
    /\ upload' = [upload EXCEPT ![u] = "gone"]
    /\ UNCHANGED <<person, enrolled, told, field, req, work>>

\* _validate_import: the sheet's own numbers and those of the school differ, and
\* the mapping covers the required fields.
Importable(u, values) ==
    LET numbers == Sheet[u].numbers IN
    /\ Valid(values, Sheet[u].type)
    /\ \A m, n \in numbers : m # n => Fold[m] # Fold[n]
    /\ \A n \in numbers, s \in enrolled : Fold[person[s].no] # Fold[n]

\* commit_personnel_import, up to the flush: one row per line of the sheet.
LoadImport(r) ==
    /\ Begin(r)
    /\ \E u \in Uploads, values \in AnyValues, T \in SUBSET Persons :
        /\ upload[u] = "stored"
        /\ Importable(u, values)
        /\ \A s \in T : Unused(s)
        /\ \E no \in [T -> Sheet[u].numbers] :
            /\ {no[s] : s \in T} = Sheet[u].numbers /\ \A s, t \in T : s # t => no[s] # no[t]
            /\ Planned(r, "import", T,
                   [s \in T |-> Created(Sheet[u].type, no[s], values)], u)

\* delete_import_manifest, after the commit.
Discard(r) ==
    /\ req[r] # None /\ req[r].op = "discard"
    /\ upload' = [upload EXCEPT ![req[r].upload] = "gone"]
    /\ req' = [req EXCEPT ![r] = None]
    /\ UNCHANGED <<person, enrolled, told, field, work>>

(***************************************************************************)
(* Committing.                                                             *)
(***************************************************************************)
Inserts(r) == req[r].op \in {"create", "import"}

\* What the UPDATE leaves of a row: the columns that differ from the load.
Written(seen, new, there) ==
    [c \in DOMAIN there |->
        IF c = "values"
        THEN [f \in Fields |-> IF new.values[f] # seen.values[f] THEN new.values[f]
                               ELSE there.values[f]]
        ELSE IF new[c] # seen[c] THEN new[c] ELSE there[c]]

Result(r, s) ==
    IF s \notin req[r].targets THEN person[s]
    ELSE IF Inserts(r) THEN req[r].new[s]
    ELSE Written(req[r].seen[s], req[r].new[s], person[s])

\* An insert needs that there is no value of the field, an update that there is
\* one; what a new type submits is inserted.
ValueSaved(r, s, f) ==
    LET old == req[r].seen[s].values[f] new == req[r].new[s].values[f]
        retyped == req[r].new[s].type # req[r].seen[s].type /\ Kind[f] = req[r].new[s].type
    IN  new # None /\ (new # old \/ retyped) =>
            (old = None \/ retyped <=> person[s].values[f] = None)

\* Rows after the request's writes to the persons up to id i.
Prefix(r, i) == [s \in Persons |-> IF s <= i THEN Result(r, s) ELSE person[s]]

\* Mutant: the table has no unique constraint.
Accepted_Unconstrained(r) == \A s \in req[r].targets, f \in Fields : Inserts(r) \/ ValueSaved(r, s, f)
\* The unique constraints and the counts of rows matched hold for each write.
Accepted(r) ==
    /\ \A i \in Persons : Distinct(Prefix(r, i), enrolled \cup req[r].targets)
    /\ \A s \in req[r].targets, f \in Fields : Inserts(r) \/ ValueSaved(r, s, f)

\* Mutant: a new type is not recorded.
Tells_NotType(r, s, c) ==
    IF Inserts(r) THEN c \in NamedAtCreation
    ELSE c # "type" /\ req[r].new[s][c] # req[r].seen[s][c]
\* record_personnel_audit, record_personnel_field_changes: of a written row the
\* columns that differ from the load, of a new one those personnel_created names.
Tells(r, s, c) ==
    IF Inserts(r) THEN c \in NamedAtCreation
    ELSE req[r].new[s][c] # req[r].seen[s][c]

\* What the events of column c of person s say once the request's are added.
Heard(r, s, c) ==
    LET new == req[r].new[s][c] IN
    IF s \notin req[r].targets THEN told[s][c]
    ELSE IF Inserts(r) THEN Told(new, IF Tells(r, s, c) THEN req[r].began ELSE 0)
    ELSE IF Tells(r, s, c) THEN Hear(told[s][c], new, req[r].began)
    ELSE told[s][c]

Pending(r) == req[r] # None /\ req[r].op # "discard"

Commit(r) ==
    /\ Pending(r)
    /\ Accepted(r)
    /\ person' = [s \in Persons |-> Result(r, s)]
    /\ enrolled' = enrolled \cup req[r].targets
    /\ told' = [s \in Persons |-> [c \in Audited |-> Heard(r, s, c)]]
    /\ req' = [q \in Requests |->
           IF q # r THEN IF req[q] = None THEN None ELSE [req[q] EXCEPT !.fresh = FALSE]
           ELSE IF req[r].op = "import" THEN [req[r] EXCEPT !.op = "discard"] ELSE None]
    /\ UNCHANGED <<field, upload, work>>

\* IntegrityError or a row that is gone: the transaction is rolled back.
Conflict(r) ==
    /\ Pending(r)
    /\ ~ Accepted(r)
    /\ req' = [req EXCEPT ![r] = None]
    /\ UNCHANGED <<person, enrolled, told, field, upload, work>>

\* The connection or the process fails: before the commit nothing is saved, after
\* it the manifest stays.
Abort(r) ==
    /\ req[r] # None
    /\ req' = [req EXCEPT ![r] = None]
    /\ UNCHANGED <<person, enrolled, told, field, upload, work>>

-----------------------------------------------------------------------------
\* A school with at most one teacher, and some optional fields, of which the
\* teacher may have values.
Init ==
    /\ field \in [Fields -> {None, [active |-> TRUE, required |-> FALSE]}]
    /\ \E no \in Numbers, values \in AnyValues :
        /\ Valid(values, "teacher")
        /\ person = [s \in Persons |-> Created("teacher", no, values)]
    /\ enrolled \in {{}, {1}}
    /\ told = [s \in Persons |-> [c \in Audited |-> Told(person[s][c], 0)]]
    /\ upload = [u \in Uploads |-> "none"]
    /\ req = [r \in Requests |-> None]
    /\ work = 0

Load(r) ==
    \/ LoadCreate(r) \/ LoadEdit(r) \/ LoadGrid(r) \/ LoadVerification(r) \/ LoadBatchVerify(r)
    \/ LoadPrint(r) \/ LoadBatchPrint(r) \/ LoadDelete(r) \/ LoadImport(r)

Next ==
    \/ \E r \in Requests : Load(r) \/ Commit(r) \/ Conflict(r) \/ Abort(r) \/ Discard(r)
    \/ \E f \in Fields : CreateField(f) \/ UpdateField(f)
    \/ \E u \in Uploads : Upload(u) \/ Expire(u)

Spec == Init /\ [][Next]_vars

-----------------------------------------------------------------------------
(***************************************************************************)
(* Properties.                                                             *)
(***************************************************************************)
\* Types of the tables and the requests.
TypeOK ==
    /\ person \in [Persons -> Person]
    /\ enrolled \subseteq Persons
    /\ DOMAIN told = Persons /\ \A s \in Persons : DOMAIN told[s] = Audited
    /\ field \in [Fields -> Definition \cup {None}]
    /\ upload \in [Uploads -> {"none", "stored", "gone"}]
    /\ DOMAIN req = Requests
    /\ \A r \in Requests : req[r] # None =>
        req[r].targets \subseteq Persons /\ req[r] \in Request(req[r].targets)
    /\ work \in 0 .. MaxWork

\* The event shown first is of a transaction that began after the one that wrote
\* the column last, and yet committed before it.
Overtaken(s, c) == told[s][c].shown.at > told[s][c].last.at

\* However form edits, grid saves, decisions, prints and imports of one person
\* overlap, the event of a column that was inserted last states the value in the
\* row, and the history shows it first except where the transaction it is of was
\* overtaken: README.md:161 "update paths record changes only when values actually
\* change".
HistoryTellsTheRow ==
    \A s \in enrolled, c \in Audited :
        /\ told[s][c].last.value = person[s][c]
        /\ ~Overtaken(s, c) => told[s][c].shown.value = person[s][c]

\* Whoever ends a request with a commit saw the tables as they are now.
Commits(r) == Pending(r) /\ req'[r] # req[r] /\ <<person, enrolled>>' # <<person, enrolled>>
AllFresh == \A r \in Requests : Commits(r) => req[r].fresh

\* "Never carry teacher-only fields onto a staff identity (or vice versa)"
\* (personnel.py:396): along any sequence of definitions, deactivations, values
\* and changes of type, as long as nothing is committed between the load and the
\* commit of a request.
Fit == \A s \in enrolled, f \in Fields : person[s].values[f] # None => Kind[f] = person[s].type
FieldsFollowType == [][Fit /\ AllFresh => Fit']_vars

\* No two persons of a school have the same employee number, whatever overlaps;
\* and none have numbers that differ in case only (personnel.py:105), unless
\* something was committed while such a number was being saved.
NumbersDiffer ==
    /\ [](Distinct(person, enrolled))
    /\ [][Differ(person, enrolled) /\ AllFresh => Differ(person', enrolled')]_vars
=============================================================================
