---------------------------- MODULE StudentImports ----------------------------
(***************************************************************************)
(* Admission numbers of one school: bulk imports of students, the fields   *)
(* the school asks for, and the renumbering when the automatic format is   *)
(* switched on (student_imports.py, student_fields.py,                     *)
(* student_field_config.py, core/student_imports.py,                       *)
(* core/student_field_config.py, core/auto_admission.py).                  *)
(*                                                                         *)
(* A sheet is validated against what the request reads and inserted in one *)
(* transaction; the manifest on the disk outlives the request that uses    *)
(* it, so that a sheet can be confirmed again.                             *)
(*                                                                         *)
(* Abstracted: the placement of a row (AcademicStructure) and its other    *)
(* columns (StudentRecords); a stream and a roll number are the admission  *)
(* number the format makes of them.                                        *)
(***************************************************************************)
EXTENDS Naturals, FiniteSets

CONSTANTS
    StudentCount,   \* students are numbered in the order of their ids
    Numbers,        \* admission numbers
    Builtins,       \* built-in fields a school may disable or require
    Customs,        \* custom fields there may be
    Uploads,
    Sheet,          \* per upload its admission numbers
    Columns,        \* per upload the fields it has a column for
    None,
    Requests,
    MaxWork         \* bound: requests ever begun

VARIABLES
    student,    \* per student [active, no, auto], None: no row
    builtin,    \* school_student_field_configs, None: no row
    custom,     \* custom_field_definitions of students, None: no row
    format,     \* schools.auto_admission_format
    upload,     \* per upload, whether its manifest is on the disk
    req, work,
    from        \* history: per student the upload and the number it was inserted with,
                \* and whether its number has changed since

vars == <<student, builtin, custom, format, upload, req, work, from>>

Ids == 1 .. StudentCount
Setting == [enabled: BOOLEAN, required: BOOLEAN]
\* A student; auto: the number that the automatic format makes of stream and roll.
Row == [active: BOOLEAN, no: Numbers, auto: Numbers \cup {None}]

ImportsAssumption ==
    /\ StudentCount \in Nat \ {0}
    /\ Sheet \in [Uploads -> SUBSET Numbers]
    /\ None \notin Row

There(table) == {x \in DOMAIN table : table[x] # None}
Plans(r, op) == req[r] # None /\ req[r].op = op

\* What a request will commit: rows to insert or to change, the settings and the
\* switch it sends; fresh (history): nothing has been committed since.
Begin(r, op, rows, settings, switch, u) ==
    /\ req[r] = None
    /\ work < MaxWork
    /\ work' = work + 1
    /\ req' = [req EXCEPT ![r] = [op |-> op, rows |-> rows,
                   seen |-> [s \in DOMAIN rows |-> student[s]],
                   settings |-> settings, config |-> builtin,
                   switch |-> switch, format |-> format, upload |-> u, fresh |-> TRUE]]
    /\ UNCHANGED <<student, builtin, custom, format, upload, from>>

(***************************************************************************)
(* The fields a school asks for.                                           *)
(***************************************************************************)
\* effective_student_fields: without a row a field is enabled and optional.
Effective(f) == IF builtin[f] = None THEN [enabled |-> TRUE, required |-> FALSE] ELSE builtin[f]

Active(f) == custom[f] # None /\ custom[f].enabled

\* _resolve_target_fields
Targets == {f \in Builtins : Effective(f).enabled} \cup {f \in Customs : Active(f)}
Required == {f \in Builtins : Effective(f).enabled /\ Effective(f).required}
            \cup {f \in Customs : Active(f) /\ custom[f].required}

\* create_student_field.
CreateField(f) ==
    /\ work < MaxWork /\ work' = work + 1
    /\ custom[f] = None
    /\ \E required \in BOOLEAN :
        custom' = [custom EXCEPT ![f] = [enabled |-> TRUE, required |-> required]]
    /\ UNCHANGED <<student, builtin, format, upload, req, from>>

\* update_student_field, also deactivating it.
UpdateField(f) ==
    /\ work < MaxWork /\ work' = work + 1
    /\ custom[f] # None
    /\ \E d \in Setting : d # custom[f] /\ custom' = [custom EXCEPT ![f] = d]
    /\ UNCHANGED <<student, builtin, format, upload, req, from>>

(***************************************************************************)
(* The automatic format.                                                   *)
(***************************************************************************)
\* apply_auto_admission_to_existing_students: inactive students keep their number.
Formatted ==
    [s \in {t \in There(student) : student[t].active /\ student[t].auto # None} |->
        [student[s] EXCEPT !.no = student[s].auto]]
Final(s) == IF s \in DOMAIN Formatted THEN Formatted[s].no ELSE student[s].no
\* Only the numbers of active students are compared.
Collides == \E s \in DOMAIN Formatted : \E t \in There(student) \ {s} :
    /\ Final(s) # student[s].no
    /\ student[t].active /\ Final(s) = Final(t)

\* put_student_field_config: every built-in field is sent, a required one enabled;
\* the students are renumbered when the format goes from off to on.
LoadConfig(r) ==
    \E settings \in [Builtins -> {d \in Setting : d.required => d.enabled}],
       switch \in {"omitted", "on", "off"} :
        LET on == switch = "on" /\ ~ format IN
        /\ on => ~ Collides
        /\ Begin(r, "config", IF on THEN Formatted ELSE <<>>, settings, switch, None)

(***************************************************************************)
(* Imports.                                                                *)
(***************************************************************************)
\* upload_student_import, save_import_manifest.
Upload(u) ==
    /\ work < MaxWork /\ work' = work + 1
    /\ upload[u] = "none"
    /\ upload' = [upload EXCEPT ![u] = "stored"]
    /\ UNCHANGED <<student, builtin, custom, format, req, from>>

\* load_import_manifest finds it older than its 24 hours and removes it.
Expire(u) ==
    /\ upload[u] = "stored"
    /\ upload' = [upload EXCEPT ![u] = "gone"]
    /\ UNCHANGED <<student, builtin, custom, format, req, work, from>>

\* Mutant: a number that an inactive student has counts as free.
Importable_ActiveOnly(u) ==
    /\ \E mapped \in SUBSET Columns[u] : mapped \subseteq Targets /\ Required \subseteq mapped
    /\ \A s \in There(student) : student[s].active => student[s].no \notin Sheet[u]
\* _validate_import: the mapped columns are fields of the school, all required
\* ones are mapped, and no number of the sheet is taken, be it by an inactive student.
Importable(u) ==
    /\ \E mapped \in SUBSET Columns[u] : mapped \subseteq Targets /\ Required \subseteq mapped
    /\ \A s \in There(student) : student[s].no \notin Sheet[u]

\* A row that no other request is about to insert: ids come from a sequence.
Unused == {s \in Ids \ There(student) : \A q \in Requests :
               Plans(q, "import") => s \notin DOMAIN req[q].rows}

\* commit_student_import, up to the flush: one student per row of the sheet.
LoadImport(r) ==
    \E u \in Uploads, S \in SUBSET Unused :
        /\ upload[u] = "stored"
        /\ Importable(u)
        /\ Cardinality(S) = Cardinality(Sheet[u])
        /\ \E no \in [S -> Sheet[u]], auto \in [S -> Numbers \cup {None}] :
            /\ \A s, t \in S : s # t => no[s] # no[t]
            /\ Begin(r, "import",
                     [s \in S |-> [active |-> TRUE, no |-> no[s], auto |-> auto[s]]],
                     <<>>, "omitted", u)

\* update_student, as far as the numbers go: another number that is free, another
\* stream or roll number, or the activation.
LoadEdit(r) ==
    \E s \in There(student), no \in Numbers, auto \in Numbers \cup {None}, active \in BOOLEAN :
        /\ \A t \in There(student) \ {s} : student[t].no # no
        /\ Begin(r, "edit", [t \in {s} |-> [active |-> active, no |-> no, auto |-> auto]],
                 <<>>, "omitted", None)

\* delete_import_manifest, after the commit.
Discard(r) ==
    /\ Plans(r, "discard")
    /\ upload' = [upload EXCEPT ![req[r].upload] = "gone"]
    /\ req' = [req EXCEPT ![r] = None]
    /\ UNCHANGED <<student, builtin, custom, format, work, from>>

(***************************************************************************)
(* Committing.                                                             *)
(***************************************************************************)
\* Only what differs from the load is written to a row.
Written(seen, new, there) ==
    [c \in DOMAIN new |-> IF new[c] # seen[c] THEN new[c] ELSE there[c]]

Result(r, s) ==
    IF s \notin DOMAIN req[r].rows THEN student[s]
    ELSE IF req[r].seen[s] = None THEN req[r].rows[s]
    ELSE Written(req[r].seen[s], req[r].rows[s], student[s])

Configured(r) ==
    [f \in Builtins |-> IF f \notin DOMAIN req[r].settings THEN builtin[f]
                        ELSE IF req[r].config[f] = None THEN req[r].settings[f]
                        ELSE Written(req[r].config[f], req[r].settings[f], builtin[f])]

\* Rows are written in the order of their ids, and the constraint is checked at
\* each of them.
Prefix(r, i) == [s \in Ids |-> IF s <= i THEN Result(r, s) ELSE student[s]]
Distinct(table) == \A s, t \in There(table) : s # t => table[s].no # table[t].no

\* Mutant: the table has no unique constraint.
Accepted_Unconstrained(r) ==
    /\ \A f \in DOMAIN req[r].settings : req[r].config[f] = None => builtin[f] = None
    /\ \A f \in Builtins : Configured(r)[f] # None =>
        (Configured(r)[f].required => Configured(r)[f].enabled)
\* The constraints: unique admission numbers, one row per built-in field, and a
\* required field is enabled.
Accepted(r) ==
    /\ \A i \in Ids : Distinct(Prefix(r, i))
    /\ \A f \in DOMAIN req[r].settings : req[r].config[f] = None => builtin[f] = None
    /\ \A f \in Builtins : Configured(r)[f] # None =>
        (Configured(r)[f].required => Configured(r)[f].enabled)

Pending(r) == req[r] # None /\ req[r].op # "discard"

Commit(r) ==
    /\ Pending(r)
    /\ Accepted(r)
    /\ student' = [s \in Ids |-> Result(r, s)]
    /\ builtin' = Configured(r)
    /\ format' = IF req[r].switch = "omitted" \/ (req[r].switch = "on") = req[r].format
                 THEN format ELSE req[r].switch = "on"
    /\ from' = [s \in Ids |->
           IF req[r].op = "import" /\ s \in DOMAIN req[r].rows
           THEN [upload |-> req[r].upload, no |-> req[r].rows[s].no, moved |-> FALSE]
           ELSE IF from[s] # None /\ Result(r, s).no # student[s].no
           THEN [from[s] EXCEPT !.moved = TRUE] ELSE from[s]]
    /\ req' = [q \in Requests |->
           IF q = r THEN IF req[r].op = "import" THEN [op |-> "discard", upload |-> req[r].upload]
                         ELSE None
           ELSE IF Pending(q) THEN [req[q] EXCEPT !.fresh = FALSE] ELSE req[q]]
    /\ UNCHANGED <<custom, upload, work>>

\* The constraint refuses: nothing of the request is saved.
Conflict(r) ==
    /\ Pending(r)
    /\ ~ Accepted(r)
    /\ req' = [req EXCEPT ![r] = None]
    /\ UNCHANGED <<student, builtin, custom, format, upload, work, from>>

\* The connection or the process fails: before the commit nothing is saved, after
\* it the manifest stays.
Abort(r) ==
    /\ req[r] # None
    /\ req' = [req EXCEPT ![r] = None]
    /\ UNCHANGED <<student, builtin, custom, format, upload, work, from>>

-----------------------------------------------------------------------------
\* A school with at most one student.
Init ==
    /\ \E active \in BOOLEAN, no \in Numbers, there \in BOOLEAN :
        student = [s \in Ids |-> IF there /\ s = 1
                      THEN [active |-> active, no |-> no, auto |-> None] ELSE None]
    /\ builtin = [f \in Builtins |-> None]
    /\ custom = [f \in Customs |-> None]
    /\ format = FALSE
    /\ upload = [u \in Uploads |-> "none"]
    /\ req = [r \in Requests |-> None]
    /\ work = 0
    /\ from = [s \in Ids |-> None]

Next ==
    \/ \E r \in Requests :
        \/ LoadConfig(r) \/ LoadImport(r) \/ LoadEdit(r)
        \/ Commit(r) \/ Conflict(r) \/ Abort(r) \/ Discard(r)
    \/ \E f \in Customs : CreateField(f) \/ UpdateField(f)
    \/ \E u \in Uploads : Upload(u) \/ Expire(u)

Spec == Init /\ [][Next]_vars

-----------------------------------------------------------------------------
(***************************************************************************)
(* Properties.                                                             *)
(***************************************************************************)
\* A sheet that is confirmed twice, at the same time or because its manifest
\* outlived the import, is inserted twice only if a student of the first import has
\* been given another number since, as the automatic format does.
ImportedOnce ==
    \A s, t \in There(student) :
        s # t /\ from[s] # None /\ from[t] # None
            /\ from[s].upload = from[t].upload /\ from[s].no = from[t].no
        => from[s].moved \/ from[t].moved

\* An import, or a change of one student, is refused only because something was
\* committed since it was validated ("Import conflicted with student data changed
\* after preview", student_imports.py:383): the validation leaves nothing to the
\* constraints, be it about students who are inactive, about the sheet itself or
\* about the order in which rows are written.
RefusedOnlyWhenOvertaken ==
    \A r \in Requests :
        (Plans(r, "import") \/ Plans(r, "edit")) /\ req[r].fresh => Accepted(r)
=============================================================================
