----------------------- MODULE IdentityRecordsProofs -----------------------
(***************************************************************************)
(* Proofs about StudentRecords and PersonnelRecords, for any number of     *)
(* students, persons, fields, sheets and requests.                         *)
(*                                                                         *)
(* The invariant of the students is the conjunction of the type, of what   *)
(* the events of a column say (Honest), of the uniqueness of rolls in the  *)
(* table and in each plan (RollsInv, RollPlanInv), of what a pending edit  *)
(* may carry (PlanInv): without it an edit could write a decision back;    *)
(* and of what a plan makes of a coherent row (CohInv).  That of           *)
(* personnel adds to type, history and distinct numbers that updates are   *)
(* of rows that are there, and that a plan which nothing has overtaken     *)
(* breaks no rule it was checked for (PersonnelPlanInv).                   *)
(***************************************************************************)
EXTENDS IdentityRecords, TLAPS

\* The event inserted last states the value; the one shown first is not older, and
\* is that event unless it is newer.
Honest(t, value) ==
    /\ t.last.at \in Nat /\ t.shown.at \in Nat
    /\ t.last.value = value
    /\ t.shown.at >= t.last.at
    /\ t.shown.at = t.last.at => t.shown.value = value

AuditInv == \A s \in Students, c \in Audited : Honest(told[s][c], row[s][c])

\* Rolls are unique in the table, and only students that are there have one.
RollsInv ==
    /\ UniqueRolls(row, Students)
    /\ \A s \in Students \ enrolled : row[s].roll = NoRoll

\* They are unique in the table a request loaded and in the one it plans.
RollPlanInv ==
    \A r \in Requests : req[r] # Idle =>
        /\ UniqueRolls(req[r].seen, Students)
        /\ UniqueRolls(req[r].new, Students)
        /\ \A s \in Students \ req[r].targets : req[r].new[s] = req[r].seen[s]

\* A pending edit has the lifecycle columns as it loaded them.
PlanInv ==
    \A r \in Requests :
        req[r] # Idle /\ req[r].op \in {"edit", "grid", "delete"} =>
            \A s \in Students, c \in Lifecycle : req[r].new[s][c] = req[r].seen[s][c]

\* Status, verifier and note of a row agree.
RowCoherent(s) ==
    /\ s.status = "verified" <=> s.verifier # NoUser
    /\ s.status = "needs_correction" <=> s.note # NoNote

\* A plan made from a coherent row, or from none, is coherent.
CohInv ==
    \A r \in Requests : req[r] # Idle =>
        \A s \in req[r].targets :
            req[r].op = "create" \/ RowCoherent(req[r].seen[s]) => RowCoherent(req[r].new[s])

IInv == TypeOK /\ AuditInv /\ RollsInv /\ RollPlanInv /\ PlanInv /\ CohInv

\* What the loads have in common: a plan of rows, computed from the table.
Plans(r) ==
    \E op \in Ops, T \in SUBSET Students, token \in BOOLEAN : \E new :
        /\ \A s \in T : new[s] \in Student
        /\ op \in {"edit", "grid", "delete"} =>
              \A s \in T, c \in Lifecycle : new[s][c] = row[s][c]
        /\ \A s \in T : op = "create" \/ RowCoherent(row[s]) => RowCoherent(new[s])
        /\ UniqueRolls(Merged(T, new), Students)
        /\ Planned(r, op, T, new, token)

-----------------------------------------------------------------------------
\* An event added to those of a column states the new value.
LEMMA HearHonest ==
    ASSUME NEW old, NEW was, Honest(old, was), NEW value, NEW at \in Nat
    PROVE  /\ Honest(Told(value, at), value) /\ Honest(Hear(old, value, at), value)
           /\ Honest(Personnel!Told(value, at), value)
           /\ Honest(Personnel!Hear(old, value, at), value)
<1> DEFINE e == [value |-> value, at |-> at]
<1>1. Honest([last |-> e, shown |-> e], value)
  BY DEF Honest
<1>2. CASE at >= old.shown.at
  BY <1>1, <1>2 DEF Hear, Told, Personnel!Hear, Personnel!Told
<1>3. CASE ~(at >= old.shown.at)
  <2>1. Honest([last |-> e, shown |-> old.shown], value)
    BY <1>3 DEF Honest
  <2> QED
    BY <1>1, <1>3, <2>1 DEF Hear, Told, Personnel!Hear, Personnel!Told
<1> QED
  BY <1>2, <1>3

\* Of a new row they state the value, whether or not one names the column.
LEMMA ToldHonest ==
    ASSUME NEW value, NEW at \in Nat
    PROVE  Honest(Told(value, at), value) /\ Honest(Personnel!Told(value, at), value)
BY DEF Honest, Told, Personnel!Told

\* A plan that leaves the rolls alone keeps them unique.
LEMMA SameRolls ==
    ASSUME RollsInv, NEW T \in SUBSET Students, NEW new, \A s \in T : new[s].roll = row[s].roll
    PROVE  UniqueRolls(Merged(T, new), Students)
<1>1. \A s \in Students : Merged(T, new)[s].roll = row[s].roll
  BY DEF Merged
<1> QED
  BY <1>1 DEF RollsInv, UniqueRolls

\* So does one that gives a student a roll that no other has.
LEMMA FreeRoll ==
    ASSUME RollsInv, NEW s \in Students, NEW new, ~RollConflict(new.roll, s)
    PROVE  UniqueRolls(Merged({s}, [t \in {s} |-> new]), Students)
<1> DEFINE m == Merged({s}, [t \in {s} |-> new])
<1>1. m[s] = new /\ \A t \in Students \ {s} : m[t] = row[t]
  BY DEF Merged
<1>2. \A t \in Students \ {s} : new.roll # NoRoll => row[t].roll # new.roll
  BY DEF RollConflict, RollsInv
<1> HIDE DEF m
<1> QED
  BY <1>1, <1>2 DEF RollsInv, UniqueRolls, m

\* An UPDATE of a row by columns of rows leaves a row.
LEMMA WrittenType ==
    ASSUME NEW seen \in Student, NEW new \in Student, NEW there \in Student
    PROVE  Written(seen, new, there) \in Student
BY DEF Written, Student

\* A verification transition of a row gives a row.
LEMMA TransitionType ==
    ASSUME NEW s \in Student, NEW target \in Statuses,
           NEW note \in Notes \cup {NoNote}, NEW actor \in Users
    PROVE  /\ Transition(s, target, note, actor) \in Student
           /\ Transition(s, target, note, actor).roll = s.roll
BY DEF Transition, Student

\* It keeps a coherent row coherent; a correction has a note.
LEMMA TransitionCoherent ==
    ASSUME NEW s \in Student, NEW target \in Statuses,
           NEW note \in Notes \cup {NoNote}, NEW actor \in Users,
           target = "needs_correction" => note \in Notes, RowCoherent(s)
    PROVE  RowCoherent(Transition(s, target, note, actor))
<1>1. NoUser \notin Users /\ NoNote \notin Notes
  BY StudentsAssumption
<1> QED
  BY <1>1 DEF Transition, RowCoherent, Student, Statuses

\* Columns other than the three of a decision do not matter to it.
LEMMA SameLifecycle ==
    ASSUME NEW s \in Student, NEW t \in Student, \A c \in Lifecycle \ {"count"} : s[c] = t[c],
           RowCoherent(t)
    PROVE  RowCoherent(s)
BY DEF RowCoherent, Lifecycle

\* What a request leaves of a student is a row.
LEMMA ResultType ==
    ASSUME TypeOK, NEW r \in Requests, req[r] # Idle, NEW s \in Students
    PROVE  Result(r, s) \in Student
<1>1. req[r] \in Request /\ row[s] \in Student
  BY DEF TypeOK
<1>2. req[r].seen[s] \in Student /\ req[r].new[s] \in Student
  BY <1>1 DEF Request
<1> QED
  BY <1>1, <1>2, WrittenType DEF Result

\* Every load plans rows and touches no table.
LEMMA LoadPlans ==
    ASSUME TypeOK, RollsInv, NEW r \in Requests, Load(r)
    PROVE  /\ Plans(r)
           /\ UNCHANGED <<row, enrolled, told>>
           /\ work' \in 0 .. MaxWork
<1>1. UNCHANGED <<row, enrolled, told>> /\ work' \in 0 .. MaxWork
  <2>1. Begin(r)
    BY DEF Load, LoadCreate, LoadEdit, LoadGrid, LoadVerification, LoadBatchVerify,
           LoadPrint, LoadDelete
  <2> QED
    BY <2>1, StudentsAssumption DEF Begin, TypeOK
<1>2. row \in [Students -> Student] /\ enrolled \subseteq Students
  BY DEF TypeOK
<1>3. CASE LoadCreate(r)
  <2>1. PICK s \in Students, name \in Names, roll \in Rolls \cup {NoRoll} :
           /\ ~RollConflict(roll, s)
           /\ Planned(r, "create", {s}, [t \in {s} |-> Created(name, roll)], FALSE)
    BY <1>3 DEF LoadCreate
  <2>2. Created(name, roll) \in Student /\ Created(name, roll).roll = roll
    BY DEF Created, Student, Statuses
  <2>4. UniqueRolls(Merged({s}, [t \in {s} |-> Created(name, roll)]), Students)
    BY <2>1, <2>2, FreeRoll
  <2>3. RowCoherent(Created(name, roll))
    BY DEF RowCoherent, Created
  <2> QED
    BY <1>1, <2>1, <2>2, <2>3, <2>4 DEF Plans, Ops
<1>4. CASE LoadEdit(r)
  <2>1. PICK s \in enrolled, name \in Names, roll \in Rolls \cup {NoRoll}, active \in BOOLEAN :
           /\ ~RollConflict(roll, s)
           /\ Planned(r, "edit", {s},
               [t \in {s} |-> [row[s] EXCEPT !.name = name, !.roll = roll, !.active = active]],
               FALSE)
    BY <1>4 DEF LoadEdit
  <2> DEFINE n == [row[s] EXCEPT !.name = name, !.roll = roll, !.active = active]
  <2>2. /\ s \in Students /\ n \in Student /\ (\A c \in Lifecycle : n[c] = row[s][c])
        /\ n.roll = roll
    BY <1>2 DEF Student, Lifecycle
  <2> HIDE DEF n
  <2>3. Planned(r, "edit", {s}, [t \in {s} |-> n], FALSE)
    BY <2>1 DEF n
  <2>4. RowCoherent(row[s]) => RowCoherent(n)
    BY <1>2, <2>2, SameLifecycle
  <2>5. UniqueRolls(Merged({s}, [t \in {s} |-> n]), Students)
    BY <2>1, <2>2, FreeRoll
  <2> QED
    BY <1>1, <2>2, <2>3, <2>4, <2>5 DEF Plans, Ops
<1>5. CASE LoadGrid(r)
  <2>0. PICK T \in SUBSET enrolled, token \in BOOLEAN :
           \E name \in [T -> Names], roll \in [T -> Rolls \cup {NoRoll}] :
               LET n == [s \in T |-> [row[s] EXCEPT !.name = name[s], !.roll = roll[s]]]
               IN  UniqueRolls(Merged(T, n), enrolled) /\ Planned(r, "grid", T, n, token)
    BY <1>5, StudentsAssumption DEF LoadGrid
  <2>1. PICK name \in [T -> Names], roll \in [T -> Rolls \cup {NoRoll}] :
           LET n == [s \in T |-> [row[s] EXCEPT !.name = name[s], !.roll = roll[s]]]
           IN  UniqueRolls(Merged(T, n), enrolled) /\ Planned(r, "grid", T, n, token)
    BY <2>0
  <2> DEFINE n == [s \in T |-> [row[s] EXCEPT !.name = name[s], !.roll = roll[s]]]
  <2>2. ASSUME NEW s \in T
        PROVE  n[s] \in Student /\ (\A c \in Lifecycle : n[s][c] = row[s][c])
    <3> DEFINE kept == row[s]
    <3>1. kept \in Student /\ name[s] \in Names /\ roll[s] \in Rolls \cup {NoRoll}
      BY <1>2
    <3>2. n[s] = [kept EXCEPT !.name = name[s], !.roll = roll[s]]
      OBVIOUS
    <3> HIDE DEF kept, n
    <3>3. n[s] \in Student /\ (\A c \in Lifecycle : n[s][c] = kept[c])
      BY <3>1, <3>2 DEF Student, Lifecycle
    <3> QED
      BY <3>3 DEF kept
  <2>3. /\ T \in SUBSET Students /\ Planned(r, "grid", T, n, token)
        /\ UniqueRolls(Merged(T, n), enrolled)
    BY <1>2, <2>1
  <2> HIDE DEF n
  <2>4. ASSUME NEW s \in T, RowCoherent(row[s])
        PROVE  RowCoherent(n[s])
    BY <1>2, <2>2, <2>3, <2>4, SameLifecycle
  <2>5. UniqueRolls(Merged(T, n), Students)
    <3>1. \A s \in Students \ enrolled : Merged(T, n)[s].roll = NoRoll
      BY DEF Merged, RollsInv
    <3> QED
      BY <2>3, <3>1 DEF UniqueRolls
  <2> QED
    BY <1>1, <2>2, <2>3, <2>4, <2>5 DEF Plans, Ops
<1>6. CASE LoadVerification(r)
  <2>1. PICK s \in Students, u \in Admins, target \in Statuses, note \in Notes :
           Planned(r, "verification", {s},
               [t \in {s} |-> Transition(row[s], target, note, u)], FALSE)
    BY <1>6 DEF LoadVerification
  <2>2. /\ Transition(row[s], target, note, u) \in Student
        /\ Transition(row[s], target, note, u).roll = row[s].roll
    BY <1>2, TransitionType, StudentsAssumption
  <2>3. RowCoherent(row[s]) => RowCoherent(Transition(row[s], target, note, u))
    BY <1>2, TransitionCoherent, StudentsAssumption
  <2>4. UniqueRolls(Merged({s}, [t \in {s} |-> Transition(row[s], target, note, u)]), Students)
    BY <2>2, SameRolls
  <2> QED
    BY <1>1, <2>1, <2>2, <2>3, <2>4 DEF Plans, Ops
<1>7. CASE LoadBatchVerify(r)
  <2>1. PICK T \in SUBSET Students, u \in Admins :
           Planned(r, "verification", T,
               [s \in T |-> Transition(row[s], "verified", NoNote, u)], FALSE)
    BY <1>7 DEF LoadBatchVerify
  <2>2. \A s \in T : /\ Transition(row[s], "verified", NoNote, u) \in Student
                     /\ Transition(row[s], "verified", NoNote, u).roll = row[s].roll
    BY <1>2, TransitionType, StudentsAssumption DEF Statuses
  <2>3. \A s \in T : RowCoherent(row[s]) => RowCoherent(Transition(row[s], "verified", NoNote, u))
    BY <1>2, TransitionCoherent, StudentsAssumption DEF Statuses
  <2>4. UniqueRolls(Merged(T, [s \in T |-> Transition(row[s], "verified", NoNote, u)]), Students)
    BY <2>2, SameRolls
  <2> QED
    BY <1>1, <2>1, <2>2, <2>3, <2>4 DEF Plans, Ops
<1>8. CASE LoadPrint(r)
  <2>1. PICK T \in SUBSET Students :
           Planned(r, "print", T, [s \in T |-> Printed(row[s])], FALSE)
    BY <1>8 DEF LoadPrint
  <2>2. \A s \in T : Printed(row[s]) \in Student /\ Printed(row[s]).roll = row[s].roll
    BY <1>2 DEF Printed, Student
  <2>3. \A s \in T : RowCoherent(row[s]) => RowCoherent(Printed(row[s]))
    BY <1>2 DEF Printed, Student, RowCoherent
  <2>4. UniqueRolls(Merged(T, [s \in T |-> Printed(row[s])]), Students)
    BY <2>2, SameRolls
  <2> QED
    BY <1>1, <2>1, <2>2, <2>3, <2>4 DEF Plans, Ops
<1>9. CASE LoadDelete(r)
  <2>1. PICK s \in Students :
           Planned(r, "delete", {s}, [t \in {s} |-> [row[s] EXCEPT !.active = FALSE]], FALSE)
    BY <1>9 DEF LoadDelete
  <2> DEFINE n == [row[s] EXCEPT !.active = FALSE]
  <2>2. n \in Student /\ (\A c \in Lifecycle : n[c] = row[s][c]) /\ n.roll = row[s].roll
    BY <1>2 DEF Student, Lifecycle
  <2> HIDE DEF n
  <2>3. Planned(r, "delete", {s}, [t \in {s} |-> n], FALSE)
    BY <2>1 DEF n
  <2>4. RowCoherent(row[s]) => RowCoherent(n)
    BY <1>2, <2>2, SameLifecycle
  <2>5. UniqueRolls(Merged({s}, [t \in {s} |-> n]), Students)
    BY <2>2, SameRolls
  <2> QED
    BY <1>1, <2>2, <2>3, <2>4, <2>5 DEF Plans, Ops
<1> QED
  BY <1>3, <1>4, <1>5, <1>6, <1>7, <1>8, <1>9 DEF Load

\* Recording a plan keeps the invariant.
LEMMA LoadStep ==
    ASSUME IInv, NEW r \in Requests, Load(r)
    PROVE  IInv'
<1>0. PICK op \in Ops, T \in SUBSET Students, token \in BOOLEAN : \E new :
         /\ \A s \in T : new[s] \in Student
         /\ op \in {"edit", "grid", "delete"} =>
               \A s \in T, c \in Lifecycle : new[s][c] = row[s][c]
         /\ \A s \in T : op = "create" \/ RowCoherent(row[s]) => RowCoherent(new[s])
         /\ UniqueRolls(Merged(T, new), Students)
         /\ Planned(r, op, T, new, token)
  BY LoadPlans DEF IInv, Plans
<1>1. PICK new :
         /\ \A s \in T : new[s] \in Student
         /\ op \in {"edit", "grid", "delete"} =>
               \A s \in T, c \in Lifecycle : new[s][c] = row[s][c]
         /\ \A s \in T : op = "create" \/ RowCoherent(row[s]) => RowCoherent(new[s])
         /\ UniqueRolls(Merged(T, new), Students)
         /\ Planned(r, op, T, new, token)
  BY <1>0
<1>2. UNCHANGED <<row, enrolled, told>> /\ work' \in 0 .. MaxWork
  BY LoadPlans DEF IInv
<1> DEFINE n == [s \in Students |-> IF s \in T THEN new[s] ELSE row[s]]
<1>13. PICK began \in Times : req' = [req EXCEPT ![r] =
          [op |-> op, began |-> began, targets |-> T, seen |-> row, new |-> n, token |-> token]]
  BY <1>1 DEF Planned
<1> DEFINE p == [op |-> op, began |-> began, targets |-> T, seen |-> row, new |-> n,
                 token |-> token]
<1>3. row \in [Students -> Student]
  BY DEF IInv, TypeOK
<1>4. n \in [Students -> Student]
  BY <1>1, <1>3
<1>5. op \in {"edit", "grid", "delete"} =>
         \A s \in Students, c \in Lifecycle : n[s][c] = row[s][c]
  BY <1>1
<1>6. req' = [req EXCEPT ![r] = p]
  BY <1>13
<1>14. UniqueRolls(n, Students) /\ \A s \in Students \ T : n[s] = row[s]
  BY <1>1 DEF Merged
<1>11. \A s \in T : op = "create" \/ RowCoherent(row[s]) => RowCoherent(n[s])
  BY <1>1
<1> HIDE DEF n
<1>7. p \in Request
  BY <1>1, <1>3, <1>4 DEF Request
<1>8. TypeOK'
  <2> HIDE DEF p
  <2>1. req' \in [Requests -> Request \cup {Idle}]
    BY <1>6, <1>7 DEF IInv, TypeOK
  <2> QED
    BY <1>2, <2>1 DEF IInv, TypeOK
<1>9. PlanInv'
  <2> SUFFICES ASSUME NEW q \in Requests, req'[q] # Idle,
                      req'[q].op \in {"edit", "grid", "delete"},
                      NEW s \in Students, NEW c \in Lifecycle
               PROVE  req'[q].new[s][c] = req'[q].seen[s][c]
    BY DEF PlanInv
  <2>1. CASE q = r
    <3>1. req'[q] = p
      BY <1>6, <2>1 DEF IInv, TypeOK
    <3>2. p.op = op /\ p.new = n /\ p.seen = row
      OBVIOUS
    <3> HIDE DEF p
    <3> QED
      BY <1>5, <3>1, <3>2
  <2>2. CASE q # r
    <3>1. req'[q] = req[q]
      BY <1>6, <2>2 DEF IInv, TypeOK
    <3> QED
      BY <3>1 DEF IInv, PlanInv
  <2> QED
    BY <2>1, <2>2
<1>10. AuditInv' /\ RollsInv'
  BY <1>2 DEF IInv, AuditInv, Honest, RollsInv, UniqueRolls
<1>15. RollPlanInv'
  <2> SUFFICES ASSUME NEW q \in Requests, req'[q] # Idle
               PROVE  /\ UniqueRolls(req'[q].seen, Students)
                      /\ UniqueRolls(req'[q].new, Students)
                      /\ \A s \in Students \ req'[q].targets : req'[q].new[s] = req'[q].seen[s]
    BY DEF RollPlanInv, UniqueRolls
  <2>1. CASE q = r
    <3>1. req'[q] = p
      BY <1>6, <2>1 DEF IInv, TypeOK
    <3>2. p.new = n /\ p.seen = row /\ p.targets = T
      OBVIOUS
    <3>3. UniqueRolls(row, Students)
      BY DEF IInv, RollsInv
    <3> HIDE DEF p
    <3> QED
      BY <1>14, <3>1, <3>2, <3>3
  <2>2. CASE q # r
    <3>1. req'[q] = req[q]
      BY <1>6, <2>2 DEF IInv, TypeOK
    <3> QED
      BY <3>1 DEF IInv, RollPlanInv
  <2> QED
    BY <2>1, <2>2
<1>12. CohInv'
  <2> SUFFICES ASSUME NEW q \in Requests, req'[q] # Idle, NEW s \in req'[q].targets,
                      req'[q].op = "create" \/ RowCoherent(req'[q].seen[s])
               PROVE  RowCoherent(req'[q].new[s])
    BY DEF CohInv, RowCoherent
  <2>1. CASE q = r
    <3>1. req'[q] = p
      BY <1>6, <2>1 DEF IInv, TypeOK
    <3>2. p.op = op /\ p.new = n /\ p.seen = row /\ p.targets = T
      OBVIOUS
    <3> HIDE DEF p
    <3> QED
      BY <1>11, <3>1, <3>2
  <2>2. CASE q # r
    <3>1. req'[q] = req[q]
      BY <1>6, <2>2 DEF IInv, TypeOK
    <3> QED
      BY <3>1 DEF IInv, CohInv
  <2> QED
    BY <2>1, <2>2
<1> QED
  BY <1>8, <1>9, <1>10, <1>12, <1>15 DEF IInv

\* Saving keeps it: the events name what is written, and the constraints were
\* checked on the last row too.
LEMMA CommitStep ==
    ASSUME IInv, NEW r \in Requests, Commit(r)
    PROVE  IInv'
<1>1. TypeOK /\ req[r] # Idle /\ req[r] \in Request
  BY DEF IInv, TypeOK, Commit
<1>2. /\ row' = [s \in Students |-> Result(r, s)]
      /\ enrolled' = enrolled \cup req[r].targets
      /\ req' = [req EXCEPT ![r] = Idle]
      /\ work' = work
  BY DEF Commit
<1>3. told' = [s \in Students |-> [c \in Audited |-> Heard(r, s, c)]]
  BY DEF Commit
<1>4. TypeOK'
  <2>1. row' \in [Students -> Student]
    BY <1>1, <1>2, ResultType
  <2>2. enrolled' \subseteq Students
    BY <1>1, <1>2 DEF TypeOK, Request
  <2>3. req' \in [Requests -> Request \cup {Idle}]
    BY <1>1, <1>2 DEF TypeOK
  <2>5. (\A s \in Students : DOMAIN told'[s] = Audited) /\ DOMAIN told' = Students
    BY <1>3
  <2>6. work' \in 0 .. MaxWork
    BY <1>1, <1>2 DEF TypeOK
  <2> QED
    BY <2>1, <2>2, <2>3, <2>5, <2>6 DEF TypeOK
<1>5. AuditInv'
  <2> SUFFICES ASSUME NEW s \in Students, NEW c \in Audited
               PROVE  Honest(told'[s][c], row'[s][c])
    BY DEF AuditInv, Honest
  <2>1. Honest(told[s][c], row[s][c])
    BY DEF IInv, AuditInv
  <2>2. row'[s] = Result(r, s) /\ told'[s][c] = Heard(r, s, c)
    BY <1>2, <1>3
  <2>3. req[r].began \in Nat
    BY <1>1 DEF Request, Times
  <2>4. c \in DOMAIN row[s]
    <3>1. row[s] \in Student
      BY <1>1 DEF TypeOK
    <3> QED
      BY <3>1 DEF Student, Audited
  <2>5. CASE s \notin req[r].targets
    BY <2>1, <2>2, <2>5 DEF Heard, Result
  <2>6. CASE s \in req[r].targets /\ req[r].op = "create"
    BY <2>2, <2>3, <2>6, ToldHonest DEF Heard, Result
  <2>7. CASE s \in req[r].targets /\ req[r].op # "create"
    <3>1. Result(r, s)[c] = IF Tells(r, s, c) THEN req[r].new[s][c] ELSE row[s][c]
      BY <2>4, <2>7 DEF Result, Written, Tells
    <3>2. Heard(r, s, c) = IF Tells(r, s, c)
                           THEN Hear(told[s][c], req[r].new[s][c], req[r].began)
                           ELSE told[s][c]
      BY <2>7 DEF Heard
    <3> QED
      BY <2>1, <2>2, <2>3, <3>1, <3>2, HearHonest
  <2> QED
    BY <2>5, <2>6, <2>7
<1>6. RollsInv'
  <2> DEFINE ids == enrolled \cup req[r].targets
  <2>1. ids \subseteq Students /\ enrolled' = ids
    BY <1>1, <1>2 DEF TypeOK, Request
  <2>2. CASE StudentCount = 0
    BY <2>1, <2>2 DEF RollsInv, UniqueRolls, Students
  <2>3. CASE StudentCount # 0
    <3>1. StudentCount \in Students
      BY <2>3, StudentsAssumption DEF Students
    <3>2. UniqueRolls(Prefix(r, StudentCount), ids)
      BY <3>1 DEF Commit, Accepted
    <3>3. Prefix(r, StudentCount) = row'
      BY <1>2, StudentsAssumption DEF Prefix, Students
    <3>4. \A s \in Students \ ids : row'[s].roll = NoRoll
      BY <1>2 DEF IInv, RollsInv, Result
    <3> QED
      BY <2>1, <3>2, <3>3, <3>4 DEF RollsInv, UniqueRolls
  <2> QED
    BY <2>2, <2>3
<1>7. PlanInv' /\ CohInv' /\ RollPlanInv'
  BY <1>1, <1>2 DEF IInv, PlanInv, CohInv, RollPlanInv, TypeOK, RowCoherent, UniqueRolls
<1> QED
  BY <1>4, <1>5, <1>6, <1>7 DEF IInv

\* A request that gives up changes no table.
LEMMA QuietStep ==
    ASSUME IInv, NEW r \in Requests, Conflict(r) \/ Abort(r)
    PROVE  IInv'
<1>1. UNCHANGED <<row, enrolled, told, work>> /\ req' = [req EXCEPT ![r] = Idle]
  BY DEF Conflict, Abort
<1>2. TypeOK'
  BY <1>1 DEF IInv, TypeOK
<1>3. PlanInv' /\ CohInv' /\ RollPlanInv'
  BY <1>1 DEF IInv, PlanInv, CohInv, RollPlanInv, TypeOK, RowCoherent, UniqueRolls
<1> QED
  BY <1>1, <1>2, <1>3 DEF IInv, AuditInv, Honest, RollsInv, UniqueRolls

-----------------------------------------------------------------------------
\* The invariant holds of a new school.
LEMMA InitIInv == Init => IInv
<1> SUFFICES ASSUME Init PROVE IInv
  OBVIOUS
<1>1. PICK name \in Names : row = [s \in Students |-> Created(name, NoRoll)]
  BY DEF Init
<1>2. Created(name, NoRoll) \in Student
  BY DEF Created, Student, Statuses
<1>3. TypeOK
  BY <1>1, <1>2, StudentsAssumption DEF Init, TypeOK
<1>4. AuditInv
  <2> SUFFICES ASSUME NEW s \in Students, NEW c \in Audited
               PROVE  Honest(told[s][c], row[s][c])
    BY DEF AuditInv
  <2>1. told[s][c] = Told(row[s][c], 0)
    BY DEF Init
  <2> QED
    BY <2>1, ToldHonest
<1>5. RollsInv
  <2>1. \A s \in Students : row[s].roll = NoRoll
    BY <1>1 DEF Created
  <2> QED
    BY <2>1 DEF Init, RollsInv, UniqueRolls
<1>6. PlanInv /\ CohInv /\ RollPlanInv
  BY DEF Init, PlanInv, CohInv, RollPlanInv
<1> QED
  BY <1>3, <1>4, <1>5, <1>6 DEF IInv

\* Every step keeps it.
LEMMA NextIInv == IInv /\ [Next]_vars => IInv'
<1> SUFFICES ASSUME IInv, [Next]_vars PROVE IInv'
  OBVIOUS
<1>1. CASE UNCHANGED vars
  BY <1>1 DEF IInv, TypeOK, AuditInv, Honest, RollsInv, RollPlanInv, UniqueRolls, PlanInv,
            CohInv, RowCoherent, vars
<1>2. CASE Next
  <2>1. PICK r \in Requests : Load(r) \/ Commit(r) \/ Conflict(r) \/ Abort(r)
    BY <1>2 DEF Next
  <2> QED
    BY <2>1, LoadStep, CommitStep, QuietStep
<1> QED
  BY <1>1, <1>2

\* The invariant holds throughout.
THEOREM Invariance == Spec => []IInv
BY InitIInv, NextIInv, PTL DEF Spec

\* Rows, history and requests keep their type.
THEOREM TypeCorrect == Spec => []TypeOK
<1>1. IInv => TypeOK
  BY DEF IInv
<1> QED
  BY <1>1, Invariance, PTL

\* The event of a column that was inserted last states the row's value, whatever
\* overlaps, and is shown first unless its transaction was overtaken: README.md:161.
THEOREM StudentHistory == Spec => []AuditTellsTheRow
<1>1. IInv => AuditTellsTheRow
  BY DEF IInv, AuditInv, Honest, AuditTellsTheRow, Overtaken
<1> QED
  BY <1>1, Invariance, PTL

\* The roll a student has after the writes up to an id, in a table as it was loaded.
LEMMA RollWritten ==
    ASSUME IInv, NEW r \in Requests, req[r] # Idle, req[r].seen = row, NEW s \in Students
    PROVE  Result(r, s).roll = req[r].new[s].roll
<1>1. row[s] \in Student /\ "roll" \in DOMAIN row[s]
  BY DEF IInv, TypeOK, Student
<1>2. s \notin req[r].targets => req[r].new[s] = row[s]
  BY DEF IInv, RollPlanInv
<1> QED
  BY <1>1, <1>2 DEF Result, Written

\* A save that nothing overtook is refused by the unique constraint exactly when it
\* passes a roll down in the order of the ids (student_grid.py:408 and :438).
THEOREM RefusalsArePassings == Spec => []RefusedWhenPassedDown
<1>1. IInv => RefusedWhenPassedDown
  <2> SUFFICES ASSUME IInv, NEW r \in Requests, req[r] # Idle, req[r].seen = row
               PROVE  Accepted(r) <=> ~PassedDown(r)
    BY DEF RefusedWhenPassedDown
  <2> DEFINE ids == enrolled \cup req[r].targets
             new == req[r].new
             T == req[r].targets
  <2>1. req[r] \in Request /\ ids \subseteq Students /\ T \subseteq ids
    BY DEF IInv, TypeOK, Request
  <2>2. /\ UniqueRolls(row, Students) /\ UniqueRolls(new, Students)
        /\ \A s \in Students \ T : new[s] = row[s]
    BY DEF IInv, RollPlanInv
  <2>3. ASSUME NEW i \in Students, NEW s \in Students
        PROVE  Prefix(r, i)[s].roll = IF s <= i THEN new[s].roll ELSE row[s].roll
    BY RollWritten DEF Prefix
  <2> HIDE DEF ids, new, T
  <2>4. ASSUME Accepted(r), PassedDown(r) PROVE FALSE
    <3>1. PICK s \in T, t \in T : s < t /\ new[s].roll # NoRoll /\ new[s].roll = row[t].roll
      BY <2>4 DEF PassedDown, T, new
    <3>2. s \in Students /\ t \in Students /\ s \in ids /\ t \in ids
      BY <2>1
    <3>3. UniqueRolls(Prefix(r, s), ids)
      BY <2>4, <3>2 DEF Accepted, ids
    <3>4. s # t /\ s <= s /\ ~(t <= s)
      BY <3>1, <3>2 DEF Students
    <3> QED
      BY <2>3, <3>1, <3>2, <3>3, <3>4 DEF UniqueRolls
  <2>5. ASSUME ~Accepted(r), ~PassedDown(r) PROVE FALSE
    <3>1. PICK i \in Students : ~UniqueRolls(Prefix(r, i), ids)
      BY <2>5 DEF Accepted, ids
    <3>2. PICK s \in ids, t \in ids : /\ s # t /\ Prefix(r, i)[s].roll # NoRoll
                                     /\ Prefix(r, i)[s].roll = Prefix(r, i)[t].roll
      BY <3>1 DEF UniqueRolls
    <3>3. s \in Students /\ t \in Students
      BY <2>1
    <3>4. ASSUME NEW a \in Students, NEW b \in Students, a <= i, ~(b <= i),
                 new[a].roll # NoRoll, new[a].roll = row[b].roll
          PROVE  FALSE
      <4>1. a # b /\ a < b
        BY <3>4 DEF Students
      <4>2. a \in T /\ b \in T
        BY <2>2, <3>4, <4>1 DEF UniqueRolls
      <4> QED
        BY <2>5, <3>4, <4>1, <4>2 DEF PassedDown, T, new
    <3>5. CASE s <= i /\ t <= i
      BY <2>2, <2>3, <3>2, <3>3, <3>5 DEF UniqueRolls
    <3>6. CASE ~(s <= i) /\ ~(t <= i)
      BY <2>2, <2>3, <3>2, <3>3, <3>6 DEF UniqueRolls
    <3>7. CASE s <= i /\ ~(t <= i)
      BY <2>3, <3>2, <3>3, <3>4, <3>7
    <3>8. CASE ~(s <= i) /\ t <= i
      BY <2>3, <3>2, <3>3, <3>4, <3>8
    <3> QED
      BY <3>5, <3>6, <3>7, <3>8
  <2> QED
    BY <2>4, <2>5
<1> QED
  BY <1>1, Invariance, PTL

\* An edit saved late undoes no decision: README.md:157.
THEOREM EditsPreserveDecisions == Spec => EditsKeepLifecycle
<1> DEFINE Kept == \A r \in Requests : Ends(r) /\ req[r].op \in {"edit", "grid", "delete"} =>
                      \A s \in Students, c \in Lifecycle : row'[s][c] = row[s][c]
<1>1. IInv /\ [Next]_vars => [Kept]_vars
  <2> SUFFICES ASSUME IInv, Next, NEW r \in Requests, Ends(r),
                      req[r].op \in {"edit", "grid", "delete"},
                      NEW s \in Students, NEW c \in Lifecycle
               PROVE  row'[s][c] = row[s][c]
    OBVIOUS
  <2>1. PICK q \in Requests : Load(q) \/ Commit(q) \/ Conflict(q) \/ Abort(q)
    BY DEF Next
  <2>2. CASE Load(q) \/ Conflict(q) \/ Abort(q)
    <3>1. row' = row
      BY <2>2, LoadPlans DEF IInv, Conflict, Abort
    <3> QED
      BY <3>1
  <2>3. CASE Commit(q)
    <3>1. req' = [req EXCEPT ![q] = Idle] /\ row' = [t \in Students |-> Result(q, t)]
      BY <2>3 DEF Commit
    <3>2. q = r
      BY <3>1 DEF IInv, TypeOK, Ends
    <3>3. req[r].new[s][c] = req[r].seen[s][c]
      BY DEF IInv, PlanInv, Ends
    <3>4. c \in DOMAIN row[s]
      <4>1. row[s] \in Student
        BY DEF IInv, TypeOK
      <4> QED
        BY <4>1 DEF Student, Lifecycle
    <3>5. Result(r, s)[c] = row[s][c]
      BY <3>3, <3>4 DEF Result, Written
    <3> QED
      BY <3>1, <3>2, <3>5
  <2> QED
    BY <2>1, <2>2, <2>3
<1> QED
  BY <1>1, Invariance, PTL DEF Spec, EditsKeepLifecycle

\* Decisions made on the rows as they are keep status, verifier and note in
\* agreement (tests/test_student_lifecycle.py:166 and :187).
THEOREM DecisionsStayCoherent == Spec => VerificationCoherent
<1> DEFINE Kept == Coherent /\ (\A r \in Requests : Ends(r) => SawItsRows(r)) => Coherent'
<1>1. IInv /\ [Next]_vars => [Kept]_vars
  <2> SUFFICES ASSUME IInv, Next, Coherent, \A r \in Requests : Ends(r) => SawItsRows(r),
                      NEW s \in Students
               PROVE  RowCoherent(row'[s])
    BY DEF Coherent, RowCoherent
  <2>1. RowCoherent(row[s])
    BY DEF Coherent, RowCoherent
  <2>2. PICK q \in Requests : Load(q) \/ Commit(q) \/ Conflict(q) \/ Abort(q)
    BY DEF Next
  <2>3. CASE Load(q) \/ Conflict(q) \/ Abort(q)
    <3>1. row' = row
      BY <2>3, LoadPlans DEF IInv, Conflict, Abort
    <3> QED
      BY <2>1, <3>1
  <2>4. CASE Commit(q)
    <3>1. req[q] # Idle /\ req' = [req EXCEPT ![q] = Idle] /\ row'[s] = Result(q, s)
      BY <2>4 DEF Commit
    <3>2. SawItsRows(q)
      BY <3>1 DEF IInv, TypeOK, Ends
    <3>3. CASE s \notin req[q].targets
      BY <2>1, <3>1, <3>3 DEF Result
    <3>4. CASE s \in req[q].targets
      <4>1. RowCoherent(req[q].new[s]) /\ (req[q].op # "create" => req[q].seen[s] = row[s])
        BY <2>1, <3>1, <3>2, <3>4 DEF IInv, CohInv, SawItsRows
      <4>2. row[s] \in Student
        BY DEF IInv, TypeOK
      <4>3. \A c \in {"status", "verifier", "note"} : Result(q, s)[c] = req[q].new[s][c]
        BY <3>4, <4>1, <4>2 DEF Result, Written, Student
      <4> QED
        BY <3>1, <4>1, <4>3 DEF RowCoherent
    <3> QED
      BY <3>3, <3>4
  <2> QED
    BY <2>2, <2>3, <2>4
<1> QED
  BY <1>1, Invariance, PTL DEF Spec, VerificationCoherent

-----------------------------------------------------------------------------
(***************************************************************************)
(* Personnel.                                                              *)
(***************************************************************************)
\* The table with the rows of a plan in it.
Planted(T, new) == [s \in Personnel!Persons |-> IF s \in T THEN new[s] ELSE person[s]]

\* The persons ids of a table have values of fields of their own type only.
Follows(table, ids) ==
    \A s \in ids, f \in Fields : table[s].values[f] # NoUser => Kind[f] = table[s].type

\* A plan made of rows as they are breaks neither of the two rules.
KeepsRules(T, new) ==
    /\ Personnel!Differ(person, hired) => Personnel!Differ(Planted(T, new), hired \cup T)
    /\ Personnel!Fit => Follows(Planted(T, new), hired \cup T)

\* An update is of rows that are there; while nothing is committed the plan holds
\* what was checked.
SoundPlan(r) ==
    /\ ~Personnel!Inserts(r) => order[r].targets \subseteq hired
    /\ order[r].fresh =>
        /\ ~Personnel!Inserts(r) => \A s \in order[r].targets : order[r].seen[s] = person[s]
        /\ KeepsRules(order[r].targets, order[r].new)

PersonnelPlanInv == \A r \in Requests : Personnel!Pending(r) => SoundPlan(r)

\* As for the students.
HistoryInv == \A s \in hired, c \in Personnel!Audited : Honest(noted[s][c], person[s][c])

PersonnelInv ==
    /\ Personnel!TypeOK
    /\ HistoryInv
    /\ Personnel!Distinct(person, hired)
    /\ PersonnelPlanInv

\* What the loads have in common.
PersonnelPlans(r) ==
    \E op \in Personnel!Ops, T \in SUBSET Personnel!Persons, u \in Uploads \cup {NoUser} :
        \E new :
        /\ \A s \in T : new[s] \in Personnel!Person
        /\ op \notin {"create", "import"} => T \subseteq hired
        /\ KeepsRules(T, new)
        /\ Personnel!Planned(r, op, T, new, u)

-----------------------------------------------------------------------------
\* The fields of a row.
LEMMA PersonFields ==
    ASSUME NEW p \in Personnel!Person
    PROVE  /\ DOMAIN p = {"active", "type", "no", "status", "note", "verifier", "count",
                  "values"}
           /\ p.active \in BOOLEAN /\ p.type \in Personnel!Types /\ p.no \in Numbers
           /\ p.status \in Personnel!Statuses /\ p.note \in BOOLEAN
           /\ p.verifier \in Managers \cup {NoUser}
           /\ p.count \in Nat /\ p.values \in [Fields -> Values \cup {NoUser}]
BY DEF Personnel!Person

\* An UPDATE of a row leaves a row, of an unchanged one the planned row.
LEMMA WrittenPerson ==
    ASSUME NEW seen \in Personnel!Person, NEW new \in Personnel!Person,
        NEW there \in Personnel!Person
    PROVE  /\ Personnel!Written(seen, new, there) \in Personnel!Person
           /\ \A c \in Personnel!Audited : Personnel!Written(seen, new, there)[c] =
                                     IF new[c] # seen[c] THEN new[c] ELSE there[c]
           /\ \A f \in Fields : Personnel!Written(seen, new, there).values[f] =
                  IF new.values[f] # seen.values[f] THEN new.values[f] ELSE there.values[f]
<1> DEFINE w == Personnel!Written(seen, new, there)
           v == [f \in Fields |-> IF new.values[f] # seen.values[f] THEN new.values[f]
                                  ELSE there.values[f]]
<1>1. v \in [Fields -> Values \cup {NoUser}]
  BY PersonFields
<1>2. w = [c \in DOMAIN there |->
             IF c = "values" THEN v ELSE IF new[c] # seen[c] THEN new[c] ELSE there[c]]
  BY DEF Personnel!Written
<1>3. DOMAIN there = {"active", "type", "no", "status", "note", "verifier", "count",
    "values"}
  BY PersonFields
<1>4. /\ w.values = v
      /\ \A c \in DOMAIN there \ {"values"} :
             w[c] = IF new[c] # seen[c] THEN new[c] ELSE there[c]
  BY <1>2, <1>3
<1> HIDE DEF w, v
<1>5. w = [active |-> w.active, type |-> w.type, no |-> w.no, status |-> w.status,
    note |-> w.note,
           verifier |-> w.verifier, count |-> w.count, values |-> w.values]
  BY <1>2, <1>3
<1>6. w \in Personnel!Person
  <2>1. /\ w.active \in BOOLEAN /\ w.type \in Personnel!Types /\ w.no \in Numbers
        /\ w.status \in Personnel!Statuses /\ w.note \in BOOLEAN
        /\ w.verifier \in Managers \cup {NoUser}
        /\ w.count \in Nat /\ w.values \in [Fields -> Values \cup {NoUser}]
    BY <1>1, <1>3, <1>4, PersonFields
  <2> QED
    BY <1>5, <2>1 DEF Personnel!Person
<1>7. \A c \in Personnel!Audited : w[c] = IF new[c] # seen[c] THEN new[c] ELSE there[c]
  BY <1>3, <1>4 DEF Personnel!Audited
<1>8. \A f \in Fields : w.values[f] =
          IF new.values[f] # seen.values[f] THEN new.values[f] ELSE there.values[f]
  BY <1>4 DEF v
<1> QED
  BY <1>6, <1>7, <1>8 DEF w

\* The parts of a request.
LEMMA RequestParts ==
    ASSUME Personnel!TypeOK, NEW r \in Requests, order[r] # NoUser
    PROVE  /\ order[r] \in Personnel!Request(order[r].targets)
           /\ order[r].op \in Personnel!Ops /\ order[r].began \in Nat
           /\ order[r].targets \subseteq Personnel!Persons
           /\ order[r].upload \in Uploads \cup {NoUser} /\ order[r].fresh \in BOOLEAN
           /\ \A s \in order[r].targets : order[r].seen[s] \in Personnel!Person
                  /\ order[r].new[s] \in Personnel!Person
BY DEF Personnel!TypeOK, Personnel!Request, Personnel!Times

\* What a request leaves of a person is a row.
LEMMA ResultPerson ==
    ASSUME Personnel!TypeOK, NEW r \in Requests, order[r] # NoUser,
        NEW s \in Personnel!Persons
    PROVE  Personnel!Result(r, s) \in Personnel!Person
BY RequestParts, WrittenPerson DEF Personnel!Result, Personnel!TypeOK

\* A definition that is created or changed leaves the rows, and ends the freshness
\* of every request.
LEMMA StaleStep ==
    ASSUME PersonnelInv, UNCHANGED <<person, hired, noted>>,
        NEW d \in [Fields -> Personnel!Definition \cup {NoUser}],
           field' = d, upload' = upload, done' \in 0 .. MaxWork,
           order' = [r \in Requests |->
                       IF order[r] = NoUser THEN NoUser
                           ELSE [order[r] EXCEPT !.fresh = FALSE]]
    PROVE  PersonnelInv'
<1>1. ASSUME NEW r \in Requests, order'[r] # NoUser
      PROVE  /\ order[r] # NoUser /\ order'[r] \in Personnel!Request(order[r].targets)
             /\ order'[r].targets = order[r].targets /\ order'[r].op = order[r].op
             /\ ~order'[r].fresh
  <2>1. order[r] # NoUser /\ order'[r] = [order[r] EXCEPT !.fresh = FALSE]
    BY <1>1
  <2>2. order[r] \in Personnel!Request(order[r].targets)
    BY <2>1, RequestParts DEF PersonnelInv
  <2> QED
    BY <2>1, <2>2 DEF Personnel!Request
<1>2. Personnel!TypeOK'
  BY <1>1 DEF PersonnelInv, Personnel!TypeOK
<1>3. PersonnelPlanInv'
  BY <1>1 DEF PersonnelInv, PersonnelPlanInv, Personnel!Pending, SoundPlan,
      Personnel!Inserts
<1> QED
  BY <1>2, <1>3 DEF PersonnelInv, HistoryInv, Honest, Personnel!Distinct

\* The end of a request that changes no table.
LEMMA EndStep ==
    ASSUME PersonnelInv, NEW r \in Requests, UNCHANGED <<person, hired, noted, field,
        done>>,
           upload' \in [Uploads -> {"none", "stored", "gone"}],
               order' = [order EXCEPT ![r] = NoUser]
    PROVE  PersonnelInv'
<1>1. Personnel!TypeOK'
  BY DEF PersonnelInv, Personnel!TypeOK
<1>2. PersonnelPlanInv'
  <2> SUFFICES ASSUME NEW q \in Requests, Personnel!Pending(q)' PROVE SoundPlan(q)'
    BY DEF PersonnelPlanInv
  <2>1. q # r /\ order'[q] = order[q]
    BY DEF PersonnelInv, Personnel!TypeOK, Personnel!Pending
  <2>2. SoundPlan(q)
    BY <2>1 DEF PersonnelInv, PersonnelPlanInv, Personnel!Pending
  <2> QED
    BY <2>1, <2>2 DEF Personnel!Persons, SoundPlan, Personnel!Inserts, KeepsRules, Planted,
        Personnel!Differ, Personnel!Fit, Follows
<1> QED
  BY <1>1, <1>2 DEF PersonnelInv, HistoryInv, Honest, Personnel!Distinct

\* An upload that is stored or expires.
LEMMA UploadStep ==
    ASSUME PersonnelInv, UNCHANGED <<person, hired, noted, field, order>>,
        done' \in 0 .. MaxWork,
           upload' \in [Uploads -> {"none", "stored", "gone"}]
    PROVE  PersonnelInv'
<1>1. Personnel!TypeOK'
  BY DEF PersonnelInv, Personnel!TypeOK
<1>2. PersonnelPlanInv'
  BY DEF Personnel!Persons, PersonnelInv, PersonnelPlanInv, SoundPlan, Personnel!Inserts,
      Personnel!Pending, KeepsRules, Planted, Personnel!Differ, Personnel!Fit, Follows
<1> QED
  BY <1>1, <1>2 DEF PersonnelInv, HistoryInv, Honest, Personnel!Distinct

\* There is a member of staff, so that their number is positive.
LEMMA CountNat == PersonCount \in Nat \ {0}
BY PersonnelAssumed DEF Personnel!PersonnelAssumption

\* Recording a plan keeps the invariant.
LEMMA PersonnelPlanStep ==
    ASSUME PersonnelInv, NEW r \in Requests, PersonnelPlans(r), done' \in 0 .. MaxWork,
           UNCHANGED <<person, hired, noted, field, upload>>
    PROVE  PersonnelInv'
<1>0. PICK op \in Personnel!Ops, T \in SUBSET Personnel!Persons,
    u \in Uploads \cup {NoUser} : \E new :
        /\ \A s \in T : new[s] \in Personnel!Person
        /\ op \notin {"create", "import"} => T \subseteq hired
        /\ KeepsRules(T, new)
        /\ Personnel!Planned(r, op, T, new, u)
  BY DEF PersonnelPlans
<1>1. PICK new :
        /\ \A s \in T : new[s] \in Personnel!Person
        /\ op \notin {"create", "import"} => T \subseteq hired
        /\ KeepsRules(T, new)
        /\ Personnel!Planned(r, op, T, new, u)
  BY <1>0
<1> DEFINE seen == [s \in T |-> person[s]]
           n == [s \in T |-> new[s]]
<1>12. PICK began \in Personnel!Times : order' = [order EXCEPT ![r] =
          [op |-> op, began |-> began, targets |-> T, seen |-> seen, new |-> n, upload |-> u,
           fresh |-> TRUE]]
  BY <1>1 DEF Personnel!Planned
<1> DEFINE p == [op |-> op, began |-> began, targets |-> T, seen |-> seen, new |-> n,
               upload |-> u, fresh |-> TRUE]
<1>2. order' = [order EXCEPT ![r] = p]
  BY <1>12
<1>3. seen \in [T -> Personnel!Person] /\ n \in [T -> Personnel!Person]
  BY <1>1 DEF PersonnelInv, Personnel!TypeOK
<1>4. \A s \in T : seen[s] = person[s] /\ n[s] = new[s]
  OBVIOUS
<1>5. Planted(T, n) = Planted(T, new)
  BY DEF Planted
<1>6. KeepsRules(T, n)
  BY <1>1, <1>5 DEF KeepsRules
<1> HIDE DEF seen, n
<1>7. p \in Personnel!Request(T)
  BY <1>3 DEF Personnel!Request
<1>8. /\ p.op = op /\ p.targets = T /\ p.seen = seen /\ p.new = n /\ p.fresh
  OBVIOUS
<1> HIDE DEF p
<1>9. order'[r] = p /\ \A q \in Requests \ {r} : order'[q] = order[q]
  BY <1>2 DEF PersonnelInv, Personnel!TypeOK
<1>10. Personnel!TypeOK'
  BY <1>2, <1>7, <1>8, <1>9 DEF PersonnelInv, Personnel!TypeOK
<1>11. ASSUME NEW q \in Requests, Personnel!Pending(q)' PROVE SoundPlan(q)'
  <2>1. CASE q = r
    <3>1. KeepsRules(T, n)'
      BY <1>6 DEF Personnel!Persons, KeepsRules, Planted, Personnel!Differ, Personnel!Fit,
          Follows
    <3>2. ~Personnel!Inserts(r)' => T \subseteq hired'
      BY <1>1, <1>8, <1>9 DEF Personnel!Inserts
    <3> QED
      BY <1>4, <1>8, <1>9, <2>1, <3>1, <3>2 DEF SoundPlan
  <2>2. CASE q # r
    <3>1. SoundPlan(q)
      BY <1>9, <1>11, <2>2 DEF PersonnelInv, PersonnelPlanInv, Personnel!Pending
    <3>2. order'[q] = order[q] /\ person' = person /\ hired' = hired
      BY <1>9, <2>2
    <3> QED
      BY <3>1, <3>2 DEF Personnel!Persons, SoundPlan, Personnel!Inserts, KeepsRules,
          Planted, Personnel!Differ, Personnel!Fit, Follows
  <2> QED
    BY <2>1, <2>2
<1> QED
  BY <1>10, <1>11 DEF PersonnelInv, PersonnelPlanInv, HistoryInv, Honest,
      Personnel!Distinct

\* What a request that nothing has overtaken writes is its plan.
LEMMA FreshResult ==
    ASSUME PersonnelInv, NEW r \in Requests, Personnel!Pending(r), order[r].fresh,
        NEW s \in Personnel!Persons
    PROVE  LET o == Planted(order[r].targets, order[r].new)[s] IN
           /\ Personnel!Result(r, s).no = o.no /\ Personnel!Result(r, s).type = o.type
           /\ \A f \in Fields : Personnel!Result(r, s).values[f] = o.values[f]
<1>1. CASE s \notin order[r].targets \/ Personnel!Inserts(r)
  BY <1>1 DEF Personnel!Result, Planted
<1>2. CASE s \in order[r].targets /\ ~Personnel!Inserts(r)
  <2>1. order[r].seen[s] = person[s]
    BY <1>2 DEF PersonnelInv, PersonnelPlanInv, SoundPlan
  <2>2. order[r].new[s] \in Personnel!Person /\ person[s] \in Personnel!Person
    BY <1>2, RequestParts DEF PersonnelInv, Personnel!Pending, Personnel!TypeOK
  <2>3. Personnel!Result(r, s) = Personnel!Written(person[s], order[r].new[s], person[s])
    BY <1>2, <2>1 DEF Personnel!Result
  <2>4. Planted(order[r].targets, order[r].new)[s] = order[r].new[s]
    BY <1>2 DEF Planted
  <2>5. {"no", "type"} \subseteq Personnel!Audited
    BY DEF Personnel!Audited
  <2> QED
    BY <2>2, <2>3, <2>4, <2>5, WrittenPerson
<1> QED
  BY <1>1, <1>2

\* A commit that saw the tables as they are breaks neither rule.
LEMMA FreshCommit ==
    ASSUME PersonnelInv, NEW r \in Requests, Personnel!Commit(r), order[r].fresh
    PROVE  (Personnel!Differ(person, hired) => Personnel!Differ(person', hired'))
        /\ (Personnel!Fit => Personnel!Fit')
<1>1. Personnel!Pending(r) /\ KeepsRules(order[r].targets, order[r].new)
  BY DEF Personnel!Commit, PersonnelInv, PersonnelPlanInv, SoundPlan
<1>2. hired' = hired \cup order[r].targets /\ hired' \subseteq Personnel!Persons
  BY <1>1, RequestParts DEF Personnel!Commit, PersonnelInv, Personnel!TypeOK,
      Personnel!Pending
<1>3. \A s \in hired' : person'[s] = Personnel!Result(r, s)
  BY <1>2 DEF Personnel!Commit
<1> DEFINE o == Planted(order[r].targets, order[r].new)
<1> HIDE DEF o
<1>4. \A s \in hired' : /\ person'[s].no = o[s].no /\ person'[s].type = o[s].type
                           /\ \A f \in Fields : person'[s].values[f] = o[s].values[f]
  BY <1>1, <1>2, <1>3, FreshResult DEF o
<1>5. (Personnel!Differ(person, hired) => Personnel!Differ(o, hired'))
    /\ (Personnel!Fit => Follows(o, hired'))
  BY <1>1, <1>2 DEF KeepsRules, o
<1> QED
  BY <1>4, <1>5 DEF Personnel!Differ, Personnel!Fit, Follows

\* Saving keeps the invariant: the events name what is written, and the constraint
\* was checked on the last row too.
LEMMA PersonnelCommitStep ==
    ASSUME PersonnelInv, NEW r \in Requests, Personnel!Commit(r)
    PROVE  PersonnelInv'
<1>1. /\ Personnel!TypeOK /\ order[r] # NoUser /\ order[r].op # "discard"
      /\ order[r].targets \subseteq Personnel!Persons
      /\ order[r].op \in Personnel!Ops
  BY RequestParts DEF Personnel!Commit, Personnel!Pending, PersonnelInv
<1>2. /\ \A s \in Personnel!Persons : person'[s] = Personnel!Result(r, s)
      /\ hired' = hired \cup order[r].targets
      /\ UNCHANGED <<field, upload, done>>
  BY DEF Personnel!Commit
<1>3. /\ \A s \in Personnel!Persons, c \in Personnel!Audited :
             noted'[s][c] = Personnel!Heard(r, s, c)
      /\ DOMAIN noted' = Personnel!Persons /\ \A s \in Personnel!Persons :
             DOMAIN noted'[s] = Personnel!Audited
  BY DEF Personnel!Commit
<1>4. ASSUME NEW q \in Requests, order'[q] # NoUser
      PROVE  /\ order[q] # NoUser /\ order'[q].targets = order[q].targets
             /\ order'[q] \in Personnel!Request(order[q].targets)
             /\ q # r => order'[q].op = order[q].op /\ ~order'[q].fresh
             /\ q = r => order'[q].op = "discard"
  <2>1. order'[q] = IF q # r THEN IF order[q] = NoUser THEN NoUser
      ELSE [order[q] EXCEPT !.fresh = FALSE]
                  ELSE IF order[r].op = "import" THEN [order[r] EXCEPT !.op = "discard"]
                      ELSE NoUser
    BY DEF Personnel!Commit
  <2>2. order[q] # NoUser /\ order[q] \in Personnel!Request(order[q].targets)
    BY <1>1, <1>4, <2>1, RequestParts
  <2>3. CASE q # r
    <3>1. order'[q] = [order[q] EXCEPT !.fresh = FALSE]
      BY <2>1, <2>2, <2>3
    <3> QED
      BY <2>2, <2>3, <3>1 DEF Personnel!Request
  <2>4. CASE q = r
    <3>1. order'[q] = [order[q] EXCEPT !.op = "discard"]
      BY <1>4, <2>1, <2>4
    <3> QED
      BY <2>2, <2>4, <3>1 DEF Personnel!Request, Personnel!Ops
  <2> QED
    BY <2>3, <2>4
<1>5. Personnel!TypeOK'
  <2>1. person' \in [Personnel!Persons -> Personnel!Person]
    BY <1>1, ResultPerson DEF Personnel!Commit
  <2>2. hired' \subseteq Personnel!Persons
    BY <1>1, <1>2 DEF Personnel!TypeOK
  <2>3. DOMAIN order' = Requests
    BY DEF Personnel!Commit
  <2>4. \A q \in Requests : order'[q] # NoUser =>
            order'[q].targets \subseteq Personnel!Persons
                /\ order'[q] \in Personnel!Request(order'[q].targets)
    BY <1>1, <1>4, RequestParts
  <2>5. /\ field' \in [Fields -> Personnel!Definition \cup {NoUser}]
        /\ upload' \in [Uploads -> {"none", "stored", "gone"}] /\ done' \in 0 .. MaxWork
    BY <1>1, <1>2 DEF Personnel!TypeOK
  <2> QED
    BY <1>3, <2>1, <2>2, <2>3, <2>4, <2>5 DEF Personnel!TypeOK
<1>6. HistoryInv'
  <2> SUFFICES ASSUME NEW s \in hired', NEW c \in Personnel!Audited
               PROVE  Honest(noted'[s][c], person'[s][c])
    BY DEF HistoryInv, Honest
  <2>1. s \in Personnel!Persons /\ person'[s] = Personnel!Result(r, s)
    BY <1>1, <1>2 DEF Personnel!TypeOK
  <2>2. noted'[s][c] = Personnel!Heard(r, s, c) /\ order[r].began \in Nat
    BY <1>1, <1>3, <2>1, RequestParts
  <2>3. CASE s \notin order[r].targets
    <3>1. Honest(noted[s][c], person[s][c])
      BY <1>2, <2>3 DEF PersonnelInv, HistoryInv
    <3> QED
      BY <2>1, <2>2, <2>3, <3>1 DEF Personnel!Result, Personnel!Heard
  <2>4. CASE s \in order[r].targets /\ Personnel!Inserts(r)
    BY <2>1, <2>2, <2>4, ToldHonest DEF Personnel!Result, Personnel!Heard
  <2>5. CASE s \in order[r].targets /\ ~Personnel!Inserts(r)
    <3>1. s \in hired
      BY <1>1, <2>5 DEF PersonnelInv, PersonnelPlanInv, Personnel!Pending, SoundPlan
    <3>2. Honest(noted[s][c], person[s][c])
      BY <3>1 DEF PersonnelInv, HistoryInv
    <3>3. order[r].seen[s] \in Personnel!Person /\ order[r].new[s] \in Personnel!Person
        /\ person[s] \in Personnel!Person
      BY <1>1, <2>1, <2>5, RequestParts DEF Personnel!TypeOK
    <3>4. Personnel!Result(r, s)[c] = IF Personnel!Tells(r, s, c)
        THEN order[r].new[s][c] ELSE person[s][c]
      BY <2>5, <3>3, WrittenPerson DEF Personnel!Result, Personnel!Tells
    <3>5. Personnel!Heard(r, s, c) = IF Personnel!Tells(r, s, c)
        THEN Personnel!Hear(noted[s][c], order[r].new[s][c], order[r].began)
        ELSE noted[s][c]
      BY <2>5 DEF Personnel!Heard
    <3> QED
      BY <2>1, <2>2, <3>2, <3>4, <3>5, HearHonest
  <2> QED
    BY <2>3, <2>4, <2>5
<1>7. Personnel!Distinct(person, hired)'
  <2>1. CASE PersonCount = 0
    BY <2>1, CountNat
  <2>2. CASE PersonCount # 0
    <3>1. PersonCount \in Personnel!Persons
      BY <2>2, CountNat DEF Personnel!Persons
    <3>2. Personnel!Distinct(Personnel!Prefix(r, PersonCount), hired')
      BY <1>2, <3>1 DEF Personnel!Commit, Personnel!Accepted
    <3>3. \A s \in Personnel!Persons : Personnel!Prefix(r, PersonCount)[s] = person'[s]
      BY <1>2, CountNat DEF Personnel!Prefix, Personnel!Persons
    <3>4. hired' \subseteq Personnel!Persons
      BY <1>5 DEF Personnel!TypeOK
    <3> QED
      BY <3>2, <3>3, <3>4 DEF Personnel!Distinct
  <2> QED
    BY <2>1, <2>2
<1>8. PersonnelPlanInv'
  <2> SUFFICES ASSUME NEW q \in Requests, Personnel!Pending(q)' PROVE SoundPlan(q)'
    BY DEF PersonnelPlanInv
  <2>1. order'[q] # NoUser /\ q # r
    BY <1>4 DEF Personnel!Pending
  <2>2. Personnel!Pending(q) /\ order'[q].op = order[q].op /\ ~order'[q].fresh
      /\ order'[q].targets = order[q].targets
    BY <1>4, <2>1 DEF Personnel!Pending
  <2>3. ~Personnel!Inserts(q) => order[q].targets \subseteq hired
    BY <2>2 DEF PersonnelInv, PersonnelPlanInv, SoundPlan
  <2> QED
    BY <1>2, <2>2, <2>3 DEF SoundPlan, Personnel!Inserts
<1> QED
  BY <1>5, <1>6, <1>7, <1>8 DEF PersonnelInv

\* The loads write a row each for persons that exist, or new ones.
LEMMA OneRow ==
    ASSUME Personnel!TypeOK, NEW s \in Personnel!Persons, NEW new \in Personnel!Person,
           (new.no = person[s].no /\ s \in hired) \/ Personnel!Available(new.no, s),
           \A f \in Fields : new.values[f] # NoUser =>
               \/ Kind[f] = new.type
               \/ s \in hired /\ new.values[f] = person[s].values[f]
                      /\ new.type = person[s].type
    PROVE  KeepsRules({s}, [t \in {s} |-> new])
<1> DEFINE o == Planted({s}, [t \in {s} |-> new])
<1>1. o[s] = new /\ \A t \in hired \ {s} : o[t] = person[t]
  BY DEF Planted, Personnel!TypeOK
<1> HIDE DEF o
<1>2. ASSUME Personnel!Differ(person, hired) PROVE Personnel!Differ(o, hired \cup {s})
  <2> SUFFICES ASSUME NEW t \in hired \ {s} PROVE Fold[o[t].no] # Fold[o[s].no]
    BY <1>1, <1>2 DEF Personnel!Differ
  <2>1. CASE Personnel!Available(new.no, s)
    BY <1>1, <2>1 DEF Personnel!Available
  <2>2. CASE new.no = person[s].no /\ s \in hired
    BY <1>1, <1>2, <2>2 DEF Personnel!Differ
  <2> QED
    BY <2>1, <2>2
<1>3. ASSUME Personnel!Fit PROVE Follows(o, hired \cup {s})
  BY <1>1, <1>3 DEF Personnel!Fit, Follows
<1> QED
  BY <1>2, <1>3 DEF KeepsRules, o

\* A plan that leaves numbers, types and values alone breaks neither rule.
LEMMA SameNumbers ==
    ASSUME Personnel!TypeOK, NEW T \in SUBSET hired, NEW new,
           \A s \in T : /\ new[s].no = person[s].no /\ new[s].type = person[s].type
                        /\ new[s].values = person[s].values
    PROVE  KeepsRules(T, new)
<1> DEFINE o == Planted(T, new)
<1>1. hired \cup T = hired
  OBVIOUS
<1>2. \A s \in hired : /\ o[s].no = person[s].no /\ o[s].type = person[s].type
                          /\ o[s].values = person[s].values
  BY DEF Planted, Personnel!TypeOK
<1> HIDE DEF o
<1>3. Personnel!Differ(person, hired) => Personnel!Differ(o, hired)
  BY <1>2 DEF Personnel!Differ
<1>4. Personnel!Fit => Follows(o, hired)
  BY <1>2 DEF Personnel!Fit, Follows
<1> QED
  BY <1>1, <1>3, <1>4 DEF KeepsRules, o

\* What replacing the values of the type's active fields leaves.
LEMMA ReplacedValues ==
    ASSUME NEW old \in Personnel!AnyValues, NEW values \in Personnel!AnyValues
    PROVE  /\ Personnel!Replaced(old, values) \in Personnel!AnyValues
           /\ \A f \in Fields : \/ Personnel!Replaced(old, values)[f] = NoUser
                                \/ Personnel!Replaced(old, values)[f] = old[f]
                                       /\ values[f] = NoUser
                                \/ Personnel!Replaced(old, values)[f] = values[f]
                                       /\ values[f] # NoUser
BY DEF Personnel!Replaced, Personnel!AnyValues

\* A new person has a free number and values of his type.
LEMMA CreatePlans == ASSUME Personnel!TypeOK, NEW r \in Requests, Personnel!LoadCreate(r)
    PROVE PersonnelPlans(r)
<1>1. PICK s \in Personnel!Persons, type \in Personnel!Types, no \in Numbers,
    values \in Personnel!AnyValues :
        /\ Personnel!Available(no, s)
        /\ Personnel!Valid(values, type)
        /\ Personnel!Planned(r, "create", {s},
               [t \in {s} |-> Personnel!Created(type, no, values)], NoUser)
  BY DEF Personnel!LoadCreate
<1> DEFINE new == Personnel!Created(type, no, values)
<1>2. new \in Personnel!Person /\ new.no = no /\ new.type = type /\ new.values = values
  BY DEF Personnel!Created, Personnel!Person, Personnel!Statuses, Personnel!AnyValues
<1> HIDE DEF new
<1>3. KeepsRules({s}, [t \in {s} |-> new])
  BY <1>1, <1>2, OneRow DEF Personnel!Valid
<1>4. Personnel!Planned(r, "create", {s}, [t \in {s} |-> new], NoUser)
  BY <1>1 DEF new
<1> QED
  BY <1>2, <1>3, <1>4 DEF PersonnelPlans, Personnel!Ops

\* A form keeps the number or brings a free one; what it keeps of the values it keeps
\* with the type.
LEMMA EditPlans == ASSUME Personnel!TypeOK, NEW r \in Requests, Personnel!LoadEdit(r)
    PROVE PersonnelPlans(r)
<1>1. PICK s \in hired, type \in Personnel!Types, no \in Numbers, given \in BOOLEAN,
    values \in Personnel!AnyValues :
        /\ ~ given => values = Personnel!NoValues
        /\ given \/ type # person[s].type => Personnel!Valid(values, type)
        /\ no = person[s].no \/ Personnel!Available(no, s)
        /\ Personnel!Planned(r, "edit", {s},
               [t \in {s} |-> Personnel!Edited(person[s], type, no, given, values)], NoUser)
  BY DEF Personnel!LoadEdit
<1> DEFINE p == person[s]
           v == IF type # p.type THEN Personnel!Retyped(p.values, values)
                ELSE IF given THEN Personnel!Replaced(p.values, values) ELSE p.values
           new == Personnel!Edited(p, type, no, given, values)
<1>2. p \in Personnel!Person /\ p.values \in Personnel!AnyValues
  BY PersonFields DEF Personnel!TypeOK, Personnel!AnyValues
<1>3. Personnel!NoValues \in Personnel!AnyValues /\ \A f \in Fields :
    Personnel!NoValues[f] = NoUser
  BY DEF Personnel!NoValues, Personnel!AnyValues
<1>4. v \in Personnel!AnyValues
  BY <1>2, <1>3, ReplacedValues DEF Personnel!Retyped
<1>5. \A f \in Fields : v[f] # NoUser =>
          \/ Kind[f] = type
          \/ v[f] = p.values[f] /\ type = p.type
  <2>1. CASE type # p.type
    <3>1. v = Personnel!Replaced(Personnel!NoValues, values)
      BY <2>1 DEF Personnel!Retyped
    <3>2. \A f \in Fields : v[f] # NoUser => v[f] = values[f]
      BY <1>3, <3>1, ReplacedValues
    <3>3. \A f \in Fields : values[f] # NoUser => Kind[f] = type
      BY <1>1, <2>1 DEF Personnel!Valid
    <3>4. \A f \in Fields : v[f] # NoUser => Kind[f] = type
      <4> HIDE DEF v
      <4> QED
        BY <3>2, <3>3
    <3> QED
      BY <3>4
  <2>2. CASE type = p.type /\ given
    BY <1>1, <1>2, <2>2, ReplacedValues DEF Personnel!Valid
  <2>3. CASE type = p.type /\ ~given
    BY <2>3
  <2> QED
    BY <2>1, <2>2, <2>3
<1>6. new = [p EXCEPT !.type = type, !.no = no, !.values = v]
  BY DEF Personnel!Edited
<1> HIDE DEF p, v, new
<1>7. new \in Personnel!Person /\ new.no = no /\ new.type = type /\ new.values = v
  BY <1>2, <1>4, <1>6 DEF Personnel!Person, Personnel!AnyValues
<1>8. s \in Personnel!Persons
    /\ Personnel!Planned(r, "edit", {s}, [t \in {s} |-> new], NoUser)
  BY <1>1 DEF new, p, Personnel!TypeOK
<1>9. KeepsRules({s}, [t \in {s} |-> new])
  BY <1>1, <1>5, <1>7, <1>8, OneRow DEF p
<1> QED
  BY <1>7, <1>8, <1>9 DEF PersonnelPlans, Personnel!Ops

\* A grid has compared its numbers with each other and with the table.
LEMMA GridPlans == ASSUME Personnel!TypeOK, NEW r \in Requests, Personnel!LoadGrid(r)
    PROVE PersonnelPlans(r)
<1>1. PICK T \in SUBSET hired :
        \E no \in [T -> Numbers], patch \in [T -> Personnel!AnyValues] :
        LET new == [s \in Personnel!Persons |-> IF s \notin T THEN person[s]
                       ELSE [person[s] EXCEPT !.no = no[s], !.values =
                           [f \in Fields |-> IF patch[s][f] # NoUser THEN patch[s][f]
                               ELSE @[f]]]]
        IN  /\ \A s \in T :
                   Personnel!Valid(Personnel!Merged(person[s], patch[s]), person[s].type)
            /\ \A s \in T, t \in hired : Personnel!Differ(new, {s, t})
            /\ Personnel!Planned(r, "grid", T, new, NoUser)
  BY DEF Personnel!LoadGrid
<1>2. PICK no \in [T -> Numbers], patch \in [T -> Personnel!AnyValues] :
        LET new == [s \in Personnel!Persons |-> IF s \notin T THEN person[s]
                       ELSE [person[s] EXCEPT !.no = no[s], !.values =
                           [f \in Fields |-> IF patch[s][f] # NoUser THEN patch[s][f]
                               ELSE @[f]]]]
        IN  /\ \A s \in T :
                   Personnel!Valid(Personnel!Merged(person[s], patch[s]), person[s].type)
            /\ \A s \in T, t \in hired : Personnel!Differ(new, {s, t})
            /\ Personnel!Planned(r, "grid", T, new, NoUser)
  BY <1>1
<1> DEFINE new == [s \in Personnel!Persons |-> IF s \notin T THEN person[s]
                       ELSE [person[s] EXCEPT !.no = no[s], !.values =
                           [f \in Fields |-> IF patch[s][f] # NoUser THEN patch[s][f]
                               ELSE @[f]]]]
<1>3. /\ \A s \in T : Personnel!Valid(Personnel!Merged(person[s], patch[s]), person[s].type)
      /\ \A s \in T, t \in hired : Personnel!Differ(new, {s, t})
      /\ Personnel!Planned(r, "grid", T, new, NoUser)
  BY <1>2
<1>4. ASSUME NEW s \in T
      PROVE  /\ new[s] \in Personnel!Person /\ new[s].type = person[s].type
             /\ \A f \in Fields : new[s].values[f] # NoUser =>
                    \/ Kind[f] = person[s].type
                    \/ new[s].values[f] = person[s].values[f]
  <2> DEFINE p == person[s]
             v == [f \in Fields |-> IF patch[s][f] # NoUser THEN patch[s][f]
                 ELSE p.values[f]]
  <2>1. new[s] = [p EXCEPT !.no = no[s], !.values = v]
    BY DEF Personnel!TypeOK
  <2>2. p \in Personnel!Person /\ no[s] \in Numbers /\ patch[s] \in Personnel!AnyValues
      /\ p.values \in Personnel!AnyValues
    BY PersonFields DEF Personnel!TypeOK, Personnel!AnyValues
  <2>3. v \in Personnel!AnyValues
    BY <2>2 DEF Personnel!AnyValues
  <2>4. ASSUME NEW f \in Fields, patch[s][f] # NoUser PROVE Kind[f] = p.type
    <3>1. Personnel!Merged(p, patch[s])[f] = patch[s][f]
      BY <2>4 DEF Personnel!Merged
    <3> QED
      BY <1>3, <2>4, <3>1 DEF Personnel!Valid
  <2>5. \A f \in Fields : v[f] = IF patch[s][f] # NoUser THEN patch[s][f] ELSE p.values[f]
    OBVIOUS
  <2> HIDE DEF new, p, v
  <2>6. new[s] \in Personnel!Person /\ new[s].type = p.type /\ new[s].values = v
    BY <2>1, <2>2, <2>3 DEF Personnel!Person, Personnel!AnyValues
  <2> QED
    BY <2>4, <2>5, <2>6 DEF p
<1>5. \A s \in hired \ T : new[s] = person[s]
  BY DEF Personnel!TypeOK
<1> HIDE DEF new
<1> DEFINE o == Planted(T, new)
<1>6. \A s \in hired : o[s] = new[s]
  BY <1>5 DEF Planted, Personnel!TypeOK
<1> HIDE DEF o
<1>7. hired \cup T = hired
  OBVIOUS
<1>8. ASSUME Personnel!Differ(person, hired) PROVE Personnel!Differ(o, hired)
  <2> SUFFICES ASSUME NEW s \in hired, NEW t \in hired, s # t
               PROVE  Fold[o[s].no] # Fold[o[t].no]
    BY DEF Personnel!Differ
  <2>1. CASE s \in T
    BY <1>3, <1>6, <2>1 DEF Personnel!Differ
  <2>2. CASE t \in T
    BY <1>3, <1>6, <2>2 DEF Personnel!Differ
  <2>3. CASE s \notin T /\ t \notin T
    BY <1>5, <1>6, <1>8, <2>3 DEF Personnel!Differ
  <2> QED
    BY <2>1, <2>2, <2>3
<1>9. ASSUME Personnel!Fit PROVE Follows(o, hired)
  <2> SUFFICES ASSUME NEW s \in hired, NEW f \in Fields, o[s].values[f] # NoUser
               PROVE  Kind[f] = o[s].type
    BY DEF Follows
  <2>1. CASE s \in T
    BY <1>4, <1>6, <1>9, <2>1 DEF Personnel!Fit
  <2>2. CASE s \notin T
    BY <1>5, <1>6, <1>9, <2>2 DEF Personnel!Fit
  <2> QED
    BY <2>1, <2>2
<1>10. KeepsRules(T, new)
  BY <1>7, <1>8, <1>9 DEF KeepsRules, o
<1>11. T \in SUBSET Personnel!Persons
  BY DEF Personnel!TypeOK
<1> QED
  BY <1>3, <1>4, <1>10, <1>11 DEF PersonnelPlans, Personnel!Ops

\* A transition of a member of staff gives a member of staff with the same number.
LEMMA TransitionPerson ==
    ASSUME NEW p \in Personnel!Person, NEW target \in Personnel!Statuses,
        NEW actor \in Managers
    PROVE  /\ Personnel!Transition(p, target, actor) \in Personnel!Person
           /\ Personnel!Transition(p, target, actor).no = p.no
           /\ Personnel!Transition(p, target, actor).type = p.type
           /\ Personnel!Transition(p, target, actor).values = p.values
BY DEF Personnel!Transition, Personnel!Person

\* So does a print.
LEMMA PrintedPerson ==
    ASSUME NEW p \in Personnel!Person
    PROVE  /\ Personnel!Printed(p) \in Personnel!Person
           /\ Personnel!Printed(p).no = p.no /\ Personnel!Printed(p).type = p.type
           /\ Personnel!Printed(p).values = p.values
BY DEF Personnel!Printed, Personnel!Person

\* Decisions, prints and deactivations.
LEMMA OtherPlans ==
    ASSUME Personnel!TypeOK, NEW r \in Requests,
           \/ Personnel!LoadVerification(r) \/ Personnel!LoadBatchVerify(r)
                  \/ Personnel!LoadPrint(r) \/ Personnel!LoadBatchPrint(r)
           \/ Personnel!LoadDelete(r)
    PROVE  PersonnelPlans(r)
<1>0. \A s \in hired : person[s] \in Personnel!Person /\ s \in Personnel!Persons
  BY DEF Personnel!TypeOK
<1>1. CASE Personnel!LoadVerification(r)
  <2>1. PICK s \in Personnel!Persons, u \in Managers, target \in Personnel!Statuses :
          /\ s \in hired
          /\ Personnel!Planned(r, "verification", {s},
                 [t \in {s} |-> Personnel!Transition(person[s], target, u)], NoUser)
    BY <1>1 DEF Personnel!LoadVerification, Personnel!Active
  <2> DEFINE new == [t \in {s} |-> Personnel!Transition(person[s], target, u)]
  <2>2. /\ new[s] \in Personnel!Person
        /\ new[s].no = person[s].no /\ new[s].type = person[s].type
        /\ new[s].values = person[s].values
    BY <1>0, <2>1, TransitionPerson
  <2> HIDE DEF new
  <2>3. KeepsRules({s}, new)
    BY <2>1, <2>2, SameNumbers
  <2>4. Personnel!Planned(r, "verification", {s}, new, NoUser)
    BY <2>1 DEF new
  <2> QED
    BY <2>1, <2>2, <2>3, <2>4 DEF PersonnelPlans, Personnel!Ops
<1>2. CASE Personnel!LoadBatchVerify(r)
  <2>1. PICK T \in SUBSET Personnel!Persons, u \in Managers :
          /\ T \subseteq hired
          /\ Personnel!Planned(r, "verification", T,
                 [s \in T |-> Personnel!Transition(person[s], "verified", u)], NoUser)
    BY <1>2 DEF Personnel!LoadBatchVerify, Personnel!Active
  <2> DEFINE new == [s \in T |-> Personnel!Transition(person[s], "verified", u)]
  <2>2. \A s \in T :
        /\ new[s] \in Personnel!Person
        /\ new[s].no = person[s].no /\ new[s].type = person[s].type
        /\ new[s].values = person[s].values
    BY <1>0, <2>1, TransitionPerson DEF Personnel!Statuses
  <2> HIDE DEF new
  <2>3. KeepsRules(T, new)
    BY <2>1, <2>2, SameNumbers
  <2>4. Personnel!Planned(r, "verification", T, new, NoUser)
    BY <2>1 DEF new
  <2> QED
    BY <2>1, <2>2, <2>3, <2>4 DEF PersonnelPlans, Personnel!Ops
<1>3. CASE Personnel!LoadPrint(r)
  <2>1. PICK s \in Personnel!Persons :
          /\ s \in hired
          /\ Personnel!Planned(r, "print", {s},
                 [t \in {s} |-> Personnel!Printed(person[s])], NoUser)
    BY <1>3 DEF Personnel!LoadPrint, Personnel!Active
  <2> DEFINE new == [t \in {s} |-> Personnel!Printed(person[s])]
  <2>2. /\ new[s] \in Personnel!Person
        /\ new[s].no = person[s].no /\ new[s].type = person[s].type
        /\ new[s].values = person[s].values
    BY <1>0, <2>1, PrintedPerson
  <2> HIDE DEF new
  <2>3. KeepsRules({s}, new)
    BY <2>1, <2>2, SameNumbers
  <2>4. Personnel!Planned(r, "print", {s}, new, NoUser)
    BY <2>1 DEF new
  <2> QED
    BY <2>1, <2>2, <2>3, <2>4 DEF PersonnelPlans, Personnel!Ops
<1>4. CASE Personnel!LoadBatchPrint(r)
  <2>1. PICK T \in SUBSET Personnel!Persons :
          /\ T \subseteq hired
          /\ Personnel!Planned(r, "print", T, [s \in T |-> Personnel!Printed(person[s])],
                 NoUser)
    BY <1>4 DEF Personnel!LoadBatchPrint, Personnel!Active
  <2> DEFINE new == [s \in T |-> Personnel!Printed(person[s])]
  <2>2. \A s \in T :
        /\ new[s] \in Personnel!Person
        /\ new[s].no = person[s].no /\ new[s].type = person[s].type
        /\ new[s].values = person[s].values
    BY <1>0, <2>1, PrintedPerson
  <2> HIDE DEF new
  <2>3. KeepsRules(T, new)
    BY <2>1, <2>2, SameNumbers
  <2>4. Personnel!Planned(r, "print", T, new, NoUser)
    BY <2>1 DEF new
  <2> QED
    BY <2>1, <2>2, <2>3, <2>4 DEF PersonnelPlans, Personnel!Ops
<1>5. CASE Personnel!LoadDelete(r)
  <2>1. PICK s \in Personnel!Persons :
          /\ s \in hired
          /\ Personnel!Planned(r, "delete", {s},
                 [t \in {s} |-> [person[s] EXCEPT !.active = FALSE]], NoUser)
    BY <1>5 DEF Personnel!LoadDelete, Personnel!Active
  <2> DEFINE new == [t \in {s} |-> [person[s] EXCEPT !.active = FALSE]]
  <2>2. /\ new[s] \in Personnel!Person
        /\ new[s].no = person[s].no /\ new[s].type = person[s].type
        /\ new[s].values = person[s].values
    BY <1>0, <2>1 DEF Personnel!Person
  <2> HIDE DEF new
  <2>3. KeepsRules({s}, new)
    BY <2>1, <2>2, SameNumbers
  <2>4. Personnel!Planned(r, "delete", {s}, new, NoUser)
    BY <2>1 DEF new
  <2> QED
    BY <2>1, <2>2, <2>3, <2>4 DEF PersonnelPlans, Personnel!Ops
<1> QED
  BY <1>1, <1>2, <1>3, <1>4, <1>5

\* A sheet has numbers that differ, from those of the school too, and one set of values.
LEMMA ImportPlans == ASSUME Personnel!TypeOK, NEW r \in Requests, Personnel!LoadImport(r)
    PROVE PersonnelPlans(r)
<1>1. PICK u \in Uploads, values \in Personnel!AnyValues, T \in SUBSET Personnel!Persons :
        /\ Personnel!Importable(u, values)
        /\ \E no \in [T -> Sheet[u].numbers] :
            /\ {no[s] : s \in T} = Sheet[u].numbers /\ \A s, t \in T : s # t =>
                   no[s] # no[t]
            /\ Personnel!Planned(r, "import", T,
                   [s \in T |-> Personnel!Created(Sheet[u].type, no[s], values)], u)
  BY DEF Personnel!LoadImport
<1>2. PICK no \in [T -> Sheet[u].numbers] :
        /\ {no[s] : s \in T} = Sheet[u].numbers /\ \A s, t \in T : s # t => no[s] # no[t]
        /\ Personnel!Planned(r, "import", T,
               [s \in T |-> Personnel!Created(Sheet[u].type, no[s], values)], u)
  BY <1>1
<1>3. Sheet[u].numbers \subseteq Numbers /\ Sheet[u].type \in Personnel!Types
  BY PersonnelAssumed DEF Personnel!PersonnelAssumption
<1> DEFINE new == [s \in T |-> Personnel!Created(Sheet[u].type, no[s], values)]
<1>4. \A s \in T : /\ new[s] \in Personnel!Person /\ new[s].no = no[s]
    /\ no[s] \in Sheet[u].numbers
                   /\ new[s].type = Sheet[u].type /\ new[s].values = values
  <2> SUFFICES ASSUME NEW s \in T
               PROVE  /\ new[s] \in Personnel!Person /\ new[s].no = no[s]
                      /\ no[s] \in Sheet[u].numbers
                      /\ new[s].type = Sheet[u].type /\ new[s].values = values
    OBVIOUS
  <2>1. no[s] \in Sheet[u].numbers
    OBVIOUS
  <2>2. new[s] = Personnel!Created(Sheet[u].type, no[s], values)
    OBVIOUS
  <2> HIDE DEF new
  <2> QED
    BY <1>3, <2>1, <2>2 DEF Personnel!Created, Personnel!Person, Personnel!Statuses,
        Personnel!AnyValues
<1>5. \A s, t \in T : s # t => Fold[no[s]] # Fold[no[t]]
  <2>1. \A m, n \in Sheet[u].numbers : m # n => Fold[m] # Fold[n]
    BY <1>1 DEF Personnel!Importable
  <2> QED
    BY <1>2, <1>4, <2>1
<1>6. \A s \in T, t \in hired : Fold[person[t].no] # Fold[no[s]]
  BY <1>1, <1>4 DEF Personnel!Importable
<1>7. \A f \in Fields : values[f] # NoUser => Kind[f] = Sheet[u].type
  BY <1>1 DEF Personnel!Importable, Personnel!Valid
<1> DEFINE o == Planted(T, new)
<1>8. /\ \A s \in T : o[s] = new[s]
      /\ \A s \in hired \ T : o[s] = person[s]
  BY DEF Planted, Personnel!TypeOK
<1>9. Personnel!Planned(r, "import", T, new, u)
  BY <1>2
<1> HIDE DEF new, o
<1>10. ASSUME Personnel!Differ(person, hired) PROVE Personnel!Differ(o, hired \cup T)
  <2> SUFFICES ASSUME NEW s \in hired \cup T, NEW t \in hired \cup T, s # t
               PROVE  Fold[o[s].no] # Fold[o[t].no]
    BY DEF Personnel!Differ
  <2>1. CASE s \in T /\ t \in T
    BY <1>4, <1>5, <1>8, <2>1
  <2>2. CASE s \in T /\ t \notin T
    BY <1>4, <1>6, <1>8, <2>2
  <2>3. CASE s \notin T /\ t \in T
    BY <1>4, <1>6, <1>8, <2>3
  <2>4. CASE s \notin T /\ t \notin T
    BY <1>8, <1>10, <2>4 DEF Personnel!Differ
  <2> QED
    BY <2>1, <2>2, <2>3, <2>4
<1>11. ASSUME Personnel!Fit PROVE Follows(o, hired \cup T)
  BY <1>4, <1>7, <1>8, <1>11 DEF Personnel!Fit, Follows
<1>12. KeepsRules(T, new)
  BY <1>10, <1>11 DEF KeepsRules, o
<1> QED
  BY <1>4, <1>9, <1>12 DEF PersonnelPlans, Personnel!Ops

\* Every load keeps the invariant.
LEMMA PersonnelLoadStep ==
    ASSUME PersonnelInv, NEW r \in Requests, Personnel!Load(r)
    PROVE  PersonnelInv'
<1>1. Personnel!TypeOK /\ Personnel!Begin(r)
  BY DEF PersonnelInv, Personnel!Load, Personnel!LoadCreate, Personnel!LoadEdit,
      Personnel!LoadGrid, Personnel!LoadVerification, Personnel!LoadBatchVerify,
         Personnel!LoadPrint, Personnel!LoadBatchPrint, Personnel!LoadDelete,
         Personnel!LoadImport
<1>2. PersonnelPlans(r)
  BY <1>1, CreatePlans, EditPlans, GridPlans, OtherPlans, ImportPlans DEF Personnel!Load
<1>3. done' \in 0 .. MaxWork /\ UNCHANGED <<person, hired, noted, field, upload>>
  BY <1>1, PersonnelAssumed DEF Personnel!Begin, Personnel!TypeOK,
      Personnel!PersonnelAssumption
<1> QED
  BY <1>2, <1>3, PersonnelPlanStep

-----------------------------------------------------------------------------
\* A new school has at most one teacher, and nothing pending.
LEMMA InitPersonnel == Personnel!Init => PersonnelInv
<1> SUFFICES ASSUME Personnel!Init PROVE PersonnelInv
  OBVIOUS
<1>1. PICK no \in Numbers, values \in Personnel!AnyValues :
        /\ Personnel!Valid(values, "teacher")
        /\ person = [s \in Personnel!Persons |-> Personnel!Created("teacher", no, values)]
  BY DEF Personnel!Init
<1>2. Personnel!Created("teacher", no, values) \in Personnel!Person
  BY DEF Personnel!Created, Personnel!Person, Personnel!Types, Personnel!Statuses,
      Personnel!AnyValues
<1>3. hired \subseteq {1} /\ hired \subseteq Personnel!Persons
  <2>1. hired \subseteq {1} /\ 1 \in Personnel!Persons
    BY CountNat DEF Personnel!Init, Personnel!Persons
  <2> QED
    BY <2>1
<1>4. Personnel!TypeOK
  <2>1. person \in [Personnel!Persons -> Personnel!Person]
    BY <1>1, <1>2
  <2>2. field \in [Fields -> Personnel!Definition \cup {NoUser}]
    <3>1. [active |-> TRUE, required |-> FALSE] \in Personnel!Definition
      BY DEF Personnel!Definition
    <3> QED
      BY <3>1 DEF Personnel!Init
  <2>3. done \in 0 .. MaxWork
    BY PersonnelAssumed DEF Personnel!Init, Personnel!PersonnelAssumption
  <2> QED
    BY <1>3, <2>1, <2>2, <2>3 DEF Personnel!Init, Personnel!TypeOK
<1>5. HistoryInv
  <2> SUFFICES ASSUME NEW s \in hired, NEW c \in Personnel!Audited
               PROVE  Honest(noted[s][c], person[s][c])
    BY DEF HistoryInv
  <2>1. noted[s][c] = Personnel!Told(person[s][c], 0)
    BY <1>3 DEF Personnel!Init
  <2> QED
    BY <2>1, ToldHonest
<1>6. Personnel!Distinct(person, hired)
  BY <1>3 DEF Personnel!Distinct
<1>7. PersonnelPlanInv
  BY DEF Personnel!Init, PersonnelPlanInv, Personnel!Pending
<1> QED
  BY <1>4, <1>5, <1>6, <1>7 DEF PersonnelInv

\* Every step of the personnel handlers keeps the invariant.
LEMMA NextPersonnel == PersonnelInv /\ [Personnel!Next]_personnelVars => PersonnelInv'
<1> SUFFICES ASSUME PersonnelInv, [Personnel!Next]_personnelVars PROVE PersonnelInv'
  OBVIOUS
<1>1. CASE UNCHANGED Personnel!vars
  BY <1>1, UploadStep DEF Personnel!vars, PersonnelInv, Personnel!TypeOK
<1>2. ASSUME NEW r \in Requests, Personnel!Load(r) \/ Personnel!Commit(r)
    \/ Personnel!Conflict(r) \/ Personnel!Abort(r) \/ Personnel!Discard(r)
      PROVE  PersonnelInv'
  <2>1. upload \in [Uploads -> {"none", "stored", "gone"}]
    BY DEF PersonnelInv, Personnel!TypeOK
  <2>2. CASE Personnel!Conflict(r) \/ Personnel!Abort(r)
    BY <2>1, <2>2, EndStep DEF Personnel!Conflict, Personnel!Abort
  <2>3. CASE Personnel!Discard(r)
    <3>1. upload' \in [Uploads -> {"none", "stored", "gone"}]
      BY <2>1, <2>3 DEF Personnel!Discard
    <3> QED
      BY <2>3, <3>1, EndStep DEF Personnel!Discard
  <2> QED
    BY <1>2, <2>2, <2>3, PersonnelLoadStep, PersonnelCommitStep
<1>3. ASSUME NEW f \in Fields, Personnel!CreateField(f) \/ Personnel!UpdateField(f)
      PROVE  PersonnelInv'
  <2>1. PICK d \in Personnel!Definition : field' = [field EXCEPT ![f] = d]
    BY <1>3 DEF Personnel!CreateField, Personnel!UpdateField, Personnel!Definition
  <2>2. field' \in [Fields -> Personnel!Definition \cup {NoUser}]
    BY <2>1 DEF PersonnelInv, Personnel!TypeOK
  <2>3. done' \in 0 .. MaxWork
    BY <1>3, PersonnelAssumed DEF Personnel!CreateField, Personnel!UpdateField,
        PersonnelInv, Personnel!TypeOK, Personnel!PersonnelAssumption
  <2>4. /\ UNCHANGED <<person, hired, noted, upload>>
        /\ order' = [r \in Requests |-> IF order[r] = NoUser THEN NoUser
               ELSE [order[r] EXCEPT !.fresh = FALSE]]
    BY <1>3 DEF Personnel!CreateField, Personnel!UpdateField
  <2> QED
    BY <2>2, <2>3, <2>4, StaleStep
<1>4. ASSUME NEW u \in Uploads, Personnel!Upload(u) \/ Personnel!Expire(u)
      PROVE  PersonnelInv'
  <2>1. upload' \in [Uploads -> {"none", "stored", "gone"}]
    BY <1>4 DEF Personnel!Upload, Personnel!Expire, PersonnelInv, Personnel!TypeOK
  <2>2. done' \in 0 .. MaxWork
    BY <1>4, PersonnelAssumed DEF Personnel!Upload, Personnel!Expire, PersonnelInv,
        Personnel!TypeOK, Personnel!PersonnelAssumption
  <2> QED
    BY <1>4, <2>1, <2>2, UploadStep DEF Personnel!Upload, Personnel!Expire
<1> QED
  BY <1>1, <1>2, <1>3, <1>4 DEF Personnel!Next, personnelVars, Personnel!vars

\* A step that writes a table is a commit.
LEMMA WhoCommits ==
    ASSUME PersonnelInv, [Personnel!Next]_personnelVars, Personnel!AllFresh
    PROVE  \/ UNCHANGED <<person, hired>>
           \/ \E r \in Requests : Personnel!Commit(r) /\ order[r].fresh
<1> SUFFICES ASSUME NEW r \in Requests, Personnel!Commit(r), ~UNCHANGED <<person, hired>>
             PROVE  order[r].fresh
  BY DEF Personnel!Next, Personnel!vars, personnelVars, Personnel!Load,
      Personnel!LoadCreate, Personnel!LoadEdit, Personnel!LoadGrid,
      Personnel!LoadVerification, Personnel!LoadBatchVerify,
         Personnel!LoadPrint, Personnel!LoadBatchPrint, Personnel!LoadDelete,
         Personnel!LoadImport, Personnel!Begin, Personnel!Conflict, Personnel!Abort,
         Personnel!Discard,
         Personnel!CreateField, Personnel!UpdateField, Personnel!Upload, Personnel!Expire
<1>1. Personnel!Pending(r)
  BY DEF Personnel!Commit
<1>2. order'[r] # order[r]
  <2>1. order'[r] = IF order[r].op = "import" THEN [order[r] EXCEPT !.op = "discard"]
      ELSE NoUser
    BY DEF Personnel!Commit
  <2>2. order[r] \in Personnel!Request(order[r].targets) /\ order[r] # NoUser
    BY <1>1, RequestParts DEF Personnel!Pending, PersonnelInv
  <2>3. [order[r] EXCEPT !.op = "discard"].op = "discard"
    BY <2>2 DEF Personnel!Request
  <2> QED
    BY <1>1, <2>1, <2>2, <2>3 DEF Personnel!Pending
<1>3. Personnel!Commits(r)
  BY <1>1, <1>2 DEF Personnel!Commits
<1> QED
  BY <1>3 DEF Personnel!AllFresh

\* A step whose commit saw the tables as they are breaks neither rule.
LEMMA FreshSteps ==
    ASSUME PersonnelInv, [Personnel!Next]_personnelVars, Personnel!AllFresh
    PROVE  (Personnel!Differ(person, hired) => Personnel!Differ(person', hired'))
        /\ (Personnel!Fit => Personnel!Fit')
<1>1. CASE UNCHANGED <<person, hired>>
  BY <1>1 DEF Personnel!Differ, Personnel!Fit
<1>2. CASE \E r \in Requests : Personnel!Commit(r) /\ order[r].fresh
  BY <1>2, FreshCommit
<1> QED
  BY <1>1, <1>2, WhoCommits

-----------------------------------------------------------------------------
\* A step of students and personnel is one of personnel or changes nothing there.
LEMMA RecordsStep ==
    [RecordsNext]_<<vars, personnelVars>> => [Personnel!Next]_personnelVars
BY DEF RecordsNext, personnelVars

\* The invariant holds throughout.
LEMMA PersonnelInvariance == RecordsSpec => []PersonnelInv
<1>1. Init /\ Personnel!Init => PersonnelInv
  BY InitPersonnel
<1>2. PersonnelInv /\ [RecordsNext]_<<vars, personnelVars>> => PersonnelInv'
  BY RecordsStep, NextPersonnel
<1> QED
  BY <1>1, <1>2, PTL DEF RecordsSpec

\* Of personnel too the event inserted last states the row's value, whatever
\* overlaps, and is shown first unless its transaction was overtaken: README.md:161.
THEOREM PersonnelHistory == RecordsSpec => []HistoryTellsTheRow
<1>1. PersonnelInv => HistoryTellsTheRow
  BY DEF PersonnelInv, HistoryInv, Honest, HistoryTellsTheRow, Personnel!HistoryTellsTheRow,
      Personnel!Overtaken
<1> QED
  BY <1>1, PersonnelInvariance, PTL

\* No sequence of definitions, deactivations, values and changes of type leaves a
\* person with values of another type (personnel.py:396), as long as nothing is
\* committed between a load and its commit.
THEOREM FieldsStayWithTheirType == RecordsSpec => FieldsFollowType
<1>1. PersonnelInv /\ [RecordsNext]_<<vars, personnelVars>> =>
        [Personnel!Fit /\ Personnel!AllFresh => Personnel!Fit']_personnelVars
  BY RecordsStep, FreshSteps
<1>2. FieldsFollowType <=> [][Personnel!Fit /\ Personnel!AllFresh => Personnel!Fit']_personnelVars
  BY DEF FieldsFollowType, Personnel!FieldsFollowType, Personnel!vars, personnelVars
<1> QED
  BY <1>1, <1>2, PersonnelInvariance, PTL DEF RecordsSpec

\* Employee numbers are distinct whatever overlaps, and differ in more than case
\* as long as nothing is committed between a load and its commit (personnel.py:105).
THEOREM NumbersStayDifferent == RecordsSpec => NumbersDiffer
<1> DEFINE Kept == Personnel!Differ(person, hired) /\ Personnel!AllFresh =>
                       Personnel!Differ(person', hired')
<1>1. PersonnelInv => Personnel!Distinct(person, hired)
  BY DEF PersonnelInv
<1>2. PersonnelInv /\ [RecordsNext]_<<vars, personnelVars>> => [Kept]_personnelVars
  BY RecordsStep, FreshSteps
<1>3. NumbersDiffer <=> []Personnel!Distinct(person, hired) /\ [][Kept]_personnelVars
  BY DEF NumbersDiffer, Personnel!NumbersDiffer, Personnel!vars, personnelVars
<1> QED
  BY <1>1, <1>2, <1>3, PersonnelInvariance, PTL DEF RecordsSpec
=============================================================================
