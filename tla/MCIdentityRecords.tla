------------------------- MODULE MCIdentityRecords -------------------------
\* An instance for TLC.  A behaviour works at one of the two tables.
EXTENDS IdentityRecords, TLC

VARIABLE at

\* E1 and e1 are the same number in another case; the sheet has staff.
MCFold == "E1" :> "E1" @@ "e1" :> "E1" @@ "E2" :> "E2"
MCKind == "teacher_field" :> "teacher" @@ "staff_field" :> "staff"
MCSheet == "up" :> [type |-> "staff", numbers |-> {"e1"}]

\* The field of teachers is defined, that of staff may be in a school that has
\* no personnel yet; the first person, if there is one, has E1.
MCInit ==
    /\ at \in {"students", "personnel"}
    /\ Init
    /\ enrolled # {2}
    /\ at = "personnel" => enrolled = {}
    /\ Personnel!Init
    /\ at = "students" => hired = {}
    /\ field["teacher_field"] # NoUser
    /\ field["staff_field"] # NoUser => at = "personnel" /\ hired = {}
    /\ person[1].no = "E1"
    /\ hired = {} => person[1].values = Personnel!NoValues

MCNext ==
    \/ at = "students" /\ Next /\ UNCHANGED <<at, personnelVars>>
    \/ at = "personnel" /\ Personnel!Next /\ UNCHANGED <<at, vars>>

MCSpec == MCInit /\ [][MCNext]_<<at, vars, personnelVars>>

Symmetry == Permutations(Admins) \cup Permutations(Names) \cup Permutations(Rolls)
            \cup Permutations(Requests)
=============================================================================
