------------------------------ MODULE Enrolment ------------------------------
(***************************************************************************)
(* What students are enrolled into and by: the academic structure of a     *)
(* school (AcademicStructure) and its bulk imports with the fields and     *)
(* numbers they go by (StudentImports).  The decisions of the one read no  *)
(* table the other writes: the section of an imported student is looked up *)
(* as for any other (LoadPlace).                                           *)
(***************************************************************************)
EXTENDS AcademicStructure

CONSTANTS StudentCount, Numbers, Builtins, Customs, Uploads, Sheet, Columns,
    MaxImports      \* bound: requests to the numbers ever begun

VARIABLES
    student, builtin, custom, format, upload, from,
    intake, done    \* the requests to imports, fields and numbers

importVars == <<student, builtin, custom, format, upload, intake, done, from>>

Imports == INSTANCE StudentImports WITH req <- intake, work <- done, MaxWork <- MaxImports

ASSUME ImportsAssumed == Imports!ImportsAssumption

EnrolmentNext ==
    \/ Next /\ UNCHANGED importVars
    \/ Imports!Next /\ UNCHANGED vars

EnrolmentSpec == Init /\ Imports!Init /\ [][EnrolmentNext]_<<vars, importVars>>

\* No sheet is inserted twice without a change of number in between.
ImportedOnce == Imports!ImportedOnce
\* An import is refused only because of what was committed since it was validated.
RefusedOnlyWhenOvertaken == Imports!RefusedOnlyWhenOvertaken
=============================================================================
