----------------------------- MODULE MCEnrolment -----------------------------
\* An instance of Enrolment for TLC.  A behaviour works at the sessions, at the
\* classes, or at the admission numbers: no handler touches two of these tables
\* with a decision that spans them.
EXTENDS Enrolment, TLC

VARIABLE at

MCSheet == [u \in Uploads |-> {"n1"}]
MCColumns == [u \in Uploads |-> Builtins]

MCInit ==
    /\ at \in {"sessions", "classes", "numbers"}
    /\ Init
    /\ at # "sessions" => There(term) = {}
    /\ at # "classes" => There(order) = {}
    /\ Imports!Init
    /\ at # "numbers" => student[1] = None

MCNext ==
    \/ at = "sessions" /\ (\E r \in Requests : TermStep(r)) /\ UNCHANGED <<at, importVars>>
    \/ at = "classes" /\ (\E r \in Requests : ClassStep(r)) /\ UNCHANGED <<at, importVars>>
    \/ at = "numbers" /\ Imports!Next /\ UNCHANGED <<at, vars>>

MCSpec == MCInit /\ [][MCNext]_<<at, vars, importVars>>

Symmetry == Permutations(Terms) \cup Permutations(Classes) \cup Permutations(Sections)
            \cup Permutations(Requests)
=============================================================================
