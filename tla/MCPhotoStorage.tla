--------------------------- MODULE MCPhotoStorage ---------------------------
\* PhotoStorage for TLC.  Behaviours that are not serial, which have every failure,
\* are about one student and one of the staff.
EXTENDS PhotoStorage, TLC

CONSTANT MaxOverlapping     \* bound: objects ever put where requests overlap
VARIABLE few                \* the people whom those behaviours are about

OfTheFew ==
    /\ fresh' <= MaxOverlapping
    /\ \A r \in Requests : req'[r] # Idle => req'[r].who \cup req'[r].todo \subseteq few
    /\ \A m \in Imports : manifest'[m].files \subseteq few
    /\ \A p \in People \ few : path'[p] = None

MCInit ==
    /\ Init
    /\ IF serial THEN few = People ELSE \E s \in Students, e \in Personnel : few = {s, e}
MCNext == Next /\ (serial \/ OfTheFew) /\ UNCHANGED few
MCSpec == MCInit /\ [][MCNext]_<<vars, few>>

Symmetry == Permutations(Requests) \cup Permutations(Students) \cup Permutations(Personnel)
=============================================================================
