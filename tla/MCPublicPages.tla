--------------------------- MODULE MCPublicPages ---------------------------
\* An instance of PublicPages for TLC.  The four parts share nothing that a handler
\* decides by, so that a behaviour is about one.
EXTENDS PublicPages, TLC

VARIABLE at

MCInit ==
    /\ at \in {"designs", "form", "verification", "limiter"}
    /\ Init
    /\ Forms!Init
    /\ Credentials!Init
    /\ Limiter!Init
    /\ at # "verification" => \A d \in Validity : school.days <= d

MCNext ==
    \/ at = "designs" /\ Next /\ UNCHANGED <<at, formVars, linkVars, limiterVars>>
    \/ at = "form" /\ Forms!Next /\ UNCHANGED <<at, vars, linkVars, limiterVars>>
    \/ at = "verification" /\ Credentials!Next /\ UNCHANGED <<at, vars, formVars, limiterVars>>
    \/ at = "limiter" /\ Limiter!Next /\ UNCHANGED <<at, vars, formVars, linkVars>>

MCSpec == MCInit /\ [][MCNext]_<<at, vars, formVars, linkVars, limiterVars>>

\* The cfg gives one set of model values to several constants: a behaviour is
\* about one of the four, and the group of permutations stays small.
Symmetry == Permutations(Visits) \cup Permutations(Schools) \cup Permutations(Sides)
=============================================================================
