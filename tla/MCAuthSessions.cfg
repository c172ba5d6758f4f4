SPECIFICATION Spec
CONSTANTS
    Users = {u1}
    Sids = {s1, s2}
    Requests = {p1, p2, p3}
    None = None
    SessionTtl = 1
    MaxTime = 1
    MaxWork = 3
SYMMETRY Symmetry
INVARIANTS
    TypeOK
    NoSessionSurvivesActivationChange
    AtMostOneSurvivor
    ResetRevokesAll
PROPERTIES
    NoResurrection
CHECK_DEADLOCK FALSE
