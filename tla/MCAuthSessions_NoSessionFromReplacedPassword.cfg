SPECIFICATION Spec
CONSTANTS
    Users = {u1}
    Sids = {s1, s2}
    Requests = {p1, p2}
    None = None
    SessionTtl = 1
    MaxTime = 1
    MaxWork = 2
INVARIANT
    NoSessionFromReplacedPassword
CHECK_DEADLOCK FALSE
