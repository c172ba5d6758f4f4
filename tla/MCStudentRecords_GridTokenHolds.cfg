SPECIFICATION Spec
CONSTANTS
    StudentCount = 1
    Users = {u1, u2, u3}
    Admins = {u1, u2}
    Names = {m1, m2}
    Rolls = {p1}
    Notes = {n1}
    NoUser = NoUser
    NoNote = NoNote
    NoRoll = NoRoll
    Idle = Idle
    Requests = {r1, r2}
    Tokens = {TRUE, FALSE}
    MaxTime = 1
    MaxWork = 3
SYMMETRY Symmetry
CHECK_DEADLOCK FALSE
PROPERTIES GridTokenHolds
