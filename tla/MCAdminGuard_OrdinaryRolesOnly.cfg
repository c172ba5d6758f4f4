SPECIFICATION MCSpec
CONSTANTS
    Users = {1, 2, 3}
    Founders = {1, 3}
    Requests = {p1, p2}
    Patches <- MCPatches
    MaxWork = 1
    Schools = {k1}
    Roles = {"school_admin", "teacher"}
    Members = {2, 3}
    None = None
    MaxCalls = 3
SYMMETRY Symmetry
PROPERTIES
    OrdinaryRolesOnly
CHECK_DEADLOCK FALSE
