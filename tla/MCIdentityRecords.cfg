SPECIFICATION MCSpec
CONSTANTS
    StudentCount = 2
    Users = {u1, u2}
    Admins = {u1}
    Names = {m1, m2}
    Rolls = {p1}
    Notes = {n1}
    NoUser = NoUser
    NoNote = NoNote
    NoRoll = NoRoll
    Idle = Idle
    Requests = {r1, r2}
    Tokens = {FALSE}
    MaxTime = 2
    MaxWork = 3
    PersonCount = 2
    Managers = {a1}
    Numbers = {"E1", "e1", "E2"}
    Fields = {"teacher_field", "staff_field"}
    Values = {v1}
    Uploads = {"up"}
    Fold <- MCFold
    Kind <- MCKind
    Sheet <- MCSheet
SYMMETRY Symmetry
CHECK_DEADLOCK FALSE
INVARIANTS TypeOK AuditTellsTheRow RefusedWhenPassedDown HistoryTellsTheRow
PROPERTIES EditsKeepLifecycle VerificationCoherent FieldsFollowType NumbersDiffer
