SPECIFICATION Spec
CONSTANTS
    Users = {u1}
    Sids = {s1, s2, s3}
    Challenges = {c1, c2, c3}
    Devices = {d1}
    Codes = {k1, k2}
    Requests = {p1, p2}
    None = None
    ChallengeTtl = 1
    DeviceTtl = 1
    MaxTime = 1
    MaxWork = 4
SYMMETRY Symmetry
INVARIANTS
    TypeOK
    CredentialsSingleUse
    NoDeviceSurvivesRevocation
PROPERTIES
    FactorInForceAtCommit
CHECK_DEADLOCK FALSE
