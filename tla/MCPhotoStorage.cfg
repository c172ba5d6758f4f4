SPECIFICATION MCSpec
CONSTANTS
    Students = {s1, s2}
    Personnel = {e1, e2}
    Imports = {i1}
    Requests = {r1, r2}
    Idle = Idle
    Faults = {"storage", "db", "cleanup", "crash", "edit"}
    MaxObjects = 5
    MaxOverlapping = 3
    MaxWork = 5
SYMMETRY Symmetry
CHECK_DEADLOCK FALSE
INVARIANTS ReferencesHold NothingLeftBehind StagedUntilUsed
PROPERTIES ReplacesWhatWasShown
