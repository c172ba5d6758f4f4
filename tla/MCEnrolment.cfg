SPECIFICATION MCSpec
CONSTANTS
    Terms = {t1, t2}
    Dates = {1, 2}
    Classes = {c1, c2}
    Sections = {x1, x2, x3}
    Students = {s1}
    None = None
    Requests = {r1, r2}
    MaxWork = 3
    StudentCount = 3
    Numbers = {"n1", "n2"}
    Builtins = {"roll"}
    Customs = {"house"}
    Sheet <- MCSheet
    Columns <- MCColumns
    MaxImports = 4
    Uploads = {"sheet"}
SYMMETRY Symmetry
CHECK_DEADLOCK FALSE
INVARIANTS OrderIsTheOneSent ImportedOnce RefusedOnlyWhenOvertaken
PROPERTIES PlacesAreAsked TermsCoherent
