SPECIFICATION Spec
CONSTANTS
    Sessions = {s1, s2}
    Consultants = {k1, k2}
    Assessments = {a1, a2}
    Windows <- Coverage
    MaxScopes = 2
    MaxClock = 0
    None = None
SYMMETRY Symmetry
INVARIANTS
    TypeOK
    CompletedMeansDone
    ActiveAssignmentAgrees
    ScopeVersionsAreALine
PROPERTIES
    ReassignmentIsObserved
    ClosedIsFrozen
    TechnicalWorkIsAuthorised
