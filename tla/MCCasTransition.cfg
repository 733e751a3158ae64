SPECIFICATION Spec
CONSTANTS
    Rows = {r1}
    Clients = {c1, c2}
    Statuses = {"DRAFT", "PUBLISHED", "ARCHIVED"}
    InitialStatus = "DRAFT"
    Transitions <- ResourceTransitions
    MaxVersion = 3
    Guessing = FALSE
SYMMETRY ClientSymmetry
INVARIANTS
    TypeOK
    OneWinnerPerVersion
    AuditChain
    ConflictHasACause
    LostForGood
PROPERTY DecidedAtOneInstant
