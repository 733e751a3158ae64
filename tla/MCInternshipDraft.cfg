SPECIFICATION Spec
CONSTANTS
    Applications = {a1}
    Tasks = {t1}
    Requests = {q1, q2}
    MaxVersion = 3
    MaxProgramme = 3
    Guessing = FALSE
    None = None
SYMMETRY Symmetry
CHECK_DEADLOCK FALSE
INVARIANT DraftHasNoApplications
