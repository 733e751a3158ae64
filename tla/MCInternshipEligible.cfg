SPECIFICATION Spec
CONSTANTS
    Applications = {a1}
    Tasks = {t1, t2}
    Requests = {q1, q2}
    MaxVersion = 4
    MaxProgramme = 4
    Guessing = FALSE
    None = None
SYMMETRY Symmetry
CHECK_DEADLOCK FALSE
INVARIANT EligibleMeansAllApproved
