SPECIFICATION FairSpec
CONSTANTS
    Sessions = {s1, s2}
    Consultants = {k1}
    Assessments = {a1}
    Windows <- Passing
    MaxScopes = 1
    MaxClock = 1
    None = None
PROPERTY EveryCommandEnds
