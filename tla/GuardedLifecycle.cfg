SPECIFICATION GuardedSpec
CONSTANT MaxEdits = 2
INVARIANTS
    GuardedTypeOK
    ResolutionAgreesWithUnion
    TerminalMeansStuck
    PublicContentWasReviewed
    HandledOnEvidence
    TechnicalWorkIsCovered
    ConcealedLooksAbsent
    TrailTellsTheDecision
    NobodyDecidesAlone
\* A closed record of an entity without routes has no further operation.
CHECK_DEADLOCK FALSE
