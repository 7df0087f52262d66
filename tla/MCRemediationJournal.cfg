SPECIFICATION Spec
CONSTANTS
    MaxTx = 2
    MaxCrashes = 2
INVARIANTS
    TypeOK
    AttemptedMatchesPhase
    ClassificationSound
    ChainBrokenOnlyByTornAppend
    AuditCurrent
    AuditMovesForward
CHECK_DEADLOCK FALSE
