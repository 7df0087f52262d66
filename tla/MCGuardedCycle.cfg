SPECIFICATION FairSpec
CONSTANTS
    t1 = t1
    t2 = t2
    Timers = {t1}
    Owners = {}
    MaxTx = 2
    MaxCrashes = 1
    MaxFaults = 2
    MaxEdits = 1
INVARIANTS
    TypeOK
    JournalCoversRule
    LiveRuleHasBeforeImage
    UncertainHasArtifact
    CleanBeforeDeciding
    ActiveActionIsBacked
    LiveRuleIsTracked
PROPERTIES
    ForeignEditsKept
    OnlyDeclaredEdges
    ImplementsTwoPhase
    FailedTransactionIsFinal
    RuleExpires
    TransactionResolves
