SPECIFICATION Spec
CONSTANTS
    t1 = t1
    t2 = t2
    Timers = {t1}
    Owners = {}
    MaxTx = 1
    MaxCrashes = 0
    MaxFaults = 2
    MaxEdits = 1
PROPERTIES
    FailedRollbackRecorded
