SPECIFICATION OwnerSpec
CONSTANTS
    t1 = t1
    o1 = o1
    Timers = {t1}
    Owners = {o1}
    MaxTx = 2
    MaxCrashes = 0
    MaxFaults = 0
    MaxEdits = 0
    MaxCommands = 2
PROPERTIES
    EmergencyStopIsFinal
CHECK_DEADLOCK FALSE
