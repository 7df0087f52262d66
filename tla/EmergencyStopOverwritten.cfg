SPECIFICATION OwnerSpec
CONSTANTS
    t1 = t1
    o1 = o1
    Timers = {t1}
    Owners = {o1}
    MaxTx = 1
    MaxCrashes = 0
    MaxFaults = 0
    MaxEdits = 0
    MaxCommands = 1
PROPERTIES
    EmergencyStopStays
CHECK_DEADLOCK FALSE
