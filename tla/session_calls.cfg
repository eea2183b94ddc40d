SPECIFICATION Spec
CONSTANTS
    t1 = t1  t2 = t2  d1 = d1  d2 = d2
    Testers <- OneTester
    Devices <- OneDevice
    MaxCalls = 4
    MaxFaults = 1
    Patient = TRUE
    MaxQueue = 2
    MaxLogs = 1
    IfaceOption = TRUE
INVARIANTS
    TypeOK
    OpenSound
    CloseSound
    
    FilterSound
    OneClientPerDevice
CHECK_DEADLOCK FALSE
