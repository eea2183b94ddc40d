SPECIFICATION FairSpec
CONSTANTS
    t1 = t1  t2 = t2  d1 = d1  d2 = d2
    Testers <- OneTester
    Devices <- OneDevice
    MaxCalls = 3
    MaxFaults = 0
    Patient = FALSE
    MaxQueue = 2
    MaxLogs = 0
    IfaceOption = FALSE
PROPERTIES ExchangeSettles
CHECK_DEADLOCK FALSE
