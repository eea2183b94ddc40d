SPECIFICATION FairSpec
CONSTANTS
    s1 = s1  s2 = s2
    Slots <- TwoSlots
    MaxSignals = 3
    MaxDeltas = 1
    MaxFaults = 2
INVARIANTS TypeOK DestroyedAfterThread 
PROPERTIES ClosingSticks StopEnds
CHECK_DEADLOCK FALSE
