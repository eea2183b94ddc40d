SPECIFICATION Spec
CONSTANTS
    s1 = s1  s2 = s2
    Slots <- TwoSlots
    MaxSignals = 0
    MaxDeltas = 0
    MaxFaults = 1
INVARIANTS SurvivesReconnect
CHECK_DEADLOCK FALSE
