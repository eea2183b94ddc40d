SPECIFICATION FairSpec
CONSTANTS
    Types <- FileAndReplay
    MaxDesires = 2
    MaxStarts = 3
    MaxReports = 3
    MaxLosses = 1
    MaxTurns = 3
INVARIANTS TypeOK NoGhostLogger LoggerRemembered ShadowNamesLogger
PROPERTY SyncEnds
CHECK_DEADLOCK FALSE
