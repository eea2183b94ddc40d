SPECIFICATION Spec
CONSTANTS
    MaxAcks = 2
    MaxTopics = 3
    Uses <- Gets
    MaxReports = 3
    MaxDeltas = 2
    Reentrant = FALSE
INVARIANTS
    TypeOK
    OwnAnswer
    AwaitedIsSubscribed
    DeltaAppliedOnce
    NoReportForgotten
PROPERTIES
    ImplementsReports
CHECK_DEADLOCK FALSE
