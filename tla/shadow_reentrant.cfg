SPECIFICATION Spec
CONSTANTS
    MaxAcks = 2
    MaxTopics = 4
    Uses <- Daemons
    MaxReports = 2
    MaxDeltas = 1
    Reentrant = TRUE
INVARIANTS NoReportForgotten
CHECK_DEADLOCK FALSE
