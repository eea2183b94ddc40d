SPECIFICATION FairSpec
CONSTANTS
    t1 = t1
    t2 = t2
    Topics <- TopicPair
    NumHandlers = 2
    MinWait = 1
    MaxWait = 2
    Losses <- Closed
    MaxLosses = 1
    MaxCalls = 1
    MaxMessages = 0
PROPERTY CloseNoticed
