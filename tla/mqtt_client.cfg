SPECIFICATION FairSpec
CONSTANTS
    t1 = t1
    t2 = t2
    Topics <- TopicPair
    NumHandlers = 2
    MinWait = 1
    MaxWait = 2
    Losses <- AnyLoss
    MaxLosses = 1
    MaxCalls = 3
    MaxMessages = 1
INVARIANTS TypeOK StateFitsCalls HandlersSubscribed HandlerKept
PROPERTIES LossNoticed ReconnectEnds
