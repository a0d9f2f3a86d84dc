CONSTANT
    MaxFlows = 2
SPECIFICATION FairSpec
INVARIANTS
    TypeOK
    SinglePoller
    PollerStops
    ListIsPolled
PROPERTIES
    ConnectingEnds
    ConnectingCanRetry
    PageCatchesUp
