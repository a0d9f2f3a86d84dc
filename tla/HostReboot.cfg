CONSTANTS
    NoData = NoData
    Actions = {"check_updates", "update", "reboot"}
    Workers = 2
    MaxJobs = 2
SPECIFICATION FairSpec
CHECK_DEADLOCK FALSE
INVARIANTS
    TypeOK
    UpdateReportsItself
    HintIsBacked
PROPERTIES
    HintFollowsStatus
