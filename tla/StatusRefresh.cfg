CONSTANTS
    Runs = {r1, r2}
    Coordinators = 2
SPECIFICATION FairSpec
CHECK_DEADLOCK FALSE
INVARIANT
    OnlyDroppedIsStale

    
