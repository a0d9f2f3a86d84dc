CONSTANTS
    check = check  c1 = c1  c2 = c2
    Keys = {check}
    Callers = {c1, c2}
    MaxRuns = 2
    Size <- TwoHostsThenOne
SPECIFICATION FairSpec
CHECK_DEADLOCK FALSE
INVARIANTS
    TypeOK
    ListenersConverge
    SettledStateIsTerminal
    SuccessIsReal
PROPERTY
    TrackersEnd
