CONSTANTS
    check = check  c1 = c1  c2 = c2
    Keys = {check}
    Callers = {c1, c2}
    MaxRuns = 2
    Size <- TwoHostsThenOne
SPECIFICATION Spec
CHECK_DEADLOCK FALSE
INVARIANT UnloadLeavesNothing
