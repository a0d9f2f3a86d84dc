CONSTANTS
    w1 = w1  w2 = w2  c1 = c1  c2 = c2  h1 = h1  t1 = t1
    None = None
    Workers = {w1, w2}
    Clients = {c1, c2}
    Hosts = {h1}
    Tasks = {t1}
    Actions = {"check_updates", "custom_task"}
    MaxJobs = 2
    MaxStops = 1
    MaxFaults = 2
SPECIFICATION Spec
SYMMETRY Symmetry
CHECK_DEADLOCK FALSE
INVARIANTS
    TypeOK
    SerializedPerHost
    OneWorkerPerJob
    SuccessHasStatus
    NoJobLost
    OncePerLife
    OutcomeJustified
    NoLockLeaked
PROPERTIES
    TerminalIsFinal
    ImplementsLifecycle
