CONSTANTS
    w1 = w1  w2 = w2  c1 = c1  h1 = h1  t1 = t1
    None = None
    Workers = {w1, w2}
    Clients = {c1}
    Hosts = {h1}
    Tasks = {t1}
    Actions = {"update", "custom_task"}
    MaxJobs = 2
    MaxStops = 1
    MaxFaults = 0
SPECIFICATION FairSpec
CHECK_DEADLOCK FALSE
PROPERTIES
    JobsEnd
