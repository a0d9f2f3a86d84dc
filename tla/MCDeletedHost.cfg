CONSTANTS
    w1 = w1  w2 = w2  c1 = c1  h1 = h1
    None = None
    Workers = {w1, w2}
    Clients = {c1}
    Hosts = {h1}
    Tasks = {}
    Actions = {"update", "reboot"}
    MaxJobs = 2
    MaxStops = 0
    MaxFaults = 0
SPECIFICATION Spec
CHECK_DEADLOCK FALSE
INVARIANT DeletedHostFails
