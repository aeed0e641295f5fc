SPECIFICATION HostSpec
CONSTANTS
    a1 = a1
    a2 = a2
    p1 = p1
    p2 = p2
    o1 = o1
    o2 = o2
    o3 = o3
    None = None
    Stop = Stop
    Hosts = {p1, p2}
    Readers = {o1, o2, o3}
    HostOf <- OwnHost
    PoolSize = 1
    Latest = 2
    Known <- ReleaseOf
    MaxCrashes = 2
    Requests = {a1, a2}
    MaxFailures = 0
    Chosen = {"approvals"}
INVARIANT
    DecisionStands
CHECK_DEADLOCK FALSE
