SPECIFICATION FairSpec
CONSTANTS
    None = None
    Sessions = {s1, s2}
    Owned = {s1}
    Runs = {r1, r2}
    SessionOf <- OneSession
    MaxConcurrency = 1
    QueueSize = 1
    MaxEvents = 2
CONSTRAINT
    Small
INVARIANT
    Accounts
PROPERTIES
    ShutdownDisposesAll
    PoolEnds
