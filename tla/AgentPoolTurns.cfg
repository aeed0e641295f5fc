SPECIFICATION Spec
CONSTANTS
    None = None
    Sessions = {s1}
    Owned = {s1}
    Runs = {r1, r2, r3}
    SessionOf <- OneSession
    MaxConcurrency = 2
    QueueSize = 1
    MaxEvents = 2
SYMMETRY
    Symmetric
INVARIANT
    SessionsAreSound
PROPERTY
    ImplementsTurns
