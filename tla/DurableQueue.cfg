SPECIFICATION Spec
CONSTANTS
    None = None
    Runs = {r1, r2}
    Messages = {m1, m2}
    MaxEvents = 0
    MaxCrashes = 0
    MaxFailures = 1
SYMMETRY Symmetric
INVARIANT
    QueuedOnce
PROPERTY
    Handed
CHECK_DEADLOCK FALSE
