SPECIFICATION Spec
CONSTANTS
    Global = Global
    All = All
    None = None
    Sessions = {a, b}
    Clients = {c1}
    Interest <- EverySession
    Kinds = {"high", "delta", "update"}
    ReplayCapacity = 2
    Capacity = 2
    MaxCursor = 3
    MaxDrops = 1
    MaxRestarts = 1
INVARIANT
    HighComplete
