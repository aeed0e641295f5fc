SPECIFICATION FairSpec
CONSTANTS
    None = None
    Runs = {r1, r2}
    Messages = {}
    MaxEvents = 2
    MaxCrashes = 1
    MaxFailures = 1
INVARIANT
    Accounted
PROPERTIES
    EndsAreTrue
    RunsSettle
CHECK_DEADLOCK FALSE
