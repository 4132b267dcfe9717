SPECIFICATION AccountingSpec
CONSTANTS
    Events <- NoEvents
    Destinations = {}
    MaxBatch = 1
    None = None
    Calls = {c1, c2}
    Kinds = {"json", "stream"}
    Modes = {"off", "best_effort", "durable_local"}
    Capacity = 2
    MaxInFlight = 2
    MaxRevision = 1
INVARIANTS
    CommitPrecedesEffect
    EndIsNeverCrowdedOut
PROPERTY AttemptsEnd
CHECK_DEADLOCK FALSE
