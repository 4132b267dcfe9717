CONSTANTS
    Sessions = {s1}
    Attempts = {a1, a2}
    Origins = {builtin, plugin}
    PluginOrigins = {plugin}
    Inputs = {i1, i2}
    Portables = {p1}
    Keys = {k1}
    Reserves = {1}
    Sizes = {1}
    Limit = 3
    MaxEpoch = 2
    None = None
    Requests = {r1}
    MaxJobs = 2
SPECIFICATION ProxySpec
SYMMETRY MCSymmetry
INVARIANTS
    PendingIsRecoverable
CHECK_DEADLOCK FALSE
