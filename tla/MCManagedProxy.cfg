CONSTANTS
    Sessions = {s1}
    Attempts = {a1, a2}
    Origins = {builtin, plugin}
    PluginOrigins = {plugin}
    Inputs = {i1, i2}
    Portables = {p1}
    Keys = {k1}
    Reserves = {1}
    Sizes = {1}
    Limit = 3
    MaxEpoch = 2
    None = None
    Requests = {r1, r2}
    MaxJobs = 2
SPECIFICATION ProxySpec
SYMMETRY MCSymmetry
CONSTRAINT Focus
INVARIANTS
    PublishedIsDurable
    ParentsArePublished
    AtMostOnceInference
    HistoryIsAChain
PROPERTIES
    DispatchIsCurrent
    StoreSpec
CHECK_DEADLOCK FALSE
