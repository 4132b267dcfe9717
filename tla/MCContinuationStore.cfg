CONSTANTS
    Sessions = {s1, s2}
    Attempts = {a1, a2}
    Origins = {o1}
    Inputs = {i1, i2}
    Portables = {p1}
    Keys = {k1, k2}
    Reserves = {1, 2}
    Sizes = {1, 2}
    Limit = 3
    MaxEpoch = 2
    None = None
SPECIFICATION StoreSpec
SYMMETRY MCSymmetry
INVARIANTS
    SessionsMatchAttempts
    EnvelopesReadable
PROPERTIES
    RevisionAdvances
    OutcomeIsFinal
CHECK_DEADLOCK FALSE
