CONSTANTS
    Operations = {o1, o2}
    Subjects = {admin}
    Keys = {k1, k2}
    Requests <- MCRequests
    MaxEvents = 4
    None = None
    Candidates = {c1}
    Contents = {v1, v2}
    Valid = {v1, v2}
    Torn = Torn
    Children = {p1, p2}
    Ids = {p}
    Builds = {b1, b2}
    MaxGeneration = 1
    MaxRequests = 1
SPECIFICATION DispatchSpec
SYMMETRY MCSymmetry
INVARIANTS
    ServesRegistered
    OneServing
    ActiveIsWhole
    ExecutorNeverStuck
PROPERTIES
    JournalSpec
    NoLostUpdate
CHECK_DEADLOCK FALSE
