CONSTANTS
    Connections = {c1, c2}
    Subjects = {alice, bob}
    Ids = {i1, i2}
    Names = {n1, n2}
    Keys = {k1}
    Internals = {x1, x2}
    GatewayIds = {g1}
    Origins = {o1, o2}
    MaxInFlight = 2
    MaxVersion = 1
    None = None
SPECIFICATION TeamSpec
SYMMETRY MCSymmetry
CONSTRAINT Focus
INVARIANTS
    ActiveIsOwned
    OneLateAdmission
    CallsAreAdmitted
    CreatedOnce
CHECK_DEADLOCK FALSE
