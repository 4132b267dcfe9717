CONSTANTS
    Operations = {o1, o2}
    Subjects = {admin}
    Keys = {k1, k2}
    Requests = {issue, start}
    Protected = {issue}
    Jobs = {j1, j2}
    MaxJobs = 2
    MaxEvents = 5
    None = None
SPECIFICATION ApiSpec
SYMMETRY MCSymmetry
INVARIANTS
    OutcomeIsTrue
    AppliedOnce
    AdmissionCloses
    AcknowledgedIsRecorded
    SecretIsOwn
PROPERTIES
    SettledIsFinal
CHECK_DEADLOCK FALSE
