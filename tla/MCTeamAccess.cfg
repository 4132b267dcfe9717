CONSTANTS
    Operations = {o1, o2, o3}
    Subjects = {admin}
    Keys = {k1, k2, k3}
    Requests <- Command
    MaxEvents = 4
    None = None
    Members = {m1}
    Credentials = {c1, c2}
SPECIFICATION AccessSpec
SYMMETRY MCSymmetry
INVARIANTS
    UsableIsAudited
    RefreshSeesChange
PROPERTIES
    JournalSpec
CHECK_DEADLOCK FALSE
