SPECIFICATION RecorderSpec
CONSTANTS
    Events <- MCEvents
    Destinations = {d1, d2}
    MaxBatch = 2
    None = None
INVARIANTS
    LedgerIsSettled
    OwedUntilDelivered
    ExportNeverConflicts
SYMMETRY DestinationSymmetry
