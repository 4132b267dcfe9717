SPECIFICATION ContractSpec
CONSTANTS
    Profiles <- MCProfiles
    Values = {0, 2}
    MaxU64 = 3
    Null = Null
    Bad = Bad
    NoValue = NoValue
    Snapshots <- MCSnapshots
INVARIANTS
    UsageIsRecordable
    TokensAddUp
CHECK_DEADLOCK FALSE
