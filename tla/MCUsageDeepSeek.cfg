SPECIFICATION ContractSpec
CONSTANTS
    Profiles <- MCDeepSeek
    Values = {1, 2}
    MaxU64 = 3
    Null = Null
    Bad = Bad
    NoValue = NoValue
    Snapshots = {}
INVARIANTS
    UsageIsRecordable
CHECK_DEADLOCK FALSE
