SPECIFICATION RelaySpec
CONSTANTS
    c1 = c1
    c2 = c2
    None = None
    Tokens <- MCTokens
    CallIds <- MCCalls
    Adapters <- MCAdapters
    Requests <- MCRequests
    MaxItems = 2
    MaxParts = 2
    MaxArguments = 4
    MaxText = 2
SYMMETRY CallSymmetry
CHECK_DEADLOCK FALSE
INVARIANTS
    ToolsAreHeld
    ToolsAsRequested
PROPERTY ClientStream
