CONSTANTS
    Names <- MCNames
    Tokens <- MCTokens
    Values <- MCValues
    Files <- MCFiles
    Empty = Empty
    IpOf <- MCIpOf
    DefaultSilence = 2
    Foreign <- MCForeign
    Capacity = 2
SPECIFICATION Spec
CHECK_DEADLOCK FALSE
INVARIANTS HearsItsSource
