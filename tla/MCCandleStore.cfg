SPECIFICATION FairSpec
CONSTANTS
    Prices <- MCPrices
    Sessions = {s1, s2}
    MinBars = 2
    MaxCandle = 3
    MaxRows = 3
    MaxTrouble = 1
INVARIANTS
    TypeOK
    ExtremesExact
PROPERTIES
    EvaluatesItsCandle
    LockIsReleased
CHECK_DEADLOCK FALSE
