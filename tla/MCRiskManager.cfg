SPECIFICATION Spec
CONSTANTS
    MaxDailyLossUsdt = 8
    MaxDailyLossPct = 5
    MaxTradesPerDay = 4
    MaxConsecutiveLosses = 3
    DrawdownReduceAfter = 2
    DrawdownReduceFactor = 50
    DrawdownRecoveryTrades = 2
    Pnls <- MCPnls
    Equities <- MCEquities
    MaxDay = 3
    MaxResults = 5
    MaxEntries = 2
INVARIANTS
    TypeOK
    LossStreakExact
    BrakeExact
PROPERTIES
    RaiseIsEarned
    GateSpec
