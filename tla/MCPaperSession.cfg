SPECIFICATION Spec
CONSTANTS
    MaxDailyLossUsdt = 3
    MaxDailyLossPct = 0
    MaxTradesPerDay = 2
    MaxConsecutiveLosses = 0
    DrawdownReduceAfter = 0
    DrawdownReduceFactor = 0
    DrawdownRecoveryTrades = 1
    Simulation = TRUE
    Sides <- TwoSides
    Agents <- Stop
    Lots = 2
    Pnls <- Losses
    Equities <- HealthyOrDown
    Balances <- FlatBalance
    StartingBalance = 10
    MaxOpenPositions = 2
    MaxCandles = 3
    MaxPositions = 3
    MaxDay = 2
    MaxFaults = 1
    FaultKinds <- CrashOrDb
INVARIANTS
    TypeOK
    RiskNeverRewound
    KillSwitchHolds
    PaperLedger
    AtMostOneFinalTrade
    DailyEntriesBounded
CHECK_DEADLOCK FALSE
