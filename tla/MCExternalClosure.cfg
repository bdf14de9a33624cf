SPECIFICATION Spec
CONSTANTS
    MaxDailyLossUsdt = 3
    MaxDailyLossPct = 0
    MaxTradesPerDay = 0
    MaxConsecutiveLosses = 0
    DrawdownReduceAfter = 0
    DrawdownReduceFactor = 0
    DrawdownRecoveryTrades = 1
    Simulation = FALSE
    Sides <- OneSide
    Agents <- Cron
    Lots = 2
    Pnls <- Losses
    Equities <- HealthyOrDown
    Balances <- FlatBalance
    StartingBalance = 10
    MaxOpenPositions = 0
    MaxCandles = 2
    MaxPositions = 2
    MaxDay = 1
    MaxFaults = 0
    FaultKinds <- NoFaults
PROPERTY ExternalMeansGone
CHECK_DEADLOCK FALSE
