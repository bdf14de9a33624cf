SPECIFICATION Spec
CONSTANTS
    Lots = 4
    Entry = 10
    StopDist = 2
    Plans <- MCPlans
    Closes <- MCCloses
    FeeRate = 1
    MinFee = 96
    Agents = {a}
    Sizes = {1, 5}
    MaxFaults = 1
INVARIANTS
    TypeOK
    QtyConserved
    RiskFreeAfterFirstTarget
PROPERTY BookSpec
CHECK_DEADLOCK FALSE
