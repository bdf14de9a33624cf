SPECIFICATION FairSpec
CONSTANTS
    Positions = {p1, p2}
    Handlers = {h1, h2}
    TotalQty = 5
    Prices = {1, 2}
    TargetPrice <- ThreePrices
    TargetQty <- ThreeQtys
    SizeStep = 2
    MaxRetry = 2
    MaxEvents = 2
    MaxFaults = 1
    FaultKinds <- AllFaults
INVARIANTS
    TypeOK
    OneExecutor
    TableBoundsExchange
    OpenIsWatched
    HitMeansSold
PROPERTIES
    
    LocksAreReleased
CHECK_DEADLOCK FALSE
