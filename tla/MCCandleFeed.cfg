SPECIFICATION FairSpec
CONSTANTS
    Symbols = {BTC, ETH}
    MaxCandle = 3
    MaxWire = 2
    MaxTrouble = 2
INVARIANTS
    TypeOK
    EmitsOnlyClosed
PROPERTIES
    EmitsInOrder
    LiveCandlesTrigger
    LeakNeedsAnotherSymbol
    FeedComesBack
CHECK_DEADLOCK FALSE
