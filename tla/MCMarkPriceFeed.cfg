SPECIFICATION FairSpec
CONSTANTS
    btc = btc
    eth = eth
    Symbols <- MCSymbols
    MaxCalls = 5
    MaxTrouble = 2
    MaxFlight = 1
INVARIANTS
    TypeOK
    ServedAsWanted
PROPERTY FeedSettles
CHECK_DEADLOCK FALSE
