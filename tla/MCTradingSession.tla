--------------------------- MODULE MCTradingSession ---------------------------
(* TradingSession on small instances; the cfg files choose which.           *)
EXTENDS TradingSession

OneSide == {"long"}
TwoSides == {"long", "short"}
Losses == {-1}
Healthy == {10}
HealthyOrDown == {10, 7}
FlatBalance == {5}
NoAgents == {}
Cron == {"cron"}
Stop == {"stop"}
NoFaults == {}
CrashOrDb == {"crash", "db"}
AllFaults == {"crash", "db", "api"}
==============================================================================
