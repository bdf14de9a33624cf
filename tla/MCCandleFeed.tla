----------------------------- MODULE MCCandleFeed -----------------------------
(* CandleFeed with two symbols, two candles each after the one already       *)
(* closed when the service starts, and two drops, failed connects or         *)
(* restarts: enough for a snapshot that arrives after another symbol has     *)
(* gone live, on the first and on a second connection.                       *)
EXTENDS CandleFeed
==============================================================================
