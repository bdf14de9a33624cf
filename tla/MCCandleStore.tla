---------------------------- MODULE MCCandleStore ----------------------------
(* Two sessions on three candles of two prices: two candles close, so that  *)
(* their handlers can meet at the lock, and one stays in progress.            *)
EXTENDS CandleStore

MCPrices == 1..2
==============================================================================
