--------------------------- MODULE MCMarkPriceFeed ---------------------------
(* Two symbols, five calls, two breaks or refusals, one price of each symbol on *)
(* its way.                                                                     *)
EXTENDS MarkPriceFeed

CONSTANTS btc, eth
MCSymbols == {btc, eth}
==============================================================================
