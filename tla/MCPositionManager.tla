--------------------------- MODULE MCPositionManager ---------------------------
(* PositionManager on rows of five units with three targets.  Orders are     *)
(* multiples of two units, so the second target is too small to be sold and  *)
(* leads to the safety close; the third is out of reach of the prices.       *)
EXTENDS PositionManager

ThreePrices == <<1, 2, 3>>
ThreeQtys == <<2, 1, 2>>
AllFaults == {"api", "lost", "db", "crash"}
================================================================================
