---------------------------- MODULE MCRiskManager ----------------------------
(***************************************************************************)
(* RiskManager with small limits.  Equities 100, 97 and 92 give no         *)
(* drawdown, one inside the limits and one beyond them; Pnls hold a loss,  *)
(* a scratch (which the code counts as a win) and a win.                   *)
(***************************************************************************)
EXTENDS RiskManager

MCPnls == {-3, 0, 2}
MCEquities == {92, 97, 100}

==============================================================================
