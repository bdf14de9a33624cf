------------------------------ MODULE EntryOrder ------------------------------
(***************************************************************************)
(* One entry from the configuration it reads to the rows it leaves:        *)
(* resolveConfigForSymbol, the take-profit plan, placeOrder on Bitget with *)
(* its stop and target, and the inserts of openFromSignal.  Every call is  *)
(* awaited; StrategyConfig's requests run in between, and each call may    *)
(* fail in its own way.                                                    *)
(*                                                                         *)
(* The signal, the guards and the quantity are TradingSession's; here the  *)
(* quantity is Lots.  openFromSignal passes no tpTargets, so placeOrder's  *)
(* loop over them never runs; fetchAndStoreLiqPrice looks for the row that *)
(* is inserted after it, finds none and changes nothing.                   *)
(***************************************************************************)
EXTENDS TakeProfitPlan, StrategyConfig

CONSTANT SizeStep   \* the size step of truncateSize

ASSUME EntryAssumption == SizeStep \in Nat \ {0}

VARIABLES
    pc,        \* the await the handler is at
    dir,       \* the side: 1 long, -1 short, 0 before the signal
    real,      \* the signal's session is real and its user has an API key
    plan,      \* the targets of the simulator's position
    account,   \* the user's keys are complete; Bitget: hedge mode and leverage set
    exchange,  \* Bitget: the size held, its stop and its target price, 0 for none
    row,       \* positions: 0 or 1 rows of this entry, their sl and tp
    saved,     \* how many of the plan's targets are in position_tp_targets
    \* History, read by no action:
    failed     \* where a call failed

entry == <<pc, dir, real, plan, account, exchange, row, saved, failed>>
vars == <<config, faults, entry>>

Pcs == {"idle", "hedge", "leverage", "submit", "stop", "tp", "row", "target", "done"}

Truncated == Lots - (Lots % SizeStep)
Stop == Entry - dir * StopDist

Init ==
    /\ InitConfig
    /\ pc = "idle" /\ dir = 0 /\ real = FALSE /\ plan = <<>> /\ saved = 0 /\ failed = {}
    /\ account = [keys |-> FALSE, hedge |-> FALSE, levered |-> FALSE]
    /\ exchange = [size |-> 0, sl |-> 0, tp |-> 0]
    /\ row = [n |-> 0, sl |-> 0, tp |-> 0]

At(p) == pc = p
Goto(p) == pc' = p

\* The call the handler is at fails, in the handler's eyes.
Fails == Fault /\ failed' = failed \cup {pc}
Succeeds == UNCHANGED <<faults, failed>>

\* The candle reads the configuration and its signal, of either side, is opened
\* in the simulator.  Without a secret or a passphrase placeOrder throws at once,
\* which is logged; the user's account may be in hedge mode already.
Signal ==
    /\ At("idle")
    /\ dir' \in {1, -1} /\ real' \in BOOLEAN
    /\ \E keys, hedge \in BOOLEAN : account' = [account EXCEPT !.keys = keys, !.hedge = hedge]
    /\ \E template \in Resolved :
          LET tps == BuildTps(template, tp, dir') IN
          IF tps = <<>> THEN Goto("done") /\ UNCHANGED plan
          ELSE Goto(IF real' /\ account'.keys THEN "hedge" ELSE "row") /\ plan' = NormalizeTargets(tps)
    /\ UNCHANGED <<config, faults, exchange, row, saved, failed>>

-----------------------------------------------------------------------------
(* placeOrder.                                                             *)

\* Both errors are logged only.
EnsureHedgeMode ==
    /\ At("hedge")
    /\ \/ account' = [account EXCEPT !.hedge = TRUE] /\ Succeeds
       \/ UNCHANGED account /\ Fails
    /\ Goto("leverage")
    /\ UNCHANGED <<config, dir, real, plan, exchange, row, saved>>

SetLeverage ==
    /\ At("leverage")
    /\ \/ account' = [account EXCEPT !.levered = TRUE] /\ Succeeds
       \/ UNCHANGED account /\ Fails
    /\ Goto("submit")
    /\ UNCHANGED <<config, dir, real, plan, exchange, row, saved>>

Accepted == account.hedge /\ Truncated > 0
Held == exchange' = [exchange EXCEPT !.size = @ + Truncated]

\* The market order: executed, refused, or failed with or without having been
\* executed.  An error ends placeOrder; openFromSignal logs it and goes on.
SubmitOrder ==
    /\ At("submit")
    /\ \/ Accepted /\ Held /\ Goto("stop") /\ Succeeds
       \/ ~ Accepted /\ UNCHANGED exchange /\ Goto("row") /\ Succeeds
       \/ Fails /\ (UNCHANGED exchange \/ (Accepted /\ Held)) /\ Goto("row")
    /\ UNCHANGED <<config, dir, real, plan, account, row, saved>>

\* Mutant of PlaceStop: its error ends placeOrder.
PlaceStop_Throws ==
    /\ At("stop")
    /\ \/ exchange' = [exchange EXCEPT !.sl = Stop] /\ Succeeds /\ Goto("tp")
       \/ UNCHANGED exchange /\ Fails /\ Goto("row")
    /\ UNCHANGED <<config, dir, real, plan, account, row, saved>>

\* placeTpsl, twice: the stop and the last target's price, for the full size; an
\* error is logged only.
PlaceStop ==
    /\ At("stop")
    /\ \/ exchange' = [exchange EXCEPT !.sl = Stop] /\ Succeeds
       \/ UNCHANGED exchange /\ Fails
    /\ Goto("tp")
    /\ UNCHANGED <<config, dir, real, plan, account, row, saved>>

SigTp == Last(plan).price

PlaceTarget ==
    /\ At("tp")
    /\ \/ exchange' = [exchange EXCEPT !.tp = SigTp] /\ Succeeds
       \/ UNCHANGED exchange /\ Fails
    /\ Goto("row")
    /\ UNCHANGED <<config, dir, real, plan, account, row, saved>>

-----------------------------------------------------------------------------
(* The rows.                                                               *)

InsertRow ==
    /\ At("row")
    /\ \/ row' = [n |-> row.n + 1, sl |-> Stop, tp |-> SigTp] /\ Succeeds /\ Goto("target")
       \/ UNCHANGED row /\ Fails /\ Goto("done")
    /\ UNCHANGED <<config, dir, real, plan, account, exchange, saved>>

\* Mutant of InsertTarget: the loop runs once too often.
InsertTarget_OneMore ==
    /\ At("target")
    /\ \/ saved <= Len(plan) /\ saved' = saved + 1 /\ Succeeds /\ UNCHANGED pc
       \/ saved > Len(plan) /\ UNCHANGED saved /\ Succeeds /\ Goto("done")
    /\ UNCHANGED <<config, dir, real, plan, account, exchange, row>>

InsertTarget ==
    /\ At("target")
    /\ \/ saved < Len(plan) /\ saved' = saved + 1 /\ Succeeds /\ UNCHANGED pc
       \/ saved < Len(plan) /\ UNCHANGED saved /\ Fails /\ Goto("done")
       \/ saved = Len(plan) /\ UNCHANGED saved /\ Succeeds /\ Goto("done")
    /\ UNCHANGED <<config, dir, real, plan, account, exchange, row>>

\* The process dies in the middle of the entry.
Crash ==
    /\ pc \notin {"idle", "done"}
    /\ Fault /\ failed' = failed \cup {"crash"}
    /\ Forget
    /\ Goto("done")
    /\ UNCHANGED <<dir, real, plan, account, exchange, row, saved>>

\* The entry reads the configuration once, in Signal: requests commute with what
\* follows it and are drawn before it.
Configure == At("idle") /\ ConfigNext /\ UNCHANGED entry

Next ==
    \/ Configure
    \/ Signal \/ EnsureHedgeMode \/ SetLeverage \/ SubmitOrder
    \/ PlaceStop \/ PlaceTarget \/ InsertRow \/ InsertTarget \/ Crash

Spec == Init /\ [][Next]_vars

-----------------------------------------------------------------------------

\* Type invariant of the entry and of what it reads.
TypeOK ==
    /\ pc \in Pcs /\ dir \in {-1, 0, 1} /\ real \in BOOLEAN
    /\ plan \in Seq([price: Nat \ {0}, qty: Nat \ {0}, filledQty: {0}, hit: {FALSE}])
    /\ account \in [keys: BOOLEAN, hedge: BOOLEAN, levered: BOOLEAN]
    /\ exchange \in [size: {0, Truncated}, sl: {0, Stop}, tp: Nat]
    /\ row \in [n: {0, 1}, sl: {0, Stop}, tp: Nat]
    /\ saved \in 0..Len(plan)
    /\ failed \subseteq Pcs \cup {"crash"}
    /\ tp \in Columns /\ faults \in Nat

(* Whatever a candle reads while a strategy is being written - half of a     *)
(* template, none, or two mixed ones - the targets it trades on sell exactly *)
(* what was bought, at prices on the profitable side; only a strategy column *)
(* that is not positive puts one at or behind the entry, no template does    *)
(* (normTpl, fromTpl, buildTps, normalizeTargets).                           *)
PlanCovers ==
    plan # <<>> =>
        /\ Total([i \in DOMAIN plan |-> plan[i].qty]) = Lots
        /\ \A i \in DOMAIN plan :
              \/ dir * plan[i].price > dir * Entry
              \/ \E r \in {tp.r1, tp.r2} : r <= 0 /\ plan[i].price = PriceAt(dir, r)

(* Every piece that is missing in the end was lost at its own call: a        *)
(* position without a stop, without a target, at a foreign leverage, without *)
(* a row or with half of its targets, and a row without a position, each     *)
(* need a failure of the call that makes it, or a crash before it, and the   *)
(* last otherwise incomplete keys (140-265 of the client, 263-304 of the     *)
(* bot).                                                                     *)
DamageIsLocal ==
    LET Broken(calls) == failed \cap (calls \cup {"crash"}) # {} IN
    /\ exchange.size > 0 =>
          /\ exchange.sl = 0 => pc = "stop" \/ Broken({"submit", "stop"})
          /\ exchange.tp = 0 => pc \in {"stop", "tp"} \/ Broken({"submit", "tp"})
          /\ account.levered \/ Broken({"leverage"})
          /\ pc = "done" /\ row.n = 0 => Broken({"row"})
    /\ pc = "done" /\ row.n = 1 /\ saved < Len(plan) => Broken({"target"})
    /\ row.n = 1 /\ real /\ exchange.size = 0 =>
          Truncated = 0 \/ ~ account.keys \/ Broken({"hedge", "submit"})

==============================================================================
