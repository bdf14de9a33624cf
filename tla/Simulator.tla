------------------------------ MODULE Simulator ------------------------------
(***************************************************************************)
(* The life of one position of a session: opened from a signal, loaded     *)
(* from its rows on every candle, run through Simulator.onNewCandle, and   *)
(* written back, await by await, beside the syncs of a real session and    *)
(* with failures between any two awaits.  Positions share nothing but the  *)
(* balance, so one is enough.                                              *)
(*                                                                         *)
(* onNewCandle works on the handler's private copy, so it is the same to   *)
(* take each exit when persistTrade writes it.                             *)
(*                                                                         *)
(* Left out: trailing.  openFromSignal creates the row without             *)
(* trailingOffset, so every loaded position has none, activateTrailing     *)
(* returns at once and updateTrail is never called (bestPrice serves only  *)
(* them); pnlPct and riskAmountRemaining, which nothing reads.  Prices,    *)
(* lots and fees are integers, so the 1e-10 tolerances become equalities.  *)
(***************************************************************************)
EXTENDS TakeProfitPlan, FiniteSets

CONSTANTS
    Plans,      \* by side: the targets openPosition may give a position
    Closes,     \* the closing prices of candles
    FeeRate,    \* takerFeeRate, per unit of price and lot
    MinFee,     \* minFeeUsdt
    Agents,     \* the syncs that may run at a time: the cron's and the calls'
    Sizes,      \* what the exchange may report as position size
    MaxFaults   \* bound: failures

\* Of the targets only what normalizeTargets gives any plan.
ASSUME SimulatorAssumption ==
    /\ DOMAIN Plans = {1, -1}
    /\ \A d \in {1, -1} : \A targets \in Plans[d] :
          /\ targets # <<>>
          /\ targets \in Seq([price: Nat \ {0}, qty: Nat \ {0}, filledQty: {0}, hit: {FALSE}])
    /\ Closes \subseteq Nat \ {0}
    /\ FeeRate \in Nat
    /\ MinFee \in Nat /\ MinFee % (2 * Lots) = 0
    /\ Sizes \subseteq Nat \ {0}
    /\ MaxFaults \in Nat

VARIABLES
    dir,      \* position.side: 1 long, -1 short
    real,     \* the session is not a simulation
    plan,     \* the targets openPosition gave the position
    pos,      \* the position row and its targets' rows
    pc,       \* the candle handler: idle, plan, candle, trade, sync
    sim,      \* its copy of the position
    bar,      \* the close of its candle
    exit,     \* once it leaves altogether: at what price, and target by target?
    part,     \* the exit whose trade is still to be inserted
    agents,   \* the syncs: where each one is, and the stop it has read
    faults,   \* failures so far
    \* History, read by no action:
    sold,     \* quantity of all trades
    gross,    \* their yield before fees
    fees      \* their fees

bot == <<pc, sim, bar, exit, part>>
history == <<sold, gross, fees>>
vars == <<dir, real, plan, pos, pc, sim, bar, exit, part, agents, faults, sold, gross, fees>>

FirstStop == Entry - dir * StopDist

EntryFeeTotal == Max({Entry * Lots * FeeRate, MinFee \div 2})

NoPosition == [qty |-> 0, sl |-> 0, tp |-> 0, feeLeft |-> 0, targets |-> <<>>, closed |-> TRUE]
NoExit == [at |-> 0, parts |-> FALSE]
NoPart == [qty |-> 0, gross |-> 0, fees |-> 0]
NoSync == [pc |-> "idle", sl |-> 0]

\* sim.openPosition, and the row openFromSignal saves; the targets' rows follow.
Init ==
    /\ dir \in {1, -1}
    /\ real \in BOOLEAN
    /\ plan \in Plans[dir]
    /\ sim = [qty |-> Lots, sl |-> FirstStop, tp |-> Last(plan).price,
              feeLeft |-> EntryFeeTotal, targets |-> plan, closed |-> FALSE]
    /\ pos = [sim EXCEPT !.targets = <<>>]
    /\ pc = "plan" /\ bar = 0 /\ exit = NoExit /\ part = NoPart
    /\ agents = [a \in Agents |-> NoSync]
    /\ faults = 0 /\ sold = 0 /\ gross = 0 /\ fees = 0

-----------------------------------------------------------------------------
(* closePart and its helpers, on a position and the part sold of it.       *)

ShareOf(total, q) == (total * Min({q, Lots})) \div Lots

\* The books after q lots were sold at a price, with a share of the entry fee.
Booked(p, at, q, share, left) ==
    [pos  |-> [p EXCEPT !.qty = left, !.feeLeft = Max({0, @ - share}), !.closed = left <= 0],
     part |-> [qty   |-> q,
               gross |-> (at - Entry) * q * dir,
               fees  |-> Max({share + at * q * FeeRate, ShareOf(MinFee, q)})]]

\* Mutant of ClosePart: the quantity is not capped by what is held.
ClosePart_Uncapped(p, at, qty) ==
    Booked(p, at, qty, ShareOf(EntryFeeTotal, qty), p.qty - qty)

\* closePart: at most what is held, the entry fee and the minimum fee pro rata.
ClosePart(p, at, qty) ==
    LET q == Min({qty, p.qty})
    IN  Booked(p, at, q, ShareOf(EntryFeeTotal, q), p.qty - q)

\* nextTarget: the first target not hit yet; 0 when there is none.
NextTarget(p) == SelectInSeq(p.targets, LAMBDA t : ~ t.hit)
Unfilled(p) == {i \in DOMAIN p.targets : ~ p.targets[i].hit}
Remaining(t) == t.qty - t.filledQty
Beyond(price, level) == dir * price >= dir * level

UpdateTp(p) ==
    IF NextTarget(p) = 0 THEN p ELSE [p EXCEPT !.tp = p.targets[NextTarget(p)].price]

Fill(p, i, q) ==
    LET filled == p.targets[i].filledQty + q
    IN  [p EXCEPT !.targets[i].filledQty = filled,
                  !.targets[i].hit = filled >= p.targets[i].qty]

\* The target loop goes on: the next target is reached and there is something to sell.
TargetHit ==
    /\ NextTarget(sim) # 0 /\ sim.qty > 0
    /\ Beyond(bar, sim.targets[NextTarget(sim)].price)

\* Mutant of ExitPrice: the exit is booked at the candle's close.
ExitPrice_AtClose(p, price) ==
    IF Beyond(p.sl, price) \/ Beyond(price, p.tp) THEN price ELSE 0

\* checkExit: the stop first, then the take profit, each at its own price.
ExitPrice(p, price) ==
    CASE Beyond(p.sl, price) -> p.sl
      [] ~ Beyond(p.sl, price) /\ Beyond(price, p.tp) -> p.tp
      [] OTHER -> 0

\* How the position is left, once the target loop is over: at no price (0), at
\* once, or target by target when several are unfilled.
Exit ==
    IF exit.at # 0 THEN exit
    ELSE [at |-> ExitPrice(sim, bar), parts |-> Cardinality(Unfilled(sim)) > 1]

\* Target by target only while there is something to sell.
Leaving == Exit.at # 0 /\ (Exit.parts => sim.qty > 0)

-----------------------------------------------------------------------------
(* The candle handler: processSession.                                     *)

Release ==
    /\ pc' = "idle" /\ sim' = NoPosition /\ bar' = 0 /\ exit' = NoExit /\ part' = NoPart

\* openFromSignal: the rows of the targets, one by one.
SaveTarget ==
    /\ pc = "plan" /\ Len(pos.targets) < Len(plan)
    /\ pos' = [pos EXCEPT !.targets = Append(@, plan[Len(@) + 1])]
    /\ UNCHANGED <<dir, real, plan, bot, agents, faults, history>>

\* The open rows are loaded.
Load(price) ==
    /\ pc = "idle" /\ ~ pos.closed
    /\ pc' = "candle" /\ sim' = pos /\ bar' = price
    /\ UNCHANGED <<dir, real, plan, pos, exit, part, agents, faults, history>>

\* persistTrade, its first await: the row is closed, or said to be open.
PersistTrade(after) ==
    /\ pos' = [pos EXCEPT !.closed = after.pos.closed, !.qty = IF after.pos.closed THEN 0 ELSE @]
    /\ part' = after.part
    /\ pc' = "trade"

\* Mutant of TakeTarget: the stop is left where it is.
TakeTarget_KeepsStop ==
    LET i == NextTarget(sim)
        after == ClosePart(sim, sim.targets[i].price, Min({sim.qty, Remaining(sim.targets[i])}))
    IN
    /\ pc = "candle" /\ ~ sim.closed /\ exit.at = 0 /\ TargetHit
    /\ sim' = UpdateTp(Fill(after.pos, i, after.part.qty))
    /\ PersistTrade(after)
    /\ UNCHANGED <<dir, real, plan, bar, exit, agents, faults, history>>

\* The target loop sells a target at its price; the first one moves the stop to
\* the entry.
TakeTarget ==
    LET i == NextTarget(sim)
        after == ClosePart(sim, sim.targets[i].price, Min({sim.qty, Remaining(sim.targets[i])}))
        moved == IF i = 1 THEN [after.pos EXCEPT !.sl = Entry] ELSE after.pos
    IN
    /\ pc = "candle" /\ ~ sim.closed /\ exit.at = 0 /\ TargetHit
    /\ sim' = UpdateTp(Fill(moved, i, after.part.qty))
    /\ PersistTrade(after)
    /\ UNCHANGED <<dir, real, plan, bar, exit, agents, faults, history>>

\* Leaving, target by target.
LeavePart ==
    LET i == NextTarget(sim)
        after == ClosePart(sim, Exit.at, Remaining(sim.targets[i]))
    IN
    /\ pc = "candle" /\ ~ sim.closed /\ (exit.at = 0 => ~ TargetHit)
    /\ Leaving /\ Exit.parts /\ i # 0
    /\ exit' = Exit
    /\ sim' = Fill(after.pos, i, Remaining(sim.targets[i]))
    /\ PersistTrade(after)
    /\ UNCHANGED <<dir, real, plan, bar, agents, faults, history>>

\* Leaving at once, or what the targets have left.
LeaveRest ==
    LET after == ClosePart(sim, Exit.at, sim.qty)
    IN
    /\ pc = "candle" /\ ~ sim.closed /\ (exit.at = 0 => ~ TargetHit)
    /\ Leaving /\ (Exit.parts => NextTarget(sim) = 0)
    /\ exit' = Exit
    /\ sim' = after.pos
    /\ PersistTrade(after)
    /\ UNCHANGED <<dir, real, plan, bar, agents, faults, history>>

\* persistTrade, its second await.
InsertTrade ==
    /\ pc = "trade"
    /\ sold' = sold + part.qty /\ gross' = gross + part.gross /\ fees' = fees + part.fees
    /\ pc' = "candle" /\ part' = NoPart
    /\ UNCHANGED <<dir, real, plan, pos, sim, bar, exit, agents, faults>>

\* What syncPositions is due for: the new position, or a loaded one that is not
\* closed, when onNewCandle is done with it.
Settled ==
    \/ pc = "plan" /\ Len(pos.targets) = Len(plan)
    \/ pc = "candle" /\ ~ sim.closed /\ exit.at = 0 /\ ~ TargetHit /\ ~ Leaving

\* Mutant of SyncPosition: the quantity is not written.
SyncPosition_NoQty ==
    /\ Settled
    /\ pos' = [pos EXCEPT !.sl = sim.sl, !.tp = sim.tp, !.feeLeft = sim.feeLeft]
    /\ pc' = "sync"
    /\ UNCHANGED <<dir, real, plan, sim, bar, exit, part, agents, faults, history>>

\* syncPositions: the position's row, whatever has happened to it meanwhile.
SyncPosition ==
    /\ Settled
    /\ pos' = [pos EXCEPT !.qty = sim.qty, !.sl = sim.sl, !.tp = sim.tp, !.feeLeft = sim.feeLeft]
    /\ pc' = "sync"
    /\ UNCHANGED <<dir, real, plan, sim, bar, exit, part, agents, faults, history>>

\* The targets whose rows differ from the copy; the others' updates change nothing.
Behind == {i \in DOMAIN sim.targets : pos.targets[i] # sim.targets[i]}

\* syncPositions: the rows of the targets, in order.
SyncTarget ==
    /\ pc = "sync" /\ Behind # {}
    /\ pos' = [pos EXCEPT !.targets[Min(Behind)] = sim.targets[Min(Behind)]]
    /\ UNCHANGED <<dir, real, plan, bot, agents, faults, history>>

\* The handler is done: a closed position has left the copy and is not synced.
Finish ==
    /\ \/ pc = "sync" /\ Behind = {}
       \/ pc = "candle" /\ sim.closed
    /\ Release
    /\ UNCHANGED <<dir, real, plan, pos, agents, faults, history>>

-----------------------------------------------------------------------------
(* syncSession on this position.                                           *)

\* The exchange's positions are fetched, then the open rows are found.
FindOpen(a) ==
    /\ real /\ ~ pos.closed /\ agents[a].pc = "idle"
    /\ agents' = [agents EXCEPT ![a] = [pc |-> "apply", sl |-> pos.sl]]
    /\ UNCHANGED <<dir, real, plan, pos, bot, faults, history>>

\* Found on the exchange: its quantity, and its stop, the one the order was
\* placed with, if it has one; otherwise the stop just read.
Reconcile(a, qty, sl) ==
    /\ agents[a].pc = "apply"
    /\ sl \in {agents[a].sl, FirstStop}
    /\ pos' = [pos EXCEPT !.qty = qty, !.sl = sl]
    /\ agents' = [agents EXCEPT ![a] = NoSync]
    /\ UNCHANGED <<dir, real, plan, bot, faults, history>>

\* Not found: handleExternalClosure, its first await.
CloseRow(a) ==
    /\ agents[a].pc = "apply"
    /\ pos' = [pos EXCEPT !.closed = TRUE, !.qty = 0]
    /\ agents' = [agents EXCEPT ![a].pc = "external"]
    /\ UNCHANGED <<dir, real, plan, bot, faults, history>>

\* Its second: a trade of the whole originalQty, whatever was sold before.
InsertExternal(a) ==
    /\ agents[a].pc = "external"
    /\ sold' = sold + Lots
    /\ agents' = [agents EXCEPT ![a] = NoSync]
    /\ UNCHANGED <<dir, real, plan, pos, bot, faults, gross, fees>>

-----------------------------------------------------------------------------
(* Failures.                                                               *)

\* An await of the handler throws; processSession has no try.
HandlerThrows ==
    /\ faults < MaxFaults /\ pc # "idle"
    /\ faults' = faults + 1
    /\ Release
    /\ UNCHANGED <<dir, real, plan, pos, agents, history>>

SyncThrows(a) ==
    /\ faults < MaxFaults /\ agents[a].pc # "idle"
    /\ faults' = faults + 1
    /\ agents' = [agents EXCEPT ![a] = NoSync]
    /\ UNCHANGED <<dir, real, plan, pos, bot, history>>

\* The process dies and starts again: only the rows are left.
Crash ==
    /\ faults < MaxFaults
    /\ faults' = faults + 1
    /\ Release
    /\ agents' = [a \in Agents |-> NoSync]
    /\ UNCHANGED <<dir, real, plan, pos, history>>

Handler ==
    \/ SaveTarget
    \/ \E price \in Closes : Load(price)
    \/ TakeTarget \/ LeavePart \/ LeaveRest \/ InsertTrade
    \/ SyncPosition \/ SyncTarget \/ Finish

Sync(a) ==
    \/ FindOpen(a)
    \/ \E qty \in Sizes, sl \in {agents[a].sl, FirstStop} : Reconcile(a, qty, sl)
    \/ CloseRow(a) \/ InsertExternal(a) \/ SyncThrows(a)

Next == Handler \/ (\E a \in Agents : Sync(a)) \/ HandlerThrows \/ Crash

Spec == Init /\ [][Next]_vars

-----------------------------------------------------------------------------

Rows == [qty: Nat, sl: Nat, tp: Nat, feeLeft: Nat, closed: BOOLEAN,
         targets: Seq([price: Nat \ {0}, qty: Nat \ {0}, filledQty: Nat, hit: BOOLEAN])]

\* Type invariant of the rows, the handler, the syncs and the history.
TypeOK ==
    /\ dir \in {1, -1} /\ real \in BOOLEAN /\ plan \in Plans[dir]
    /\ pos \in Rows /\ sim \in Rows
    /\ pc \in {"idle", "plan", "candle", "trade", "sync"}
    /\ bar \in Nat /\ exit \in [at: Nat, parts: BOOLEAN]
    /\ part \in [qty: Nat, gross: Int, fees: Nat]
    /\ agents \in [Agents -> [pc: {"idle", "apply", "external"}, sl: Nat]]
    /\ faults \in Nat /\ sold \in Nat /\ gross \in Int /\ fees \in Nat

Filled(p) == Total([i \in DOMAIN p.targets |-> p.targets[i].filledQty])

\* What is held, as the handler has it while it runs, and the stop.
InHand == IF pc = "idle" THEN IF pos.closed THEN 0 ELSE pos.qty ELSE sim.qty + part.qty
Stop == IF pc = "idle" THEN pos.sl ELSE sim.sl

(* No lot is lost or sold twice, but for the parts a failure makes the      *)
(* program forget.  In every session the targets' rows show a prefix of     *)
(* them filled, each in full, and never more than the trades that were      *)
(* inserted.  A paper position besides never holds a lot that a target's    *)
(* row counts as sold; it is closed exactly when it holds none; what is     *)
(* left of the entry fee follows what is left of an open one; all trades    *)
(* together have paid their share of the entry fee and of the minimum fee.  *)
(* What it has sold and holds is what was bought, and its targets' rows say *)
(* just what was sold; each failure can make it sell what it held again at  *)
(* most once (bot.service.ts:98-177, 335-393, simulator.ts:84-136, 190-202, *)
(* bitget-sync.service.ts:66-92, 281-308).                                  *)
QtyConserved ==
    /\ \A i \in DOMAIN pos.targets :
          LET t == pos.targets[i] IN
          /\ t.filledQty = IF t.hit THEN t.qty ELSE 0
          /\ t.hit => \A j \in 1..i : pos.targets[j].hit
    /\ Filled(pos) <= sold
    /\ ~ real =>
         /\ pos.qty + Filled(pos) <= Lots
         /\ pos.closed <=> pos.qty = 0
         /\ ~ pos.closed => pos.feeLeft * Lots = EntryFeeTotal * pos.qty
         /\ fees * Lots >= Max({MinFee, EntryFeeTotal}) * sold
         /\ InHand + sold <= Lots * (1 + faults)
         /\ faults = 0 => /\ InHand + sold = Lots
                          /\ pc = "idle" /\ ~ pos.closed => sold = Filled(pos)

\* Every target is beyond the entry.
Sound == \A i \in DOMAIN plan : dir * plan[i].price > dir * Entry

(* A paper position whose first target's row is hit has its stop at the     *)
(* entry or better, on every later candle and however candles were cut      *)
(* short: the row is written before the targets' rows; and if its plan is   *)
(* sound and nothing failed, it is in profit before fees (simulator.ts:106, *)
(* bot.service.ts:374-390).                                                 *)
RiskFreeAfterFirstTarget ==
    ~ real /\ ~ pos.closed /\ pos.targets # <<>> /\ pos.targets[1].hit
        => /\ Beyond(Stop, Entry) /\ Beyond(pos.sl, Entry)
           /\ Sound /\ faults = 0 => gross > 0

Book == INSTANCE PositionBook WITH sound <- Sound, held <- InHand, stop <- Stop, cuts <- faults

(* The simulator and the writes around it implement PositionBook: the stop  *)
(* in force only tightens and parts yield it or better, and only failures   *)
(* and the exchange's numbers set a position back.                          *)
BookSpec == Book!Spec

==============================================================================
