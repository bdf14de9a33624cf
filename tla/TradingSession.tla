---------------------------- MODULE TradingSession ----------------------------
(***************************************************************************)
(* One trading session and everybody who writes to it: the candle handler  *)
(* (BotService.processSession, serialised per symbol by `processing'), the *)
(* sync agents (the 30 s cron, POST reconcile, the sync inside stop), the  *)
(* stop request, and the exchange.  Every await of the code is a boundary  *)
(* between two actions, so the actions of different actors interleave      *)
(* exactly where the Node event loop lets them.                            *)
(*                                                                         *)
(* A handler works on an entity, a copy of the row it loaded.  update(id,  *)
(* columns) writes those columns; save(entity) writes back every column in *)
(* which the entity differs from the row, so stale columns included.       *)
(*                                                                         *)
(* Abstracted: quantities are lots; a trade's pnl and the equity after a   *)
(* candle are drawn from small sets (Simulator.tla computes them); config, *)
(* evaluations, prices, TP rows and the liqPrice column are left out, as   *)
(* nothing here reads them.  A real session is one with credentials.       *)
(***************************************************************************)
EXTENDS RiskRules, Sequences, FiniteSets

CONSTANTS
    Simulation,        \* session.simulation
    Sides,             \* OrderSide
    Agents,            \* the sync agents at work, of "cron", "http" and "stop"
    Lots,              \* the quantity of every entry
    Pnls,              \* what a closing trade may yield
    Equities,          \* what sim.equity may be after a candle
    Balances,          \* what the exchange may report as available balance
    StartingBalance,   \* session.startingBalance
    MaxOpenPositions,  \* session.maxOpenPositions; 0 is null
    MaxCandles,        \* bound: candles processed
    MaxPositions,      \* bound: positions ever opened
    MaxDay,            \* bound: UTC days explored
    MaxFaults,         \* bound: faults injected
    FaultKinds         \* of "crash", "db" and "api"

ASSUME TradingAssumption ==
    /\ Simulation \in BOOLEAN
    /\ Agents \subseteq {"cron", "http", "stop"}
    /\ Lots \in Nat \ {0}
    /\ Pnls \subseteq Int /\ Pnls # {}
    /\ Equities \subseteq Nat \ {0} /\ Equities # {}
    /\ Balances \subseteq Int /\ StartingBalance \in Int
    /\ MaxOpenPositions \in Nat
    /\ {MaxCandles, MaxPositions, MaxDay, MaxFaults} \subseteq Nat
    /\ FaultKinds \subseteq {"crash", "db", "api"}

VARIABLES
    row,        \* the sessions row
    positions,  \* the positions table, by id
    trades,     \* the trades table, per position: quantity sold and final trades
    exchange,   \* the lots Bitget holds per side
    available,  \* the balance Bitget reports
    bot,        \* the candle handler
    agents,     \* the sync agents
    today,      \* the UTC day
    candles,    \* candles still to come
    faults,     \* faults still to come
    \* History, read by no action:
    booked,     \* the sum of the pnl of all trades
    lastRisk,   \* the risk state the risk manager saved last
    killedDay,  \* the day the kill switch was last triggered for (NoDay: never)
    entries     \* entries since the last day reset

vars == <<row, positions, trades, exchange, available, bot, agents, today,
          candles, faults, booked, lastRisk, killedDay, entries>>
history == <<booked, lastRisk, killedDay, entries>>
world == <<exchange, available, today, faults>>

-----------------------------------------------------------------------------

Rows == [status: {"RUNNING", "STOPPED"}, balance: Int, risk: RiskState]
NewRow == [status |-> "RUNNING", balance |-> StartingBalance, risk |-> NewRisk]

NoSide == "none"
NoExit == [id |-> 0, qty |-> 0, last |-> FALSE, pnl |-> 0]
IdleBot == [pc |-> "idle", ent |-> NewRow, sim |-> <<>>, todo |-> {}, exit |-> NoExit,
            bal |-> 0, equity |-> 0, side |-> NoSide]
IdleAgent == [pc |-> "idle", ent |-> NewRow, bal |-> 0,
              snap |-> [s \in Sides |-> 0], todo |-> {}, gone |-> 0]

OpenIds == {id \in DOMAIN positions : ~ positions[id].closed}
OpenOn(side) == {id \in OpenIds : positions[id].side = side}

Init ==
    /\ row = NewRow
    /\ positions = <<>>
    /\ trades = <<>>
    /\ exchange = [s \in Sides |-> 0]
    /\ available \in Balances
    /\ bot = IdleBot
    /\ agents = [a \in Agents |-> IdleAgent]
    /\ today = 1
    /\ candles = MaxCandles
    /\ faults = MaxFaults
    /\ booked = 0
    /\ lastRisk = NewRisk
    /\ killedDay = NoDay
    /\ entries = 0

-----------------------------------------------------------------------------
(* The candle handler.                                                     *)

\* onCandleClosed finds the RUNNING sessions and takes the symbol's lock.
CandleClosed ==
    /\ bot.pc = "idle"
    /\ candles > 0
    /\ row.status = "RUNNING"
    /\ bot' = [IdleBot EXCEPT !.pc = "load", !.ent = row]
    /\ candles' = candles - 1
    /\ UNCHANGED <<row, positions, trades, agents, world, history>>

\* processSession reads the open positions and runs the simulator on them.  What
\* onNewCandle makes of each is drawn when it is persisted: nobody else sees it.
LoadPositions ==
    /\ bot.pc = "load"
    /\ \E equity \in Equities :
          bot' = [bot EXCEPT !.pc = "candle", !.equity = equity,
                             !.bal = bot.ent.balance, !.todo = OpenIds,
                             !.sim = [id \in OpenIds |-> positions[id].qty]]
    /\ UNCHANGED <<row, positions, trades, agents, candles, world, history>>

\* processSession returns at once while there are fewer than 50 bars.
TooFewBars ==
    /\ bot.pc = "load"
    /\ bot' = IdleBot
    /\ UNCHANGED <<row, positions, trades, agents, candles, world, history>>

\* Mutant of Quantities: a close is not capped by what is left.
Quantities_Uncapped(q) == 1..(q + 1)

\* What closePart may sell of a position of which q lots are left.
Quantities(q) == IF q = 0 THEN {0} ELSE 1..q

\* closePart: n lots of a position are sold, of which it closes if it held no more.
ClosePart(id, n, pnl) ==
    LET last == n = bot.sim[id]
        left == DOMAIN bot.sim \ (IF last THEN {id} ELSE {})
    IN  [bot EXCEPT !.pc = "trade",
                    !.todo = @ \ {id},
                    !.exit = [id |-> id, qty |-> n, last |-> last, pnl |-> pnl],
                    !.sim = [i \in left |-> IF i = id THEN @[i] - n ELSE @[i]],
                    !.bal = @ + pnl]

\* onNewCandle goes through the positions one after the other, and one position
\* may be sold in several parts: the next exit is of the same or of a further one.
MayExit == DOMAIN bot.sim \cap (bot.todo \cup {bot.exit.id})

\* Mutant of PersistExit: a full close writes the quantity only.
PersistExit_QtyOnly(id, n, pnl) ==
    /\ bot.pc = "candle"
    /\ bot' = ClosePart(id, n, pnl)
    /\ positions' = [positions EXCEPT ![id].qty = IF bot'.exit.last THEN 0 ELSE @]
    /\ UNCHANGED <<row, trades, agents, candles, world, history>>

\* persistTrade, first await: isClosed is written either way, qty only on a
\* full close.
PersistExit(id, n, pnl) ==
    LET last == n = bot.sim[id] IN
    /\ bot.pc = "candle"
    /\ bot' = ClosePart(id, n, pnl)
    /\ positions' = [positions EXCEPT ![id].closed = last,
                                      ![id].qty = IF last THEN 0 ELSE @]
    /\ UNCHANGED <<row, trades, agents, candles, world, history>>

\* persistTrade, second await.
InsertTrade ==
    LET t == bot.exit IN
    /\ bot.pc = "trade"
    /\ trades' = [trades EXCEPT ![t.id].sold = @ + t.qty,
                                ![t.id].finals = IF t.last THEN @ + 1 ELSE @]
    /\ booked' = booked + t.pnl
    /\ bot' = [bot EXCEPT !.pc = "register"]
    /\ UNCHANGED <<row, positions, agents, candles, world, lastRisk, killedDay, entries>>

\* registerTradeResult saves the whole entity.
RegisterExit ==
    LET risk == RegisterTradeResult(bot.ent.risk, bot.exit.pnl, bot.equity)
        ent  == [bot.ent EXCEPT !.risk = risk]
    IN  /\ bot.pc = "register"
        /\ row' = ent
        /\ bot' = [bot EXCEPT !.pc = "candle", !.ent = ent]
        /\ lastRisk' = risk
        /\ killedDay' = IF risk.killSwitchTriggered /\ ~ bot.ent.risk.killSwitchTriggered
                        THEN risk.riskDayStartedAt ELSE killedDay
        /\ UNCHANGED <<positions, trades, agents, candles, world, booked, entries>>

\* All exits are persisted and the strategy is evaluated: no signal, or one on a
\* side.
Evaluate ==
    /\ bot.pc = "candle"
    /\ LET done == [bot EXCEPT !.todo = {}, !.exit = NoExit] IN
       \/ bot' = [done EXCEPT !.pc = "sync"]
       \/ /\ Len(positions) < MaxPositions
          /\ \E s \in Sides : bot' = [done EXCEPT !.pc = "guard", !.side = s]
    /\ UNCHANGED <<row, positions, trades, agents, candles, world, history>>

\* Mutant of MayOpen: the position already open on the side is not looked for.
MayOpen_AnySide(side) ==
    MaxOpenPositions > 0 => Cardinality(OpenIds) < MaxOpenPositions

\* MOM-23 and MOM-22, read from the positions table.
MayOpen(side) ==
    /\ OpenOn(side) = {}
    /\ MaxOpenPositions > 0 => Cardinality(OpenIds) < MaxOpenPositions

GuardEntry ==
    /\ bot.pc = "guard"
    /\ bot' = [bot EXCEPT !.pc = IF MayOpen(bot.side) THEN "risk" ELSE "sync"]
    /\ UNCHANGED <<row, positions, trades, agents, candles, world, history>>

\* ensureDay (saving the entity on a new day), canOpenNewTrade, then the sizing,
\* which may still drop the signal.
CheckRisk ==
    LET fresh == NeedsNewDay(bot.ent.risk, today)
        risk  == EnsureDay(bot.ent.risk, today, bot.equity)
        ent   == [bot.ent EXCEPT !.risk = risk]
        go    == IF Simulation THEN "insert" ELSE "order"
    IN  /\ bot.pc = "risk"
        /\ row' = IF fresh THEN ent ELSE row
        /\ lastRisk' = IF fresh THEN risk ELSE lastRisk
        /\ entries' = IF fresh THEN 0 ELSE entries
        /\ \E pc \in IF CanOpenNewTrade(risk, bot.equity) THEN {go, "sync"} ELSE {"sync"} :
              bot' = [bot EXCEPT !.pc = pc, !.ent = ent]
        /\ UNCHANGED <<positions, trades, agents, candles, world, booked, killedDay>>

\* placeOrder; its errors are caught and the position is persisted all the same.
\* An error (a fault) may hide an order that was executed.
PlaceOrder ==
    /\ bot.pc = "order"
    /\ \/ /\ exchange' = [exchange EXCEPT ![bot.side] = @ + Lots]
          /\ UNCHANGED faults
       \/ /\ "api" \in FaultKinds /\ faults > 0
          /\ faults' = faults - 1
          /\ UNCHANGED exchange
    /\ bot' = [bot EXCEPT !.pc = "insert"]
    /\ UNCHANGED <<row, positions, trades, agents, candles, available, today, history>>

InsertPosition ==
    LET id == Len(positions) + 1 IN
    /\ bot.pc = "insert"
    /\ positions' = Append(positions, [side |-> bot.side, qty |-> Lots, closed |-> FALSE])
    /\ trades' = Append(trades, [sold |-> 0, finals |-> 0])
    /\ bot' = [bot EXCEPT !.pc = "sync",
                          !.sim = [i \in DOMAIN @ \cup {id} |-> IF i = id THEN Lots ELSE @[i]]]
    /\ entries' = entries + 1
    /\ UNCHANGED <<row, agents, candles, world, booked, lastRisk, killedDay>>

\* syncPositions, one await per position of the simulator; isClosed is not among
\* the columns it writes.
SyncPosition(id) ==
    /\ bot.pc = "sync"
    /\ id \in DOMAIN bot.sim
    /\ positions' = [positions EXCEPT ![id].qty = bot.sim[id]]
    /\ bot' = [bot EXCEPT !.sim = [i \in DOMAIN @ \ {id} |-> @[i]]]
    /\ UNCHANGED <<row, trades, agents, candles, world, history>>

\* Mutant of UpdateBalance: the balance the handler loaded is written back.
UpdateBalance_Loaded ==
    /\ bot.pc = "sync"
    /\ DOMAIN bot.sim = {}
    /\ row' = [row EXCEPT !.balance = bot.ent.balance]
    /\ bot' = IdleBot
    /\ UNCHANGED <<positions, trades, agents, candles, world, history>>

\* The last await of processSession; then the lock is released.
UpdateBalance ==
    /\ bot.pc = "sync"
    /\ DOMAIN bot.sim = {}
    /\ row' = [row EXCEPT !.balance = bot.bal]
    /\ bot' = IdleBot
    /\ UNCHANGED <<positions, trades, agents, candles, world, history>>

BotStep ==
    \/ TooFewBars \/ LoadPositions
    \/ \E id \in MayExit, pnl \in Pnls : \E n \in Quantities(bot.sim[id]) :
          PersistExit(id, n, pnl)
    \/ InsertTrade \/ RegisterExit
    \/ Evaluate \/ GuardEntry \/ CheckRisk \/ PlaceOrder \/ InsertPosition
    \/ \E id \in DOMAIN positions : SyncPosition(id)
    \/ UpdateBalance

-----------------------------------------------------------------------------
(* The sync agents: syncSession, wrapped by the cron, by POST reconcile or *)
(* by stop.                                                                *)

botState == <<bot, candles>>

Goto(a, pc) == agents' = [agents EXCEPT ![a].pc = pc]

\* stop saves after its sync; the others are done.
AfterSync(a) == IF a = "stop" THEN "save" ELSE "idle"
Finish(a) ==
    agents' = [agents EXCEPT ![a] =
                  IF a = "stop" THEN [IdleAgent EXCEPT !.pc = "save", !.ent = agents[a].ent]
                  ELSE IdleAgent]

\* The cron takes RUNNING real sessions, one pass at a time (`syncing');
\* stop refuses a STOPPED session; only stop keeps the entity it loaded.
StartSync(a) ==
    /\ agents[a].pc = "idle"
    /\ a \in {"cron", "stop"} => row.status = "RUNNING"
    /\ Simulation => a = "stop"
    /\ agents' = [agents EXCEPT
                    ![a].pc  = IF Simulation THEN AfterSync(a) ELSE "balance",
                    ![a].ent = IF a = "stop" THEN row ELSE NewRow]
    /\ UNCHANGED <<row, positions, trades, botState, world, history>>

\* fetchBalance answers null on an error, and the balance is left alone.
FetchBalance(a) ==
    /\ agents[a].pc = "balance"
    /\ agents' = [agents EXCEPT ![a].pc = "setBalance", ![a].bal = available]
    /\ UNCHANGED <<row, positions, trades, botState, world, history>>

\* The session row takes the balance of the answer.
SetBalance(a) ==
    /\ agents[a].pc = "setBalance"
    /\ row' = [row EXCEPT !.balance = agents[a].bal]
    /\ agents' = [agents EXCEPT ![a].pc = "fetch", ![a].bal = 0]
    /\ UNCHANGED <<positions, trades, botState, world, history>>

FetchPositions(a) ==
    /\ agents[a].pc = "fetch"
    /\ agents' = [agents EXCEPT ![a].pc = "find", ![a].snap = exchange]
    /\ UNCHANGED <<row, positions, trades, botState, world, history>>

\* fetchBalance answers null on an error and fetchPositions an empty list.
ApiFails(a) ==
    /\ "api" \in FaultKinds /\ faults > 0
    /\ faults' = faults - 1
    /\ \/ agents[a].pc = "balance" /\ Goto(a, "fetch")
       \/ /\ agents[a].pc = "fetch"
          /\ agents' = [agents EXCEPT ![a].pc = "find", ![a].snap = [s \in Sides |-> 0]]
    /\ UNCHANGED <<row, positions, trades, botState, exchange, available, today, history>>

\* The positions are read after the exchange has answered.
FindOpen(a) ==
    /\ agents[a].pc = "find"
    /\ IF OpenIds = {} THEN Finish(a)
       ELSE agents' = [agents EXCEPT ![a].pc = "apply", ![a].todo = OpenIds]
    /\ UNCHANGED <<row, positions, trades, botState, world, history>>

\* On to the next position found, or out of syncSession.
Advance(a, id) ==
    LET rest == agents[a].todo \ {id} IN
    IF rest = {} THEN Finish(a)
    ELSE agents' = [agents EXCEPT ![a].pc = "apply", ![a].todo = rest]

\* Mutant of Reconcile: a position the snapshot does not show is left open.
Reconcile_KeepsGone(a, id) ==
    /\ agents[a].pc = "apply"
    /\ id \in agents[a].todo
    /\ positions' = [positions EXCEPT ![id].qty = agents[a].snap[positions[id].side]]
    /\ Advance(a, id)
    /\ UNCHANGED <<row, trades, botState, world, history>>

\* A position the snapshot shows gets its quantity; one it does not show is
\* marked closed (handleExternalClosure, first await).
Reconcile(a, id) ==
    LET qty == agents[a].snap[positions[id].side] IN
    /\ agents[a].pc = "apply"
    /\ id \in agents[a].todo
    /\ positions' = [positions EXCEPT ![id].qty = qty,
                                      ![id].closed = IF qty = 0 THEN TRUE ELSE @]
    /\ IF qty = 0 THEN agents' = [agents EXCEPT ![a].pc = "external", ![a].gone = id]
       ELSE Advance(a, id)
    /\ UNCHANGED <<row, trades, botState, world, history>>

\* handleExternalClosure, second await: a final trade over the original quantity
\* with pnl 0, not registered with the risk manager.
InsertExternal(a) ==
    LET id == agents[a].gone IN
    /\ agents[a].pc = "external"
    /\ trades' = [trades EXCEPT ![id].sold = @ + Lots, ![id].finals = @ + 1]
    /\ Advance(a, id)
    /\ UNCHANGED <<row, positions, botState, world, history>>

\* Mutant of SaveStopped: the status is left as it was loaded.
SaveStopped_Running(a) ==
    /\ agents[a].pc = "save"
    /\ row' = agents[a].ent
    /\ agents' = [agents EXCEPT ![a] = IdleAgent]
    /\ UNCHANGED <<positions, trades, botState, world, history>>

\* stop saves the entity it loaded before its sync.
SaveStopped(a) ==
    /\ agents[a].pc = "save"
    /\ row' = [agents[a].ent EXCEPT !.status = "STOPPED"]
    /\ agents' = [agents EXCEPT ![a] = IdleAgent]
    /\ UNCHANGED <<positions, trades, botState, world, history>>

SyncStep(a) ==
    \/ FetchBalance(a) \/ SetBalance(a) \/ FetchPositions(a) \/ FindOpen(a)
    \/ \E id \in DOMAIN positions : Reconcile(a, id)
    \/ InsertExternal(a) \/ SaveStopped(a)

-----------------------------------------------------------------------------
(* The world.                                                              *)

\* A stop, a target, a liquidation or the user closes lots on Bitget.
ExchangeCloses ==
    /\ \E s \in Sides : \E left \in 0..(exchange[s] - 1) :
          exchange' = [exchange EXCEPT ![s] = left]
    /\ available' \in Balances
    /\ UNCHANGED <<row, positions, trades, bot, agents, today, candles, faults, history>>

NextDay ==
    /\ today < MaxDay
    /\ today' = today + 1
    /\ UNCHANGED <<row, positions, trades, exchange, available, bot, agents,
                   candles, faults, history>>

\* An await of the handler rejects: onCandleClosed logs it and drops the candle.
BotThrows ==
    /\ "db" \in FaultKinds /\ faults > 0
    /\ bot.pc # "idle"
    /\ faults' = faults - 1
    /\ bot' = IdleBot
    /\ UNCHANGED <<row, positions, trades, exchange, available, agents, today,
                   candles, history>>

\* The same for an agent; stop goes on after a failed sync, not a failed save.
AgentThrows(a) ==
    /\ "db" \in FaultKinds /\ faults > 0
    /\ agents[a].pc # "idle"
    /\ faults' = faults - 1
    /\ IF agents[a].pc = "save" THEN agents' = [agents EXCEPT ![a] = IdleAgent]
       ELSE Finish(a)
    /\ UNCHANGED <<row, positions, trades, exchange, available, bot, today,
                   candles, history>>

\* The process dies and comes back: the database and the exchange remain.
Crash ==
    /\ "crash" \in FaultKinds /\ faults > 0
    /\ bot # IdleBot \/ \E a \in Agents : agents[a] # IdleAgent
    /\ faults' = faults - 1
    /\ bot' = IdleBot
    /\ agents' = [a \in Agents |-> IdleAgent]
    /\ UNCHANGED <<row, positions, trades, exchange, available, today, candles, history>>

Next ==
    \/ CandleClosed
    \/ BotStep
    \/ \E a \in Agents : StartSync(a) \/ SyncStep(a) \/ ApiFails(a) \/ AgentThrows(a)
    \/ ExchangeCloses
    \/ NextDay
    \/ BotThrows
    \/ Crash

Spec == Init /\ [][Next]_vars

(* The event loop runs every continuation that is ready and the cron fires *)
(* again and again; candles, requests, the exchange and faults owe nothing.*)
Fairness ==
    /\ WF_vars(BotStep)
    /\ \A a \in Agents : WF_vars(SyncStep(a))
    /\ \A a \in Agents \cap {"cron"} : WF_vars(StartSync(a))

FairSpec == Spec /\ Fairness

-----------------------------------------------------------------------------

BotPcs == {"idle", "load", "candle", "trade", "register", "guard", "risk", "order",
           "insert", "sync"}
AgentPcs == {"idle", "balance", "setBalance", "fetch", "find", "apply",
             "external", "save"}
Exits == [id: Nat, qty: Nat, last: BOOLEAN, pnl: Int]

\* Type invariant of the tables, the actors and the history.
TypeOK ==
    /\ row \in Rows
    /\ positions \in Seq([side: Sides, qty: Nat, closed: BOOLEAN])
    /\ trades \in Seq([sold: Nat, finals: Nat])
    /\ Len(trades) = Len(positions)
    /\ exchange \in [Sides -> Nat]
    /\ available \in Int
    /\ bot.pc \in BotPcs /\ bot.ent \in Rows /\ bot.exit \in Exits
    /\ bot.pc \in {"trade", "register"} => bot.exit.id \in DOMAIN positions
    /\ DOMAIN bot.sim \subseteq DOMAIN positions /\ bot.todo \subseteq DOMAIN positions
    /\ \A id \in DOMAIN bot.sim : bot.sim[id] \in Nat
    /\ bot.bal \in Int /\ bot.equity \in Nat /\ bot.side \in Sides \cup {NoSide}
    /\ \A a \in Agents :
          /\ agents[a].pc \in AgentPcs /\ agents[a].ent \in Rows
          /\ agents[a].bal \in Int /\ agents[a].snap \in [Sides -> Nat]
          /\ agents[a].todo \subseteq DOMAIN positions
          /\ agents[a].gone \in Nat
    /\ today \in Nat /\ candles \in Nat /\ faults \in Nat
    /\ booked \in Int /\ lastRisk \in RiskState
    /\ killedDay \in Nat /\ entries \in Nat

(* MOM-23: a session never has two open positions on one side in the        *)
(* table, although the guard that promises it reads the table two awaits    *)
(* before the row is inserted, sync agents close rows meanwhile, and        *)
(* persistTrade writes isClosed = false for every partial close, reopening  *)
(* what an agent has closed (bot.service.ts:188-195, 293, 336-339).         *)
AtMostOneOpenPerSide == \A s \in Sides : Cardinality(OpenOn(s)) <= 1

(* The row of a running session holds the risk state the risk manager       *)
(* saved last: no writer that saves a stale copy (stop) and no crash ever   *)
(* rewinds it ("persisted so kill switch survives restarts",                *)
(* session.entity.ts:50).                                                   *)
RiskNeverRewound == row.status = "RUNNING" => row.risk = lastRisk

(* An entry is on its way only on a day later than the one the kill switch  *)
(* was last triggered for, whatever was stopped, lost or restarted between  *)
(* the loss and the entry.                                                  *)
KillSwitchHolds ==
    bot.pc \in {"order", "insert"} => bot.ent.risk.riskDayStartedAt > killedDay

Undisturbed == Simulation /\ faults = MaxFaults

(* Paper trading keeps its books: when no candle is being processed, the    *)
(* balance of a running session is its starting balance plus the pnl of its *)
(* trades, every closed position was sold exactly once over in full and     *)
(* every open one holds what has not been sold.                             *)
PaperLedger ==
    Undisturbed /\ bot.pc = "idle" =>
        /\ row.status = "RUNNING" => row.balance = StartingBalance + booked
        /\ \A id \in DOMAIN positions :
              IF positions[id].closed
              THEN trades[id] = [sold |-> Lots, finals |-> 1]
              ELSE trades[id] = [sold |-> Lots - positions[id].qty, finals |-> 0]

(* A paper position ends at most once in the trades table even when the     *)
(* handler dies between any two awaits: the row is closed before the final  *)
(* trade is inserted, so no later candle finds it again (persistTrade).     *)
AtMostOneFinalTrade == Simulation => \A id \in DOMAIN trades : trades[id].finals <= 1

\* Rows are inserted in the order of their ids.
EnteredSinceReset == {id \in DOMAIN positions : id > Len(positions) - entries}

(* MOM-18 counts trades when they close, partial closes included, so more   *)
(* positions than maxTradesPerDay may be opened on a day, but only by those *)
(* still open: whenever an entry of an undisturbed paper session is on its  *)
(* way, fewer than maxTradesPerDay of the positions entered since the day   *)
(* was reset have ended.                                                    *)
DailyEntriesBounded ==
    Undisturbed /\ MaxTradesPerDay > 0 /\ bot.pc \in {"order", "insert"}
        => Cardinality({id \in EnteredSinceReset : positions[id].closed}) < MaxTradesPerDay

(* The cron reaps ghosts: an open row whose side holds nothing on the       *)
(* exchange does not stay open while the session runs, be it a stop the     *)
(* exchange executed, an order that failed after all, or a row reopened by  *)
(* a late partial close (syncSession 71-81).                                *)
GhostsAreReaped ==
    \A s \in Sides :
        []<>(row.status = "STOPPED" \/ OpenOn(s) = {} \/ exchange[s] > 0)

(* A position is marked closed from outside only when the exchange no       *)
(* longer holds it: "Position not found on Bitget -> externally closed      *)
(* (manual, liquidation, SL hit)" (bitget-sync.service.ts:78).              *)
ExternalMeansGone ==
    [][\A a \in Agents : \A id \in DOMAIN positions :
          Reconcile(a, id) /\ ~ positions[id].closed /\ positions'[id].closed
              => exchange[positions[id].side] = 0]_vars

(* A stopped session stays stopped; stop refuses it as "Already stopped"    *)
(* (session.service.ts:100-101).                                            *)
StopIsFinal == [][row.status = "STOPPED" => row'.status = "STOPPED"]_vars

==============================================================================
