# Formal models of the Momentum trading API

Momentum is a NestJS service that trades futures on Bitget: it receives candles
over a WebSocket, runs a strategy on every closed one, opens and closes
positions (on paper, or on a user's Bitget account), and keeps sessions,
positions and trades in PostgreSQL. This directory holds TLA+ models of its
core, TLC configurations that check them on small instances, and proofs that
TLAPS checks for every value of the parameters. Paths below are relative to the
directory that holds `src/`; line numbers are those of the commit the models
were written from.

    tlasany M.tla                             parse a module
    tlc -config X.cfg MC<Module>              check a configuration
    tlapm CandleFeedProofs.tla                check the proofs of a module

`PROJECT.json` is the index: components, runs, the source lines every definition
stands for, a mutant of the code for every property that is checked, what the
runs found, and the hazards the properties are aimed at.

Contents: 1 the system; 2 modules and code; 3 conventions; 4 what the runs show;
5 disagreements found; 6 fairness; 7 bounds; 8 proofs; 9 only model-checked, and
not modelled; 10 plan.

## 1. The system

Everything runs in one Node process, so code between two `await`s is atomic.
Handlers of different events interleave at every `await`; nothing locks the
database, and only three places exclude each other in memory: `processing` (one
candle handler per symbol), `syncing` (one pass of the cron) and `executing`
(one partial close per position).

| Component | State it keeps | Operations |
| --- | --- | --- |
| Candle feed (`bot/bitget-ws.service.ts`) | socket, `reconnectTimer`, `pingTimer`, `snapshotPhase`, `lastClosedTime` per symbol | connect, open, message, close, error, destroy; emits `candle.update` and `candle.closed` |
| Trading loop (`bot/bot.service.ts`) | `processing` | `onCandleUpdate` (store the candle), `onCandleClosed` → `processSession` → `persistTrade`, `openFromSignal`, `syncPositions` |
| Risk manager (`risk/risk-manager.service.ts`) | the risk columns of `sessions` | `ensureDay`, `canOpenNewTrade`, `registerTradeResult`, `getEffectiveRiskPct` |
| Simulator (`bot/simulator.ts`) | balance, equity and open positions, rebuilt from the tables for every candle | `openPosition`, `onNewCandle`, `closePart` |
| Strategy engine (`bot/strategy-engine.ts`, `indicators.ts`) | none | indicators, filters, the signal with its stop and its take-profit plan |
| Exchange reconciliation (`sync/*`) | `syncing`; two caches | `syncSession` every 30 s (cron), on request, and inside `stop`; snapshots for the front end |
| Session lifecycle (`session/*`) | `sessions` | `start`, `stop`, reads |
| Position manager (`bot/position-manager.service.ts`) | `executing` | `onModuleInit`, `onMarkPriceUpdate`, partial closes with retries, break-even stop, safety close, `maybeUnsubscribe` |
| Mark-price feed (`bot/bitget-markprice-ws.service.ts`) | socket, subscriptions, price cache | subscribe, unsubscribe, message |
| Bitget client (`bot/bitget-client.service.ts`) | none | market orders, stop and target orders, queries |
| Candle storage (in `bot/bot.service.ts`) | `candles` | upsert of every update, `loadBars` |
| Strategy configuration (`strategy/*`) | strategies, overrides, take-profit templates | seed, create, update, remove, duplicate, `resolveConfigForSymbol` |
| Users, authentication, query endpoints | `users`, logs | requests and responses |

How they meet: the feed emits `candle.closed` on the event bus; the trading loop
takes the running sessions of the symbol one after the other; for each it loads
the session and its open positions, lets the simulator run, persists the exits,
registers each with the risk manager, asks the strategy for a signal, asks the
risk manager for permission, orders on Bitget (real sessions), inserts the
position, and writes quantities and balance back. Meanwhile the cron, a
`POST reconcile` or a `stop` may write the same rows, Bitget may close anything,
any call may fail, and the process may die. At this commit the position manager
is in no module's providers and nobody calls `registerPosition`; it is modelled
all the same, as its handlers are complete and the code most exposed to
interleaving.

What is hard to get right here, and what correctness means:

* **Risk.** Long mixes of wins, losses, days and restarts must not let a killed
  session trade, nor leave the streak, the reduced size and its recovery out of
  step. Writers that save a whole stale entity must not rewind them.
* **Positions.** One per side although the guard reads the table two awaits
  before the insert, partial closes rewrite `isClosed`, and sync agents close
  rows in between. Rows without a position on Bitget must not block a side for
  ever; a position on Bitget must not lose its row.
* **Books.** Balance, trades and quantities must add up over every order of
  exits; a crash must not end a position twice, and what it makes the program
  forget must stay within what was bought.
* **Feed.** A candle triggers trading once, in order, only when it is closed and
  only when it is live, over any number of reconnects that repeat old candles.
* **Partial closes.** Two prices handled at once, retries of orders whose answer
  was lost, quantities written from rows loaded long before: no target sold
  twice, no exposure the table does not show, no lock left behind.
* **Candles.** Every update of a candle is stored by a handler of its own, so they
  overtake each other; the bars a strategy sees must not depend on the order.
* **Entries.** An entry is a chain of calls to Bitget and to the database, each of
  which may fail in its own way, on a configuration that a request may be
  rewriting row by row: no target too many, no piece lost without a failure.
* **Subscriptions.** What the position manager wants, what was sent and what
  Bitget serves are three things; they must agree again after every reconnect.

## 2. Modules and code

| Module | What it models | Code |
| --- | --- | --- |
| `RiskRules` | `ensureDay`, `canOpenNewTrade`, `registerTradeResult` as operators on the risk columns; limits as CONSTANTS (null and any value <= 0 both mean "disabled" to the code, so both are a value <= 0) | `risk-manager.service.ts` |
| `RiskManager` | those rules over the life of one session row, called in the order of `processSession`; the clock moves between any two calls | plus `bot.service.ts` 98-261 |
| `TradingGate` | abstract specification of the risk manager: a gate that, once halted, opens on a later day only | – |
| `RiskManagerProofs` | theorems about `RiskManager` | – |
| `TradingSession` | one session and all its writers, await by await: candle handler, cron, HTTP reconcile, stop, exchange, midnight, failed awaits, failed exchange calls, crash. Uses `RiskRules` for the risk columns | `bot.service.ts`, `bitget-sync.service.ts` 42-109 and 190-308, `sync-scheduler.service.ts`, `session.service.ts` 35-115 |
| `TradingSessionProofs` | theorems about `TradingSession` | – |
| `CandleFeed` | the socket, its timers, the snapshot phase and the duplicate filter against an exchange that sends snapshots and live rows | `bitget-ws.service.ts` |
| `CandleFeedProofs` | theorems about `CandleFeed` | – |
| `TakeProfitPlan` | `normTpl`, `fromTpl`, `buildTps` and the simulator's `normalizeTargets` as functions of a template | `strategy-engine.ts` 172-255, `simulator.ts` 146-162 |
| `Simulator` | one position from its inserts to its exit over any closing prices, await by await: exits, fees and targets, the writes around them, the syncs of a real session, failures and crashes | `simulator.ts`, `bot.service.ts` 98-177, 282-304 and 335-393, `bitget-sync.service.ts` 61-92 and 281-308 |
| `SimulatorProofs` | theorems about `Simulator` | – |
| `CandleStore` | the upsert of every row of a candle by concurrent handlers, the symbol's lock, and the bars each session is evaluated on | `bot.service.ts` 29-92, 98-154, 395-406 |
| `CandleStoreProofs` | theorems about `CandleStore` | – |
| `StrategyConfig` | the template rows of a strategy and its override under seed, create and concurrent updates, statement by statement, and what a candle may read of them | `strategy.service.ts` 51-150, `strategy.entity.ts`, `symbol-override.entity.ts` |
| `EntryOrder` | one entry: configuration, plan, `placeOrder`'s calls, the inserts, with a failure or crash at each | `bitget-client.service.ts` 123-265, `bot.service.ts` 252-304 |
| `EntryOrderProofs` | theorems about `EntryOrder`, `StrategyConfig` and `TakeProfitPlan` | – |
| `MarkPriceFeed` | the second WebSocket: subscriptions, commands on their way, cache, reconnects | `bitget-markprice-ws.service.ts` |
| `MarkPriceFeedProofs` | theorems about `MarkPriceFeed` | – |
| `PositionBook` | abstract specification of a position: sold in parts, each at the stop in force or better, the stop only tightening, and what failures and the exchange's numbers may set back | – |
| `PositionManager` | mark-price handlers side by side, await by await | `position-manager.service.ts`, closing orders of `bitget-client.service.ts` |
| `PositionManagerProofs` | theorems about `PositionManager` | – |
| `MC*` | values of the CONSTANTS for TLC | – |

**RiskManager.** `risk` is the record of the risk columns. `Candle` gives the
equity, `RegisterResult` is `registerTradeResult` for a closed trade (partial or
final), `ExternalClose` is what `handleExternalClosure` does to the risk columns
(nothing) while a position goes, `NoSignal` ends the candle before `ensureDay`
is reached, `SignalDay` is `ensureDay`, `OpenTrade` and `DropSignal` are the two
answers after it. `entries`, `lastWinAt` and `closedToday` are history.

**TradingSession.** `bot.pc` names the await the candle handler is at: `load` (the
session is read, the positions are next), `candle` (the simulator has run; an exit
is persisted, or the strategy evaluated when there is none left), `trade` and
`register` for the exit under way, `guard`, `risk`, `order`, `insert`, `sync` (one
await per position and one for the balance). `bot.ent` is
the entity it carries; `update(id, columns)` writes columns, `save(entity)`
writes the entity, stale columns included, which is the point of most
interleavings here. An agent's `pc` does the same for `syncSession`: it asks for
the balance, writes it, asks for the positions, reads the open rows and walks
through them, two awaits for each one that is gone. `stop` is an agent that keeps
the entity it loaded across its sync and saves it afterwards. Which exits a
candle yields is left open (any number of parts of every position, at most what it
holds, in any order of the positions), as is whether the strategy signals. The
simulator runs without an await and nobody else sees its result, so each exit is
drawn where it is persisted.

**CandleFeed.** A candle is its number. The exchange sends per connection, in
any order over the symbols, a snapshot of the candles closed so far and then live
rows, in progress or confirmed. `Receive` is `onCandleData` on one row, in the
order of the code: the phase is looked at and possibly ended, `isNew` is computed
from `lastClosedTime`, the map is updated, `candle.update` and `candle.closed`
are emitted. `Open`, `Drop`, `CloseCompletes`, `Reconnect`, `Destroy` and
`Restart` are the connection.

**Simulator.** Prices, lots and fees are integers chosen so that the divisions of
the code are exact; the tolerances of 1e-10 become equalities. `pos` is the row
with its targets' rows, `sim` the handler's private copy, loaded by `Load`; `pc`
is the await the handler is at. `onNewCandle` works on the copy alone, so each
exit is taken where `persistTrade` writes it: `TakeTarget` (a round of the target
loop), `LeavePart` and `LeaveRest` (the exit at the stop or the take profit) write
`isClosed`, `InsertTrade` the trade. `SyncPosition` and `SyncTarget` are
`syncPositions`, which walks through the open positions of the copy only: a
closed one keeps its fees and its targets' rows as they were (`Finish`). `SaveTarget`
inserts the targets of a new position one by one. An agent is a sync of a real
session: `FindOpen` reads the row, `Reconcile` writes Bitget's size and stop,
`CloseRow` and `InsertExternal` are `handleExternalClosure`, with its trade of
`originalQty`. `HandlerThrows`, `SyncThrows` and `Crash` come between any two
awaits. The plans are a CONSTANT, `Plans`, of which only what `normalizeTargets`
gives any plan is assumed: there are targets, with a price and a quantity, none
filled (`SimulatorAssumption`). A plan all of whose targets are beyond the entry
is `Sound`; what rests on that says so.

**CandleStore.** `market` is the true candle, `table` what the handlers have made
of it. A row on its way to the table is a member of `storing`, so `StoreCandle`
takes them in any order; a closed one then waits in `checking` for the symbol's
lock, which `Begin` takes and `Skip` finds taken (the `processing` set). A worker
is a handler inside the lock with the sessions it has still to do; `Release` is
the `finally`. `Evaluate` is `loadBars` in `processSession`: it reads the table of
that moment.

**StrategyConfig and EntryOrder.** An update request is the list of statements it
runs, one `Execute` each: the strategy's own columns (of which `tp` holds
`tp1Ratio`, `tp1RMultiple` and `tp2RMultiple`, any integers, as no pipe validates
the body and `buildTps` does not look), then for each list in the request a delete of all rows and one insert per row. `Reject` and a crash cut it
short, as they may cut short the seed or the creation in `Init`. `Resolved` is
every list a candle may find. `EntryOrder`'s handler reads it once, in `Signal`,
and runs through `placeOrder` (incomplete keys, hedge mode, leverage, market order, stop, target)
and the inserts; `pc` is the await it is at. The requests commute with everything
after `Signal`, which reads none of their tables, so `Configure` lets them run
before it only. `openFromSignal` passes no `tpTargets`, so a real position has one
target on Bitget, the last price of the plan at full size; `fetchAndStoreLiqPrice`
looks for a row that is inserted after it and stores nothing.

**MarkPriceFeed.** `conn` is the socket as its events show it, `subscribed` the set
of the service, `up` the commands on their way, `served` what Bitget sends on this
connection. A refused command is only counted (`refused`): the service has no case
for the `error` event.

**PositionManager.** `handler[h].pc` names the await a handler is at; `todo` and
`qty` are what it loaded, `list` the targets it loaded. Every position has an account of its
own, and what an order may do there is the external part: one larger than what is
held, or of size 0, is refused. `sold`, `cut` and `dust`
are history: how often an order for a target was executed, which targets a
failure cut short, what truncation to the size step kept back. A lost answer
(`"lost"`) is an order executed although the attempt throws.

Modules are composed three ways: `RiskManager` and `TradingSession` share
`RiskRules`, so the risk code is written down once; `EntryOrder` extends
`TakeProfitPlan` and `StrategyConfig`, so the plan of an entry is computed from
whatever a candle reads while requests rewrite it; `Simulator` assumes of a plan no
more than `EntryOrder` guarantees (`EntryTypes`), and `MCSimulator` gives it the
plans that `TakeProfitPlan` computes from templates and columns. Refinements are stated with `INSTANCE ... WITH`:
`RiskManager!GateSpec` and `Simulator!BookSpec`.

## 3. Conventions

* One action per stretch of code between two awaits, or per handler where nothing
  is awaited. An action's first conjunct says where its actor is.
* History variables are listed apart, and no guard reads them.
* Faults are actions with a budget (`faults`, `trouble`), so that a run says how
  many it allows; the kinds are chosen in the `.cfg`.
* Definitions named `X_Something` are mutants of `X`: the same operator with one
  plausible bug. No specification uses them. Replacing `X` by its mutant makes the
  property named in `PROJECT.json` fail; it is how each property was shown to
  depend on the code.
* What the code does not decide is left open: pnl, equity, signals, the order in
  which the database returns rows.

## 4. What the runs show

| Run | Configuration | Distinct states | Result |
| --- | --- | --- | --- |
| `risk_manager` | `MCRiskManager.cfg` | 1.0 M | holds |
| `paper_session` | `MCPaperSession.cfg` | 0.9 M | holds |
| `real_session` | `MCLiveSession.cfg` | 0.4 M | holds |
| `candle_feed` | `MCCandleFeed.cfg` | 70 k | holds |
| `simulator` | `MCSimulator.cfg` | 0.5 M | holds |
| `position_manager` | `MCPositionManager.cfg` | 175 k | holds |
| `candle_store` | `MCCandleStore.cfg` | 209 k | holds |
| `entry` | `MCEntryOrder.cfg` | 6.2 M | holds |
| `mark_prices` | `MCMarkPriceFeed.cfg` | 13 k | holds |
| `risk_day`, `external_closure`, `stopped` | one property each | – | violated, section 5 |

**risk_manager.** The loss streak is exact (`LossStreakExact`), a streak long
enough is always braked and the recovery counter belongs to a recovery in
progress (`BrakeExact`), the size is raised only when that was
earned (`RaiseIsEarned`), and the kill switch implements `TradingGate`
(`GateSpec`).

**paper_session.** With a concurrent stop, a midnight and one crash or rejected
await: the saved risk state is never rewound under a running session (`RiskNeverRewound`), no entry
happens on a killed day whatever was lost in between (`KillSwitchHolds`), no
position ends twice in the trades table even if the handler dies between any two
awaits (`AtMostOneFinalTrade`); and, without faults, balance, trades and
quantities add up (`PaperLedger`). Of the positions entered since the day's reset
fewer than `maxTradesPerDay` have ended whenever an entry is on its way
(`DailyEntriesBounded`; the code counts trades when they close, so the entries of
a day may exceed the limit by those still open, but positions carried over from
the day before buy none).

**real_session.** With the cron reconciling at the same time, the exchange closing
lots when it likes, and one crash, failed await or failed exchange call: at most
one open row per side (`AtMostOneOpenPerSide`), although sync agents close rows
and partial closes reopen them between the guard and the insert. `GhostsAreReaped`: under the fairness of section 6, a row
whose side holds nothing on Bitget does not stay open for ever; it covers orders
that failed while the row was inserted all the same, and rows that a late partial
close reopened.

**candle_feed.** The feed is never ahead of the market (`EmitsOnlyClosed`), emits
each candle once and in order between two starts (`EmitsInOrder`), never swallows
a live candle once the snapshot phase of a connection is over
(`LiveCandlesTrigger`), and always comes back (`FeedComesBack`). That it has
exactly one way back to a connection and leaves no timer when destroyed is proved
(`TimersFollowConnection`, section 8).
`LeakNeedsAnotherSymbol` is what remains of the promise about snapshots: a
snapshot row gets through only after another symbol's row ended the phase.

**simulator.** From plans of every shape, with one failure or crash at any await
and a sync beside the handler: `QtyConserved`, in every session, says that the
targets' rows are a prefix of filled ones and never count more than the trades
inserted; of a paper session also that no lot is held and counted as sold, that
held and sold add up to what was bought as long as nothing fails, that a failure
makes the program sell at most what it held once more, and that fees follow the
lots. `RiskFreeAfterFirstTarget`: once the first target's row is hit a paper
position has its stop at the entry, however candles are cut short, and, if its
plan is sound and nothing failed, it is in profit. `BookSpec`: the simulator and
the writes around it implement `PositionBook`, which says what a failure may set
back and that the exchange's numbers may replace those of a real position. Of the
quantities of a real session nothing else is claimed, since nothing else is true
(section 5).

**position_manager.** With refused and lost orders, failing database calls,
restarts and closes on Bitget: the lock excludes (`OneExecutor`), the table never
shows less than Bitget holds but for truncation (`TableBoundsExchange`), a closed
row stays closed although `isClosed` is written from stale rows
(`ClosedStaysClosed`), open rows keep their subscription (`OpenIsWatched`; both
while truncation has kept back less than a size step, see section 5), a mark
that stays was sold unless a failure cut the execution short (`HitMeansSold`),
and no lock stays taken (`LocksAreReleased`).

**candle_store.** In whatever order the rows of a candle reach the table, late,
repeated or lost ones included, its high and low never leave the true range and
are exact once its closed row is stored (`ExtremesExact`; no such claim holds of
`close`, see section 5). A session is evaluated only on bars that hold the closed
candle with its final range (`EvaluatesItsCandle`). The lock is given back however
the handler ends (`LockIsReleased`).

**entry.** Whatever mixture of rows a candle reads, half a template, none or two
interleaved ones, the targets it trades on sell exactly what was bought, at prices
on the profitable side; only a column `tp1RMultiple` or `tp2RMultiple` that is not
positive can put one at or behind the entry (`PlanCovers`). Every piece missing at the end (a stop, a
target, the leverage, the row, some targets, the position of a row) was lost at
the very call that makes it, or in a crash (`DamageIsLocal`): no failure elsewhere
in the chain costs a position its stop.

**mark_prices.** On an open connection the last word about a symbol is what is
wanted (`ServedAsWanted`), and a symbol that stays wanted, or unwanted, ends up
served, or silent (`FeedSettles`), over breaks and reconnects; both but for refused
commands.

## 5. Disagreements found

Each is a run in which TLC finds the property violated by what the code does; the
property is what the quoted text says.

1. `risk_day`: `ensureDay` is commented "Called at the start of processSession"
   (`risk-manager.service.ts:32`), but it is called from `openFromSignal` only.
   Trades closed on a new day before its first signal are counted on the old day
   and wiped by the reset, a kill switch they triggered included.
2. `external_closure`: `syncSession` asks Bitget first and reads the rows
   afterwards (63, 67), so a position opened in between is "externally closed"
   (78) while Bitget holds it. A failed request, answered by an empty list (224),
   does the same.
3. `stopped`: a candle handler that loaded the session before `stop` saves it
   afterwards, status RUNNING included; the session trades on.

Observed while modelling, without a run of its own:

* Exits of real sessions come from the candle simulation and close the row
  without an order; the guard, which "reads DB (source of truth for real
  sessions)" (`bot.service.ts:188`), then lets the next signal add to a position
  Bitget still holds.
* `snapshotPhase` is one flag for all symbols: one symbol's live row lets another
  symbol's late snapshot trigger sessions (`bitget-ws.service.ts:49-50` promises
  the opposite). `LeakNeedsAnotherSymbol` says that this is the only way.
* An exit's trade is inserted at once, but the quantity and the targets' rows are
  written at the end of the candle (`bot.service.ts:156-172`). A crash in between
  leaves the part in the row: the next candle sells it again, and the first
  sale never reaches the balance. `QtyConserved` bounds it.
* `handleExternalClosure` inserts a trade of `originalQty`
  (`bitget-sync.service.ts:294`), also of a position sold in part before.
* `syncPositions` writes the quantity loaded before the candle over what a sync
  has written meanwhile (`bot.service.ts:376-384`), a partial close reopens a row a
  sync has closed (338), and `processSession` likewise overwrites a balance written
  meanwhile (173). All of it in real sessions only: the properties about
  quantities and balances speak of paper sessions where they need to.
* The cron writes the price of Bitget's stop order, the one of the entry, over the
  stop the simulator has moved to the entry (`bitget-sync.service.ts:88-91`).
  `PositionBook!Resync` allows just that.
* `normTpl` skips template entries with R-multiples that are not positive
  (`strategy-engine.ts:251`); `buildTps` (178-180) does not look at `tp1RMultiple`
  and `tp2RMultiple`, which `PATCH /strategies/:id` takes unvalidated. A value <= 0
  puts a target at or behind the entry: the next candle "takes profit" at a loss.
* Targets are loaded before the lock and not looked at under it, so marking a
  target "immediately to prevent double execution"
  (`position-manager.service.ts:157`) does not keep a second handler from selling
  it again.
* Truncation can leave a whole size step on Bitget under a closed row: with rows
  of 6 units, two targets of 3 and a step of 2, each sale leaves 1. A second
  handler that loaded the row before it was closed then still sells, and writes
  its own remainder, which reopens the row. `ClosedStaysClosed` and
  `OpenIsWatched` therefore speak of `LittleDust`, and hold of nothing more.
* External closures carry pnl 0 and are not registered as losses.
* Every part of a position counts as a trade, so one stop after a partial close
  ends a streak that a whole close would continue.
* A row is created without `trailingOffset`, so the trailing stop is unreachable,
  and `liqPrice` is never stored at entry.
* A candle that closes while the previous one of its symbol is processed, or while
  the connection is down, is stored but not traded. An older update stored late
  overwrites `close` of the final candle.
* A refused mark-price subscription is never retried, and a price on its way when
  a symbol is unsubscribed is cached again.
* `create` ignores `symbolOverrides`; an update adds an override that carries no id
  every time it is sent.

## 6. Fairness

* `TradingSession`: weak fairness of the candle handler and of every sync agent
  that has started (the event loop runs a continuation that is ready, and every
  call the code awaits resolves or rejects), and of the start of the cron
  (`@Cron` every 30 s). None of candles, requests, exchange or faults.
* `CandleFeed`: weak fairness of timers, of the end of a connection attempt, of
  the delivery of what has arrived, and of the snapshot the exchange sends on a
  subscription. The exchange's candles, drops and restarts are free, and drops
  are finitely many: a connection that never stays up is not the service's doing.
* `PositionManager`: weak fairness of the steps of each running handler taken
  together: whichever way an awaited call goes, the handler goes on. Attempts to
  send an order are bounded by `MAX_RETRY`, so a handler ends. Mark prices, closes
  on Bitget, failing databases and restarts are free.

* `CandleStore`: weak fairness of the handlers inside the lock: what they await
  returns or throws. Upserts, rows and restarts are free.
* `MarkPriceFeed`: weak fairness of the end of a connection attempt, of close
  events and the reconnect timer, and of Bitget's carrying out a command. Calls,
  prices and breaks are free, and breaks finitely many.

The runs that check only safety use `Spec`, without fairness.

## 7. Bounds

Every bound is a CONSTANT with the word "bound" in its comment.

* `risk_manager`: 3 days, 5 results and 2 entries between resets; streak limits of
  2 and 3, a recovery of 2 wins: every counter reaches its limit, is reset, and
  goes on, and a day can change in every phase. Pnls are a loss, a scratch and a
  win; equities are none, inside and beyond the drawdown limits.
* `paper_session`: 3 candles, 3 positions of 2 lots on 2 sides, 2 days, 1 fault;
  `maxTradesPerDay` 2 and `maxOpenPositions` 2. Two lots are the least that can be
  closed in part; with three candles one position is opened, sold in part, closed
  and followed by another while the stop runs at any point.
* `real_session`: 2 candles and 2 positions on one side; the cron repeats without
  bound. Crash, database and exchange faults are all possible, one per behaviour.
* `candle_feed`: 2 symbols, 2 candles each after the one already closed, 2 rows
  in flight besides a snapshot, 2 drops, failed attempts or restarts: a snapshot
  can arrive after another symbol went live, on the first and on a later
  connection. The theorems of section 8 lift these bounds.
* `simulator`: 4 lots, five closing prices at, between and beyond every stop and
  target of either side, plans of every shape: one target, several, out of order,
  one with a price of 0 for a short, one behind the entry. One sync at a time, which
  may find 1 or 5 lots on Bitget, and one failure or crash: enough for a sync
  within a candle and for every await at which the handler can stop. Candles are
  without bound. One position is enough, as positions share only the balance. The
  theorems of section 8 lift these bounds.
* `position_manager`: 2 positions, 2 handlers, 2 outside events (prices or closes
  on Bitget), 2 attempts instead of 5, 1 fault. Rows of 5 units with a size step of
  2 make truncation matter, one target too small to be sold leads to the safety
  close, and one is out of reach.
* `candle_store`: 3 candles, prices 1 and 2 (a range is one price or both), 3 rows,
  2 sessions, 1 lost or repeated row, failed await or restart, and 2 bars instead
  of 50 before a session is evaluated: two handlers of one candle and two closed
  candles meet at the table and at the lock.
* `entry`: one entry of 4 lots with a size step of 3; three lists of rows (none,
  one that sells too little, one that sells too much and has a target a short
  cannot reach); columns that put the first target behind the entry; two update
  requests, which interleave, and one failure or crash.
* `mark_prices`: 2 symbols, 5 calls, 2 breaks or refusals, 1 price of each symbol
  on its way. The theorems of section 8 lift these bounds.

## 8. Proofs

Eight modules hold theorems; they prove for all values of the constants, subject
only to the named assumptions of the modules (`RiskLimitsAssumption`,
`RiskManagerAssumption`, `TradingAssumption`, the `FeedAssumption` of either feed,
`StoreAssumption`, `ManagerAssumption`, `ConfigAssumption`, `PlanAssumption`,
`EntryAssumption`, `SimulatorAssumption`), which TLC evaluates on every run. Every
invariant and every action property that a passing run checks is stated by a
theorem, and so are both refinements; every inductive invariant was confirmed with
TLC, on the instances of the runs, before it was proved.

**RiskManagerProofs.** What the three functions of the service do to the risk
columns is stated in lemmas about the operators of `RiskRules`
(`EnsureDayEffect`, `AfterLossEffect`, `AfterWinEffect`, `RegisterEffect`). With
them

    IInv == TypeOK /\ LossStreakExact /\ BrakeOnStreak /\ RecoveryPending

is inductive (the run checks the last two as one, `BrakeExact`). The properties need no strengthening beyond `TypeOK`, which
makes the counters naturals and keeps the multiplier within 1..100 %; what needs
proof is that no path through the nested conditions of `registerTradeResult`
disturbs one of them: a loss must lower the multiplier in the very step in which
the streak becomes long enough, a win must end the streak in the step in which
it may raise the multiplier, and the counter must go back to 0 with the raise.
`TypeCorrect`, `StreakIsExact`
and `BrakeIsExact` are its conjuncts. `RaisesAreEarned` and
`ImplementsGate` follow action by action from `IInv` in the states before and
after: for the refinement, a result may set the switch (`Halt`) or not
(stutter), a new day is `StartDay`, an entry is `Enter`, since `canOpenNewTrade`
looked at the switch in the same step.

**TradingSessionProofs.** `Typed` is `TypeOK` sorted by owner, with what the awaits
need to refer to: the ids a handler or an agent carries are rows of the table
(`TypesHold`). Four invariants are proved on top of it, each for all interleavings
of the handler, the sync agents, `stop` and the faults:

* `RiskInv == RiskNeverRewound /\ EntityIsNewest /\ SwitchIsRemembered /\
  EntryIsCleared`. The row alone says nothing of what the handler will save, so
  `EntityIsNewest` says it of the entity; the row may be older only once it is
  stopped. `EntryIsCleared` carries what `canOpenNewTrade` found across the awaits of
  the order and the insert, which is where `KillSwitchHolds` could break.
  (`RiskIsNeverRewound`, `TheKillSwitchHolds`)
* `OneHeldPerSide`. Open rows alone are not enough: while exits are persisted, a
  partial close writes `isClosed = false` on whatever the row has become. So the rows
  that may still be reopened count as held too, and from the risk check to the insert
  the side has no open row: no agent opens one. (`OneOpenPerSide`)
* `OnlyStopRuns`, `SimIsOpen` and `FinalsOnce`, for paper sessions: the only agent is
  a stop that saves, what is simulated is open, and an open position has no final
  trade, a crash between its row and its trade included. (`OneFinalTrade`)
* `BooksBalance` and `QuantitiesBalance`, for paper sessions without a fault: where
  the balance is at every await (row, entity or simulator, with the trade under way),
  and of every position what is sold, pending and left. For the entries of a day the
  history keeps which positions were entered since the reset, and `EntriesCounted`
  counts those of them that have ended (`EndedSinceReset`) and adds the one that has
  ended and is not registered yet; what older positions do can only raise the
  trade count.
  (`TheLedgerBalances`, `DailyEntriesAreBounded`)

**CandleFeedProofs.** What `Receive` does depends on rows sent long before, so the
invariant is about the wire:

    IInv == TypeOK /\ OneWayBack /\ EmitsOnlyClosed /\ ConnFits
            /\ WireFits(wire, closed, snapDue, lastClosed, endedBy)

`ConnFits` says what a connection's state implies (nothing in flight while it is
down; `snapshotPhase` is exactly "nobody ended it on this connection").
`WireFits` says that a row in flight is of a symbol whose snapshot has been sent,
is not ahead of the exchange, and, if it is live and closed, is newer than what
the service recorded; that a symbol's snapshot rows precede its live rows; that
its live closed rows ascend; and that a symbol that ended the phase has no
snapshot row left. `EmitsOnlyClosed` alone is not inductive (the row about to
arrive must not be ahead), `LiveCandlesEmitted` needs the comparison with
`lastClosed`, and `OwnRowsNeverLeak` the last conjunct. The lemmas `AppendRow`,
`TakeRow` and `AppendSnapshot` reduce sending and receiving to indices.
`FeedTypes`, `NeverAheadOfMarket` and `TimersFollowConnection` are conjuncts of
`IInv`; `EmissionsAscend`, `LiveCandlesEmitted` and `OwnRowsNeverLeak` are the
action properties. `IInv` was confirmed with TLC before it was proved.

**MarkPriceFeedProofs.** `IInv == TypeOK /\ ServedAsWanted /\ StartsEmpty`, where
`StartsEmpty` says that nothing is on its way, served or refused while a
connection is being made. `ServedAsWanted` alone is not inductive: when the
connection opens, the last word about a symbol nobody wants is what Bitget serves
already, and only `StartsEmpty` says that this is nothing. The lemmas
`LastAppended` and `LastOfTail` reduce the queue of commands to its last element.
`MarkFeedTypes` and `SubscriptionsFollow` are the conjuncts.

**CandleStoreProofs.**

    IInv == TypeOK /\ StartedAtOne /\ OneInLock /\ RowsFit /\ FinalFirst /\ ExtremesExact

`RowsFit` says of every row on its way what `ExtremesExact` says of the table: it
lies within the candle's range, and a closed one has all of it; without it a row
about to be stored could spoil the table. `OneInLock` (one handler inside exactly
while `processing` holds the symbol) and `FinalFirst` (who waits for the lock or is
inside has stored its closed candle) give `EvaluatesItsCandle`: the newest bar is
not older than the handler's candle. That a newest bar exists
is a fact about finite sets of numbers (`NewestExists`), taken from the
well-foundedness of `<`. `StoreTypes` and `StoredRangesAreExact` are conjuncts,
`SessionsSeeTheirCandle` is the action property.

**PositionManagerProofs.**

    IInv == TypeOK /\ HandlersTyped /\ Covers /\ LockExact /\ MarkIsBacked

`TableBoundsExchange` is not inductive, as rows are written from quantities loaded
long before. `Covers` adds that every quantity a handler carries, in its list or
for the position under way, covers what Bitget holds plus what was sold and not
written yet. What Bitget holds only shrinks and the dust only grows
(`ShrinkStep`), so a stale quantity still covers: the table's bound needs no lock,
only that quantities are written after the sale. `LockExact` is `OneExecutor`
without cardinalities (`LockCounts`); `MarkIsBacked` names the handler that
answers for a mark without a sale. `ManagerTypes`, `OneExecutorPerPosition`,
`TableBounds` and `MarksAreSales` follow. A second invariant, `Sealed`, rests on
the first: a closed row shows nothing, so by `Covers` an order for it fits only
what truncation left (`NoSaleWhenClosed`); hence while that is less than a step
nothing is sold of a closed row, `WriteQty` never reopens one, and a count of no
open row still holds when the subscription is cancelled. That gives
`ClosedRowsStayClosed` and `OpenRowsAreWatched`. The parts of both invariants that
are not types hold in TLC too, on the values of the run and on rows of 6 units with
targets of 3.

**EntryOrderProofs.** `normTpl`, `fromTpl` and `normalizeTargets` are loops, modelled
as folds. What a fold computes is proved for every list, without an induction
theorem that takes an operator: the values of an iteration form a set that holds the
base and whatever follows a member, and such a set holds all of them by the
least-element theorem `WFMin` (`SetInduction`, `FoldExists`, `PrefixIn`). With it,
normalised entries never claim more than the whole, and the rest that `fromTpl` and
`normalizeTargets` add makes the targets sell exactly what was bought, whatever rows
the overlapping requests have left. A price on the wrong side comes from a column
that is not positive or not at all: `normTpl` skips such entries of a template, and
nothing is assumed of the columns. `EntryInv ==
ConfigTyped /\ Typed /\ Staged /\ Accounted` is the invariant. `Typed` holds the
claim about the plan; `Staged` says what does not exist yet at each await;
`Accounted` puts everything that is missing down to a call that failed, two calls
before it shows if need be: an order is refused because the hedge mode was not set.
`EntryTypes`, `PlansCover` and `DamageStaysLocal` follow.

**SimulatorProofs.** The rows, the handler's copy and the trades are apart between
any two awaits, so the invariant says by how much, in terms of the number of targets
that each of them has behind it:

    SimInv == Typed /\ (Sound => Priced)
              /\ \E n \in 0..Len(plan) : \E h \in 0..n : \E g \in h..n : Ledger(n, h, g)

where `n` of the plan's targets have rows (a failure while they are inserted cuts
them off), the first `h` rows are hit, and the copy has `g` of its targets filled.
`Shaped` says that the rows and the copy are the plan so marked; `Counted`, that
what they say was sold has its trades, the one under way included; `Paper`, what a
paper position's row and copy hold at most, and their fees by the lot; `Smooth`, the
same as equations while nothing has failed; `Freed`, that the stop is at the entry
in every row and copy that shows the first target, which holds since the position's
row is written before the targets' rows; `Profit`, that each lot gained at least
one, so that a later target cannot undo it; `Priced`, that the part under way
yields what the stop in force would have. A sale moves `g` (`Sale`, the common part
of the three exits), `SyncTarget` moves `h`, `SaveTarget` moves `n`, and a failure
forgets `g`. Fees are proved by the lot: the entry fee and the minimum fee are
multiples of a fee per lot (`LotFees`), so the shares of any split add up
(`Shares`). `SimulatorAssumption` chooses the unit of money so that the minimum fee
divides evenly, as the code divides in floating point. Of targets only their types
are assumed.

`RowTypes`, `LotsAreConserved` and `FirstTargetFreesOfRisk` follow from `SimInv`. For
`SimulatorKeepsTheBook`, what is in hand does not change in an exit but when its
trade is inserted: `InsertTrade` is a `Sell`, an exit a `Sell` of nothing that may
tighten the stop, a failure a `Cut`, the writes of a sync a `Resync`, and so is the
end of a candle of a real session, whose row a sync may have changed.

## 9. Only model-checked, and not modelled

Only model-checked: the liveness properties (`GhostsAreReaped`, `FeedComesBack`,
`LocksAreReleased`, `LockIsReleased`, `FeedSettles`), since the prover does not handle
fairness and ENABLED; and the three violations of section 5, which are
counterexamples.

Not modelled: the arithmetic of indicators and filters (a signal is a free
choice), sizing and estimated profit (they may only drop a signal), opening price
and volume of candles, evaluations and logs, the pings (nothing waits for a pong),
the strategy's other columns, `remove` (refused by a foreign key while a session
uses the strategy) and `duplicate` (it saves a spread of the source, relations and
ids included, and what becomes of the source's rows is TypeORM's cascade), users
and authentication, queries, the snapshot and fill caches of the sync service
(they change no table), DTO validation, and the code nobody reaches
(`forceCloseAll`, trailing). Each component's status and reason is in
`PROJECT.json`.

## 10. Plan

Done, in this order: risk manager and its gate; the trading session; the candle
feed; the position's life; the position manager; candle storage; configuration and
entry; the mark-price feed; proofs of every safety property. To come:

1. The caches of the sync service, and trades inserted twice by two agents.
2. `duplicate`, once TypeORM's cascade over shared relations is pinned down.
3. Proofs: the safety half of the liveness properties, a measure that every step of a
   handler inside a lock lowers (that somebody answers for each lock taken is proved:
   `LockExact`, `OneInLock`).
