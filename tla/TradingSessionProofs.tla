------------------------- MODULE TradingSessionProofs -------------------------
(***************************************************************************)
(* Theorems about TradingSession, for any limits, sides, agents, lots,     *)
(* pnls, equities, balances and number of candles, days and faults.        *)
(***************************************************************************)
EXTENDS TradingSession, FiniteSetTheorems, SequenceTheorems, TLAPS

Positions == [side: Sides, qty: Nat, closed: BOOLEAN]
Trades == [sold: Nat, finals: Nat]
Sims == UNION {[S -> Nat] : S \in SUBSET Nat}

BotType == [pc: BotPcs, ent: Rows, sim: Sims, todo: SUBSET Nat, exit: Exits,
            bal: Int, equity: Nat, side: Sides \cup {NoSide}]
AgentType == [pc: AgentPcs, ent: Rows, bal: Int, snap: [Sides -> Nat],
              todo: SUBSET Nat, gone: Nat]

\* TypeOK by owner, with the records as a whole.
TablesTyped ==
    /\ row \in Rows
    /\ positions \in Seq(Positions) /\ trades \in Seq(Trades)
    /\ Len(trades) = Len(positions)
BotTyped ==
    /\ bot \in BotType
    /\ DOMAIN bot.sim \subseteq DOMAIN positions /\ bot.todo \subseteq DOMAIN positions
    /\ bot.pc \in {"trade", "register"} => bot.exit.id \in DOMAIN positions
    /\ bot.pc \in {"guard", "risk", "order", "insert"} => bot.side \in Sides
AgentsTyped ==
    /\ agents \in [Agents -> AgentType]
    /\ \A a \in Agents : agents[a].todo \subseteq DOMAIN positions
    /\ \A a \in Agents : agents[a].pc = "external" => agents[a].gone \in DOMAIN positions
WorldTyped ==
    /\ exchange \in [Sides -> Nat] /\ available \in Int
    /\ today \in Nat \ {0} /\ candles \in Nat /\ faults \in Nat
HistoryTyped ==
    booked \in Int /\ lastRisk \in RiskState /\ killedDay \in Nat /\ entries \in Nat

Typed == TablesTyped /\ BotTyped /\ AgentsTyped /\ WorldTyped /\ HistoryTyped

(***************************************************************************)
(* The parts of the invariant that are not types.                          *)
(***************************************************************************)

\* The entity the candle handler holds is the newest, whatever the row is.
EntityIsNewest ==
    bot.pc # "idle" => bot.ent.status = "RUNNING" /\ bot.ent.risk = lastRisk

\* The newest risk state remembers the switch for as long as its day lasts.
SwitchIsRemembered ==
    /\ killedDay <= lastRisk.riskDayStartedAt
    /\ killedDay = lastRisk.riskDayStartedAt /\ killedDay # NoDay
          => lastRisk.killSwitchTriggered

\* What the risk check found stays true until the entry is made.
EntryIsCleared ==
    bot.pc \in {"order", "insert"} =>
        /\ bot.ent.risk.riskDayStartedAt # NoDay
        /\ ~ bot.ent.risk.killSwitchTriggered
        /\ MaxTradesPerDay > 0 => bot.ent.risk.tradesToday < MaxTradesPerDay

\* The rows that are open, or that a partial close may still reopen.
Exiting == {"candle", "trade", "register"}
Held == IF bot.pc \in Exiting THEN OpenIds \cup DOMAIN bot.sim ELSE OpenIds
OneHeldPerSide ==
    /\ \A i, j \in Held : positions[i].side = positions[j].side => i = j
    /\ bot.pc \in {"risk", "order", "insert"} => OpenOn(bot.side) = {}

\* In paper trading nobody but the handler touches the positions, and what it
\* simulates is what is open.
OnlyStopRuns == Simulation => \A a \in Agents : agents[a].pc \in {"idle", "save"}
SimIsOpen ==
    Simulation =>
        /\ DOMAIN bot.sim \subseteq OpenIds
        /\ bot.pc \notin {"idle", "load", "sync"} => OpenIds \subseteq DOMAIN bot.sim
        /\ bot.pc \in {"idle", "load"} => DOMAIN bot.sim = {}
FinalsOnce ==
    Simulation =>
        /\ \A id \in DOMAIN positions :
              /\ trades[id].finals <= 1
              /\ ~ positions[id].closed => trades[id].finals = 0
        /\ bot.pc = "trade" =>
              /\ positions[bot.exit.id].closed = bot.exit.last
              /\ trades[bot.exit.id].finals = 0

\* The books while a candle is being processed.
FaultsSpent == faults <= MaxFaults
Left(id) == IF id \in DOMAIN bot.sim THEN bot.sim[id] ELSE positions[id].qty
Unbooked(id) == bot.pc = "trade" /\ bot.exit.id = id
BooksBalance ==
    Undisturbed =>
        /\ bot.pc \in {"idle", "load"} /\ row.status = "RUNNING"
              => row.balance = StartingBalance + booked
        /\ bot.pc = "load" => bot.ent.balance = StartingBalance + booked
        /\ bot.pc \notin {"idle", "load"} =>
              bot.bal = StartingBalance + booked
                           + (IF bot.pc = "trade" THEN bot.exit.pnl ELSE 0)
Pending(id) == IF Unbooked(id) THEN bot.exit.qty ELSE 0
Balanced(id) ==
    IF positions[id].closed
    THEN /\ trades[id].sold + Pending(id) = Lots
         /\ trades[id].finals = IF Unbooked(id) THEN 0 ELSE 1
    ELSE /\ trades[id].sold + Pending(id) + Left(id) = Lots
         /\ trades[id].finals = 0
QuantitiesBalance == Undisturbed => \A id \in DOMAIN positions : Balanced(id)

\* A position that ended and is not counted by the risk manager yet.
Uncounted == IF bot.pc \in {"trade", "register"} /\ bot.exit.last THEN 1 ELSE 0
EndedSinceReset == {id \in EnteredSinceReset : positions[id].closed}
EntriesCounted ==
    Undisturbed => Cardinality(EndedSinceReset) <= lastRisk.tradesToday + Uncounted

-----------------------------------------------------------------------------
(* The risk rules, as far as the session depends on them.                  *)

(* Assigning to the columns a result changes keeps the risk state typed.   *)
LEMMA AssignResult ==
  ASSUME NEW r \in RiskState, NEW d \in Int, NEW t \in Nat, NEW l \in Nat,
         NEW k \in BOOLEAN, NEW m \in 1..FullRisk, NEW c \in Nat
  PROVE  [r EXCEPT !.dailyPnl = d, !.tradesToday = t, !.consecutiveLosses = l,
                   !.killSwitchTriggered = k, !.riskMultiplier = m,
                   !.recoveryCounter = c] \in RiskState
BY DEF RiskState

(* A losing and a winning trade touch the streak, the multiplier and the   *)
(* recovery only.                                                          *)
Judged(q, r) ==
    \E l \in Nat, m \in 1..FullRisk, c \in Nat :
        q = [r EXCEPT !.consecutiveLosses = l, !.riskMultiplier = m,
                      !.recoveryCounter = c]

LEMMA JudgedColumns ==
  ASSUME NEW r \in RiskState
  PROVE  Judged(AfterLoss(r), r) /\ Judged(AfterWin(r), r)
<1>1. r.consecutiveLosses \in Nat /\ r.riskMultiplier \in 1..FullRisk
      /\ r.recoveryCounter \in Nat
  BY DEF RiskState
<1>2. Judged(AfterLoss(r), r)
  <2> DEFINE l == r.consecutiveLosses + 1
             m == IF ReduceEnabled /\ l >= DrawdownReduceAfter
                     /\ DrawdownReduceFactor < r.riskMultiplier
                  THEN DrawdownReduceFactor ELSE r.riskMultiplier
  <2>1. l \in Nat /\ m \in 1..FullRisk
    BY <1>1, RiskLimitsAssumption DEF ReduceEnabled, FullRisk
  <2>2. AfterLoss(r) = [r EXCEPT !.consecutiveLosses = l, !.riskMultiplier = m,
                                 !.recoveryCounter = r.recoveryCounter]
    BY DEF AfterLoss, RiskState
  <2> QED
    BY <1>1, <2>1, <2>2 DEF Judged
<1>3. Judged(AfterWin(r), r)
  <2> DEFINE l == 0
             won == r.recoveryCounter + 1
             m == IF r.riskMultiplier < FullRisk /\ won >= DrawdownRecoveryTrades
                  THEN FullRisk ELSE r.riskMultiplier
             c == IF r.riskMultiplier < FullRisk /\ ~ (won >= DrawdownRecoveryTrades)
                  THEN won ELSE 0
  <2>1. l \in Nat /\ m \in 1..FullRisk /\ c \in Nat
    BY <1>1 DEF FullRisk
  <2>2. AfterWin(r) = [r EXCEPT !.consecutiveLosses = l, !.riskMultiplier = m,
                                !.recoveryCounter = c]
    BY DEF AfterWin, RiskState
  <2> HIDE DEF l, m, c
  <2> QED
    BY <2>1, <2>2 DEF Judged
<1> QED
  BY <1>2, <1>3

(* A registered result counts one trade of the day and may trigger the kill *)
(* switch, never release it.                                                *)
LEMMA RegisterEffect ==
  ASSUME NEW r \in RiskState, NEW pnl \in Int, NEW equity \in Int
  PROVE  LET q == RegisterTradeResult(r, pnl, equity) IN
         /\ q \in RiskState
         /\ q.tradesToday = r.tradesToday + 1
         /\ q.riskDayStartedAt = r.riskDayStartedAt
         /\ r.killSwitchTriggered => q.killSwitchTriggered
<1> DEFINE counted == [r EXCEPT !.dailyPnl = @ + pnl, !.tradesToday = @ + 1]
           d == r.dailyPnl + pnl
           t == r.tradesToday + 1
           k == r.killSwitchTriggered \/ ~ WithinDailyLoss(r, equity)
           judged == IF pnl < 0 THEN AfterLoss(counted) ELSE AfterWin(counted)
<1>1. d \in Int /\ t \in Nat /\ k \in BOOLEAN
  <2>1. d \in Int /\ t \in Nat
    BY DEF RiskState
  <2>2. WithinDailyLoss(r, equity) \in BOOLEAN /\ r.killSwitchTriggered \in BOOLEAN
    BY DEF RiskState, WithinDailyLoss
  <2>3. k \in BOOLEAN
    BY <2>2
  <2> QED
    BY <2>1, <2>3
<1>2. counted = [r EXCEPT !.dailyPnl = d, !.tradesToday = t] /\ counted \in RiskState
  <2>1. counted = [r EXCEPT !.dailyPnl = d, !.tradesToday = t]
    OBVIOUS
  <2> HIDE DEF d, t
  <2> QED
    BY <1>1, <2>1 DEF RiskState
<1>3. RegisterTradeResult(r, pnl, equity)
        = [judged EXCEPT !.killSwitchTriggered = @ \/ ~ WithinDailyLoss(r, equity)]
  BY Zenon DEF RegisterTradeResult
<1>4. PICK l \in Nat, m \in 1..FullRisk, c \in Nat :
         judged = [counted EXCEPT !.consecutiveLosses = l, !.riskMultiplier = m,
                                  !.recoveryCounter = c]
  <2>1. judged = AfterLoss(counted) \/ judged = AfterWin(counted)
    BY Zenon
  <2> HIDE DEF judged, counted
  <2>2. Judged(judged, counted)
    BY <1>2, <2>1, JudgedColumns
  <2> QED
    BY <2>2 DEF Judged
<1> HIDE DEF judged, counted
<1>5. judged.killSwitchTriggered = r.killSwitchTriggered
  BY <1>2, <1>4 DEF RiskState
<1> DEFINE q == [r EXCEPT !.dailyPnl = d, !.tradesToday = t, !.consecutiveLosses = l,
                          !.killSwitchTriggered = k, !.riskMultiplier = m,
                          !.recoveryCounter = c]
<1>6. RegisterTradeResult(r, pnl, equity) = q
  <2>1. RegisterTradeResult(r, pnl, equity) = [judged EXCEPT !.killSwitchTriggered = k]
    BY <1>3, <1>5
  <2> HIDE DEF d, t, k
  <2> QED
    BY <2>1, <1>2, <1>4 DEF RiskState
<1>7. q \in RiskState
  <2> HIDE DEF d, t, k
  <2> QED
    BY <1>1, AssignResult
<1>8. q.tradesToday = t /\ q.riskDayStartedAt = r.riskDayStartedAt /\ q.killSwitchTriggered = k
  BY DEF RiskState
<1> QED
  BY <1>6, <1>7, <1>8

(* A new day starts with a clean state; on the same day nothing changes.   *)
LEMMA EnsureDayEffect ==
  ASSUME NEW r \in RiskState, NEW day \in Nat \ {0}, NEW equity \in Int
  PROVE  LET q == EnsureDay(r, day, equity) IN
         /\ q \in RiskState
         /\ q.riskDayStartedAt # NoDay
         /\ ~ NeedsNewDay(r, day) => q = r
         /\ NeedsNewDay(r, day) => q.riskDayStartedAt > r.riskDayStartedAt
                                    /\ q.tradesToday = 0
<1>1. CASE NeedsNewDay(r, day)
  <2>1. EnsureDay(r, day, equity) = [NewRisk EXCEPT !.riskDayStartedAt = day,
                                                    !.riskDayStartingEquity = equity]
    BY <1>1 DEF EnsureDay
  <2>2. NewRisk \in RiskState
    BY DEF NewRisk, RiskState, NoDay, FullRisk
  <2>3. EnsureDay(r, day, equity) \in RiskState
    BY <2>1, <2>2 DEF RiskState
  <2>4. /\ EnsureDay(r, day, equity).riskDayStartedAt = day
        /\ EnsureDay(r, day, equity).tradesToday = 0
    BY <2>1 DEF NewRisk
  <2> QED
    BY <1>1, <2>3, <2>4 DEF NeedsNewDay, RiskState, NoDay
<1>2. CASE ~ NeedsNewDay(r, day)
  BY <1>2 DEF EnsureDay, NeedsNewDay, RiskState, NoDay
<1> QED
  BY <1>1, <1>2

-----------------------------------------------------------------------------
(* Types.                                                                  *)

(* Typed says at least what TypeOK says.                                   *)
LEMMA TypedIsTypeOK == Typed => TypeOK
<1> SUFFICES ASSUME Typed PROVE TypeOK
  OBVIOUS
<1> USE DEF Typed
<1>1. \A id \in DOMAIN bot.sim : bot.sim[id] \in Nat
  <2>1. bot.sim \in Sims
    BY DEF BotTyped, BotType
  <2>2. PICK S \in SUBSET Nat : bot.sim \in [S -> Nat]
    BY <2>1 DEF Sims
  <2> QED
    BY <2>2
<1>2. /\ bot.pc \in BotPcs /\ bot.ent \in Rows /\ bot.exit \in Exits
      /\ bot.bal \in Int /\ bot.equity \in Nat /\ bot.side \in Sides \cup {NoSide}
  BY DEF BotTyped, BotType
<1>3. \A a \in Agents : agents[a] \in AgentType /\ agents[a].todo \subseteq DOMAIN positions
  BY DEF AgentsTyped
<1>4. \A a \in Agents : /\ agents[a].pc \in AgentPcs /\ agents[a].ent \in Rows
                         /\ agents[a].bal \in Int /\ agents[a].snap \in [Sides -> Nat]
                         /\ agents[a].gone \in Nat
  BY <1>3 DEF AgentType
<1> QED
  BY <1>1, <1>2, <1>3, <1>4
     DEF TypeOK, TablesTyped, BotTyped, WorldTyped, HistoryTyped, Positions, Trades

LEMMA IsSim ==
  ASSUME NEW S \in SUBSET Nat, NEW f \in [S -> Nat]
  PROVE  f \in Sims /\ DOMAIN f = S
BY DEF Sims

LEMMA SimValues ==
  ASSUME NEW f \in Sims
  PROVE  DOMAIN f \subseteq Nat /\ \A i \in DOMAIN f : f[i] \in Nat
<1>1. PICK S \in SUBSET Nat : f \in [S -> Nat]
  BY DEF Sims
<1> QED
  BY <1>1

LEMMA NoSim == <<>> \in Sims /\ DOMAIN <<>> = {}
<1>1. <<>> \in [{} -> Nat] /\ {} \in SUBSET Nat
  OBVIOUS
<1> QED
  BY <1>1, IsSim

(* A table row, an idle handler and an idle agent have their types.        *)
LEMMA IdleTyped ==
  /\ NewRisk \in RiskState /\ NewRow \in Rows
  /\ IdleBot \in BotType /\ IdleBot.pc = "idle" /\ IdleBot.sim = <<>> /\ IdleBot.todo = {}
  /\ IdleAgent \in AgentType /\ IdleAgent.pc = "idle" /\ IdleAgent.todo = {}
<1>1. NewRisk \in RiskState
  BY DEF NewRisk, RiskState, NoDay, FullRisk
<1>2. NewRow \in Rows
  BY <1>1, TradingAssumption DEF NewRow, Rows
<1>3. NoExit \in Exits
  BY DEF NoExit, Exits
<1>4. IdleBot \in BotType
  BY <1>2, <1>3, NoSim DEF IdleBot, BotType, BotPcs
<1>5. IdleAgent \in AgentType
  BY <1>2 DEF IdleAgent, AgentType, AgentPcs
<1> QED
  BY <1>1, <1>2, <1>4, <1>5 DEF IdleBot, IdleAgent

(* What the type says of each of the records.                              *)
LEMMA RecordFields ==
  ASSUME Typed
  PROVE  /\ row.status \in {"RUNNING", "STOPPED"} /\ row.balance \in Int
         /\ row.risk \in RiskState
         /\ bot.pc \in BotPcs /\ bot.ent \in Rows /\ bot.sim \in Sims
         /\ bot.todo \in SUBSET Nat /\ bot.exit \in Exits /\ bot.bal \in Int
         /\ bot.equity \in Nat /\ bot.ent.risk \in RiskState /\ bot.ent.balance \in Int
         /\ bot.exit.id \in Nat /\ bot.exit.qty \in Nat /\ bot.exit.last \in BOOLEAN
         /\ bot.exit.pnl \in Int
         /\ DOMAIN positions = 1..Len(positions) /\ Len(positions) \in Nat
         /\ DOMAIN trades = DOMAIN positions
         /\ \A id \in DOMAIN positions :
               /\ positions[id] \in Positions /\ positions[id].side \in Sides
               /\ positions[id].qty \in Nat /\ positions[id].closed \in BOOLEAN
               /\ trades[id] \in Trades /\ trades[id].sold \in Nat /\ trades[id].finals \in Nat
<1>1. /\ row.status \in {"RUNNING", "STOPPED"} /\ row.balance \in Int
      /\ row.risk \in RiskState
  BY DEF Typed, TablesTyped, Rows
<1>2. /\ bot.pc \in BotPcs /\ bot.ent \in Rows /\ bot.sim \in Sims
      /\ bot.todo \in SUBSET Nat /\ bot.exit \in Exits /\ bot.bal \in Int
      /\ bot.equity \in Nat
  BY DEF Typed, BotTyped, BotType
<1>3. bot.ent.risk \in RiskState /\ bot.ent.balance \in Int
  BY <1>2 DEF Rows
<1>4. /\ bot.exit.id \in Nat /\ bot.exit.qty \in Nat /\ bot.exit.last \in BOOLEAN
      /\ bot.exit.pnl \in Int
  BY <1>2 DEF Exits
<1>5. /\ DOMAIN positions = 1..Len(positions) /\ Len(positions) \in Nat
      /\ DOMAIN trades = DOMAIN positions
      /\ \A id \in DOMAIN positions : positions[id] \in Positions /\ trades[id] \in Trades
  BY DEF Typed, TablesTyped
<1>6. \A id \in DOMAIN positions :
        /\ positions[id].side \in Sides /\ positions[id].qty \in Nat
        /\ positions[id].closed \in BOOLEAN
        /\ trades[id].sold \in Nat /\ trades[id].finals \in Nat
  BY <1>5 DEF Positions, Trades
<1> QED
  BY <1>1, <1>2, <1>3, <1>4, <1>5, <1>6

-----------------------------------------------------------------------------
(* What each writer of the two tables writes.                              *)

\* One row gets a quantity and a mark, and keeps its side.
Rewritten(id, q, c) ==
    /\ DOMAIN positions' = DOMAIN positions
    /\ \A i \in DOMAIN positions : i # id => positions'[i] = positions[i]
    /\ positions'[id].side = positions[id].side
    /\ positions'[id].qty = q /\ positions'[id].closed = c

\* A position's trades gain a quantity and f final ones.
TradeAdded(id, q, f) ==
    /\ DOMAIN trades' = DOMAIN trades
    /\ \A i \in DOMAIN trades : i # id => trades'[i] = trades[i]
    /\ trades'[id].sold = trades[id].sold + q
    /\ trades'[id].finals = trades[id].finals + f

(* A table with one record replaced is a table.                            *)
LEMMA Replaced ==
  ASSUME NEW S, NEW t \in Seq(S), NEW id \in DOMAIN t, NEW r \in S
  PROVE  LET u == [t EXCEPT ![id] = r] IN
         /\ u \in Seq(S) /\ Len(u) = Len(t) /\ DOMAIN u = DOMAIN t
         /\ \A i \in DOMAIN t : i # id => u[i] = t[i]
         /\ u[id] = r
<1>1. id \in 1..Len(t) /\ DOMAIN t = 1..Len(t)
  OBVIOUS
<1> QED
  BY <1>1, ExceptSeq

LEMMA RewrittenTyped ==
  ASSUME Typed, NEW id \in DOMAIN positions, NEW q \in Nat, NEW c \in BOOLEAN,
         NEW r \in Positions, r.side = positions[id].side, r.qty = q, r.closed = c,
         positions' = [positions EXCEPT ![id] = r]
  PROVE  /\ positions' \in Seq(Positions) /\ Len(positions') = Len(positions)
         /\ Rewritten(id, q, c)
<1>1. positions \in Seq(Positions)
  BY DEF Typed, TablesTyped
<1> QED
  BY <1>1, Replaced DEF Rewritten

LEMMA TradeAddedTyped ==
  ASSUME Typed, NEW id \in DOMAIN positions, NEW q \in Nat, NEW f \in Nat,
         NEW r \in Trades, r.sold = trades[id].sold + q, r.finals = trades[id].finals + f,
         trades' = [trades EXCEPT ![id] = r]
  PROVE  /\ trades' \in Seq(Trades) /\ Len(trades') = Len(trades)
         /\ TradeAdded(id, q, f)
<1>1. trades \in Seq(Trades) /\ id \in DOMAIN trades
  BY RecordFields DEF Typed, TablesTyped
<1> QED
  BY <1>1, Replaced DEF TradeAdded

(* Persisting an exit closes its row or marks it open, and takes the       *)
(* quantity sold from what is simulated.                                   *)
LEMMA PersistEffect ==
  ASSUME Typed, NEW id \in MayExit, NEW pnl \in Pnls, NEW n \in Quantities(bot.sim[id]),
         PersistExit(id, n, pnl)
  PROVE  /\ id \in DOMAIN bot.sim /\ id \in DOMAIN positions
         /\ n \in Nat /\ n <= bot.sim[id] /\ bot.sim[id] \in Nat /\ pnl \in Int
         /\ positions' \in Seq(Positions) /\ Len(positions') = Len(positions)
         /\ Rewritten(id, IF n = bot.sim[id] THEN 0 ELSE positions[id].qty, n = bot.sim[id])
         /\ bot' \in BotType /\ bot'.pc = "trade" /\ bot'.ent = bot.ent
         /\ bot'.exit.id = id /\ bot'.exit.qty = n /\ bot'.exit.pnl = pnl
         /\ bot'.exit.last = (n = bot.sim[id])
         /\ bot'.bal = bot.bal + pnl /\ bot'.todo \subseteq bot.todo
         /\ n = bot.sim[id] => DOMAIN bot'.sim = DOMAIN bot.sim \ {id}
         /\ n # bot.sim[id] => DOMAIN bot'.sim = DOMAIN bot.sim
         /\ \A i \in DOMAIN bot'.sim :
               bot'.sim[i] = IF i = id THEN bot.sim[i] - n ELSE bot.sim[i]
<1> DEFINE last == n = bot.sim[id]
           left == DOMAIN bot.sim \ (IF last THEN {id} ELSE {})
           sim == [i \in left |-> IF i = id THEN bot.sim[i] - n ELSE bot.sim[i]]
           exit == [id |-> id, qty |-> n, last |-> last, pnl |-> pnl]
<1>1. bot.sim \in Sims /\ id \in DOMAIN bot.sim /\ pnl \in Int /\ bot.bal \in Int
  BY RecordFields, TradingAssumption DEF MayExit
<1>2. DOMAIN bot.sim \subseteq Nat /\ \A i \in DOMAIN bot.sim : bot.sim[i] \in Nat
  BY <1>1, SimValues
<1>3. bot.sim[id] \in Nat /\ n \in Nat /\ n <= bot.sim[id]
  BY <1>1, <1>2 DEF Quantities
<1>4. id \in DOMAIN positions
  BY <1>1 DEF Typed, BotTyped
<1>5. sim \in Sims /\ DOMAIN sim = left
  <2>1. left \in SUBSET Nat
    BY <1>2
  <2>2. \A i \in left : (IF i = id THEN bot.sim[i] - n ELSE bot.sim[i]) \in Nat
    BY <1>2, <1>3
  <2>3. sim \in [left -> Nat]
    BY <2>2
  <2> QED
    BY <2>1, <2>3, IsSim
<1>6. exit \in Exits /\ last \in BOOLEAN
  BY <1>1, <1>2, <1>3 DEF Exits
<1>7. bot' = [bot EXCEPT !.pc = "trade", !.todo = bot.todo \ {id}, !.exit = exit,
                         !.sim = sim, !.bal = bot.bal + pnl]
  BY DEF PersistExit, ClosePart
<1>8. /\ bot' \in BotType /\ bot'.pc = "trade" /\ bot'.ent = bot.ent /\ bot'.exit = exit
      /\ bot'.bal = bot.bal + pnl /\ bot'.todo \subseteq bot.todo /\ bot'.sim = sim
  <2>1. bot \in BotType /\ bot.bal + pnl \in Int /\ bot.todo \ {id} \in SUBSET Nat
    BY <1>1, RecordFields DEF Typed, BotTyped
  <2> HIDE DEF sim, exit
  <2> QED
    BY <2>1, <1>5, <1>6, <1>7 DEF BotType, BotPcs
<1>9. \A i \in DOMAIN sim : sim[i] = IF i = id THEN bot.sim[i] - n ELSE bot.sim[i]
  OBVIOUS
<1> DEFINE qty == IF last THEN 0 ELSE positions[id].qty
           r == [positions[id] EXCEPT !.closed = last, !.qty = qty]
<1>10. positions' = [positions EXCEPT ![id] = r]
  <2>1. positions' = [positions EXCEPT ![id].closed = last,
                                       ![id].qty = IF last THEN 0 ELSE @]
    BY DEF PersistExit
  <2> HIDE DEF last
  <2> QED
    BY <2>1, Zenon
<1>11. qty \in Nat /\ positions[id] \in Positions
  BY <1>4, RecordFields
<1>12. /\ positions' \in Seq(Positions) /\ Len(positions') = Len(positions)
       /\ Rewritten(id, qty, last)
  <2> HIDE DEF last, qty
  <2>1. /\ r \in Positions /\ r.side = positions[id].side
        /\ r.qty = qty /\ r.closed = last
    BY <1>6, <1>11 DEF Positions
  <2> HIDE DEF r
  <2> QED
    BY <1>4, <1>6, <1>10, <1>11, <2>1, RewrittenTyped
<1> QED
  BY <1>1, <1>3, <1>4, <1>5, <1>8, <1>9, <1>12

(* The second await of persistTrade.                                       *)
LEMMA TradeEffect ==
  ASSUME Typed, InsertTrade
  PROVE  /\ bot.exit.id \in DOMAIN positions
         /\ trades' \in Seq(Trades) /\ Len(trades') = Len(trades)
         /\ TradeAdded(bot.exit.id, bot.exit.qty, IF bot.exit.last THEN 1 ELSE 0)
         /\ bot' \in BotType /\ bot' = [bot EXCEPT !.pc = "register"]
         /\ booked' = booked + bot.exit.pnl
<1> DEFINE t == bot.exit
           f == IF t.last THEN 1 ELSE 0
<1>1. t.id \in DOMAIN positions /\ t.qty \in Nat /\ f \in Nat
  BY RecordFields DEF Typed, BotTyped, InsertTrade
<1>2. trades' = [trades EXCEPT ![t.id] =
                   [trades[t.id] EXCEPT !.sold = @ + t.qty,
                                        !.finals = IF t.last THEN @ + 1 ELSE @]]
  BY Zenon DEF InsertTrade
<1>3. bot' = [bot EXCEPT !.pc = "register"] /\ bot' \in BotType
  BY DEF InsertTrade, Typed, BotTyped, BotType, BotPcs
<1>4. /\ trades' \in Seq(Trades) /\ Len(trades') = Len(trades) /\ TradeAdded(t.id, t.qty, f)
  <2> DEFINE r == [trades[t.id] EXCEPT !.sold = @ + t.qty,
                                       !.finals = IF t.last THEN @ + 1 ELSE @]
  <2>1. /\ trades[t.id] \in Trades
        /\ trades[t.id].sold \in Nat /\ trades[t.id].finals \in Nat
    BY <1>1, RecordFields
  <2> DEFINE a == trades[t.id].sold + t.qty
             b == IF t.last THEN trades[t.id].finals + 1 ELSE trades[t.id].finals
  <2>2. a \in Nat /\ b \in Nat /\ b = trades[t.id].finals + f
    BY <1>1, <2>1
  <2>3. r = [trades[t.id] EXCEPT !.sold = a, !.finals = b]
    BY Zenon
  <2> HIDE DEF r, f, a, b
  <2>4. r.sold = a /\ r.finals = b /\ r \in Trades
    BY <2>1, <2>2, <2>3 DEF Trades
  <2>5. trades' = [trades EXCEPT ![t.id] = r]
    BY <1>2 DEF r
  <2>6. r.sold = trades[t.id].sold + t.qty
    BY <2>4 DEF a
  <2> QED
    BY <1>1, <2>2, <2>4, <2>5, <2>6, TradeAddedTyped
<1> QED
  BY <1>1, <1>3, <1>4 DEF InsertTrade

(* An entry appends an open row without trades, and is simulated.          *)
LEMMA InsertEffect ==
  ASSUME Typed, InsertPosition
  PROVE  LET id == Len(positions) + 1 IN
         /\ id \notin DOMAIN positions /\ bot.side \in Sides
         /\ positions' \in Seq(Positions) /\ trades' \in Seq(Trades)
         /\ Len(trades') = Len(positions') /\ DOMAIN positions' = DOMAIN positions \cup {id}
         /\ \A i \in DOMAIN positions : positions'[i] = positions[i] /\ trades'[i] = trades[i]
         /\ positions'[id] = [side |-> bot.side, qty |-> Lots, closed |-> FALSE]
         /\ trades'[id] = [sold |-> 0, finals |-> 0]
         /\ bot' \in BotType /\ bot'.pc = "sync" /\ bot'.ent = bot.ent
         /\ bot'.exit = bot.exit /\ bot'.bal = bot.bal /\ bot'.todo = bot.todo
         /\ DOMAIN bot'.sim = DOMAIN bot.sim \cup {id}
         /\ \A i \in DOMAIN bot'.sim : bot'.sim[i] = IF i = id THEN Lots ELSE bot.sim[i]
<1> DEFINE id == Len(positions) + 1
           p == [side |-> bot.side, qty |-> Lots, closed |-> FALSE]
           t == [sold |-> 0, finals |-> 0]
           S == DOMAIN bot.sim \cup {id}
           sim == [i \in S |-> IF i = id THEN Lots ELSE bot.sim[i]]
<1>1. /\ positions \in Seq(Positions) /\ trades \in Seq(Trades)
      /\ Len(trades) = Len(positions) /\ Len(positions) \in Nat
      /\ DOMAIN positions = 1..Len(positions)
  BY RecordFields DEF Typed, TablesTyped
<1>2. p \in Positions /\ t \in Trades /\ bot.side \in Sides
  BY TradingAssumption DEF InsertPosition, Typed, BotTyped, Positions, Trades
<1>3. positions' = Append(positions, p) /\ trades' = Append(trades, t)
  BY DEF InsertPosition
<1>4. /\ positions' \in Seq(Positions) /\ Len(positions') = Len(positions) + 1
      /\ \A i \in 1..Len(positions) : positions'[i] = positions[i]
      /\ positions'[Len(positions) + 1] = p
  <2> HIDE DEF p
  <2> QED
    BY <1>1, <1>2, <1>3, AppendProperties
<1>5. /\ trades' \in Seq(Trades) /\ Len(trades') = Len(positions) + 1
      /\ \A i \in 1..Len(positions) : trades'[i] = trades[i]
      /\ trades'[Len(positions) + 1] = t
  <2> HIDE DEF t
  <2> QED
    BY <1>1, <1>2, <1>3, AppendProperties
<1>6. DOMAIN positions' = DOMAIN positions \cup {id} /\ id \notin DOMAIN positions
  BY <1>1, <1>4
<1>7. sim \in Sims /\ DOMAIN sim = S
  <2>1. DOMAIN bot.sim \subseteq Nat /\ \A i \in DOMAIN bot.sim : bot.sim[i] \in Nat
    BY RecordFields, SimValues
  <2>2. S \in SUBSET Nat /\ sim \in [S -> Nat]
    BY <1>1, <2>1, TradingAssumption
  <2> QED
    BY <2>2, IsSim
<1>8. bot' = [bot EXCEPT !.pc = "sync", !.sim = sim]
  BY DEF InsertPosition
<1>9. /\ bot' \in BotType /\ bot'.pc = "sync" /\ bot'.ent = bot.ent /\ bot'.exit = bot.exit
      /\ bot'.bal = bot.bal /\ bot'.todo = bot.todo /\ bot'.sim = sim
  <2>1. bot \in BotType
    BY DEF Typed, BotTyped
  <2> HIDE DEF sim
  <2> QED
    BY <2>1, <1>7, <1>8 DEF BotType, BotPcs
<1>10. \A i \in S : sim[i] = IF i = id THEN Lots ELSE bot.sim[i]
  OBVIOUS
<1> HIDE DEF sim
<1> QED
  BY <1>1, <1>2, <1>4, <1>5, <1>6, <1>7, <1>9, <1>10

(* syncPositions writes a quantity back, and never the mark.               *)
LEMMA SyncEffect ==
  ASSUME Typed, NEW id \in DOMAIN positions, SyncPosition(id)
  PROVE  /\ id \in DOMAIN bot.sim
         /\ positions' \in Seq(Positions) /\ Len(positions') = Len(positions)
         /\ Rewritten(id, bot.sim[id], positions[id].closed)
         /\ bot' \in BotType /\ bot'.pc = "sync" /\ bot'.ent = bot.ent
         /\ bot'.exit = bot.exit /\ bot'.bal = bot.bal /\ bot'.todo = bot.todo
         /\ DOMAIN bot'.sim = DOMAIN bot.sim \ {id}
         /\ \A i \in DOMAIN bot'.sim : bot'.sim[i] = bot.sim[i]
<1> DEFINE S == DOMAIN bot.sim \ {id}
           sim == [i \in S |-> bot.sim[i]]
           r == [positions[id] EXCEPT !.qty = bot.sim[id]]
<1>1. /\ DOMAIN bot.sim \subseteq Nat /\ \A i \in DOMAIN bot.sim : bot.sim[i] \in Nat
      /\ id \in DOMAIN bot.sim /\ bot.pc = "sync"
  BY RecordFields, SimValues DEF SyncPosition
<1>2. sim \in Sims /\ DOMAIN sim = S
  <2>1. S \in SUBSET Nat /\ sim \in [S -> Nat]
    BY <1>1
  <2> QED
    BY <2>1, IsSim
<1>3. /\ bot' \in BotType /\ bot'.pc = "sync" /\ bot'.ent = bot.ent /\ bot'.exit = bot.exit
      /\ bot'.bal = bot.bal /\ bot'.todo = bot.todo /\ bot'.sim = sim
  <2>1. bot \in BotType /\ bot' = [bot EXCEPT !.sim = sim]
    BY DEF Typed, BotTyped, SyncPosition
  <2> HIDE DEF sim
  <2> QED
    BY <1>1, <2>1, <1>2 DEF BotType
<1>4. positions[id] \in Positions /\ positions[id].closed \in BOOLEAN
  BY RecordFields
<1>5. /\ r \in Positions /\ r.side = positions[id].side
      /\ r.qty = bot.sim[id] /\ r.closed = positions[id].closed
  BY <1>1, <1>4 DEF Positions
<1>6. positions' = [positions EXCEPT ![id] = r]
  BY Zenon DEF SyncPosition
<1>7. /\ positions' \in Seq(Positions) /\ Len(positions') = Len(positions)
      /\ Rewritten(id, bot.sim[id], positions[id].closed)
  <2> HIDE DEF r
  <2> QED
    BY <1>1, <1>4, <1>5, <1>6, RewrittenTyped
<1> QED
  BY <1>1, <1>2, <1>3, <1>7

(* An agent writes the exchange's quantity, and closes what is gone.       *)
LEMMA ReconcileEffect ==
  ASSUME Typed, NEW a \in Agents, NEW id \in DOMAIN positions, Reconcile(a, id)
  PROVE  LET qty == agents[a].snap[positions[id].side] IN
         /\ qty \in Nat
         /\ positions' \in Seq(Positions) /\ Len(positions') = Len(positions)
         /\ Rewritten(id, qty, qty = 0 \/ positions[id].closed)
<1> DEFINE qty == agents[a].snap[positions[id].side]
           closed == qty = 0 \/ positions[id].closed
           r == [positions[id] EXCEPT !.qty = qty, !.closed = IF qty = 0 THEN TRUE ELSE @]
<1>1. /\ positions[id] \in Positions /\ positions[id].closed \in BOOLEAN
      /\ positions[id].side \in Sides
  BY RecordFields
<1>2. qty \in Nat
  <2>1. agents[a].snap \in [Sides -> Nat]
    BY DEF Typed, AgentsTyped, AgentType
  <2> QED
    BY <1>1, <2>1
<1>3. closed \in BOOLEAN
  BY <1>1, <1>2
<1>4. positions' = [positions EXCEPT ![id] = r]
  BY Zenon DEF Reconcile
<1> HIDE DEF qty
<1>5. r = [positions[id] EXCEPT !.qty = qty, !.closed = closed]
  BY <1>1
<1> HIDE DEF closed, r
<1>6. /\ r \in Positions /\ r.side = positions[id].side
      /\ r.qty = qty /\ r.closed = closed
  BY <1>1, <1>2, <1>3, <1>5 DEF Positions
<1>7. /\ positions' \in Seq(Positions) /\ Len(positions') = Len(positions)
      /\ Rewritten(id, qty, closed)
  BY <1>2, <1>3, <1>4, <1>6, RewrittenTyped
<1> QED
  BY <1>2, <1>7 DEF qty, closed

(* The final trade of an external closure is over the whole entry.         *)
LEMMA ExternalEffect ==
  ASSUME Typed, NEW a \in Agents, InsertExternal(a)
  PROVE  /\ agents[a].gone \in DOMAIN positions
         /\ trades' \in Seq(Trades) /\ Len(trades') = Len(trades)
         /\ TradeAdded(agents[a].gone, Lots, 1)
<1> DEFINE id == agents[a].gone
           r == [trades[id] EXCEPT !.sold = @ + Lots, !.finals = @ + 1]
<1>1. id \in DOMAIN positions
  BY DEF InsertExternal, Typed, AgentsTyped
<1>2. /\ trades[id] \in Trades /\ trades[id].sold \in Nat /\ trades[id].finals \in Nat
      /\ Lots \in Nat
  BY <1>1, RecordFields, TradingAssumption
<1>3. trades' = [trades EXCEPT ![id] = r]
  BY Zenon DEF InsertExternal
<1> DEFINE s == trades[id].sold + Lots
           f == trades[id].finals + 1
<1>4. s \in Nat /\ f \in Nat
  BY <1>2
<1>5. r = [trades[id] EXCEPT !.sold = s, !.finals = f]
  BY Zenon
<1> HIDE DEF r, s, f
<1>6. r \in Trades /\ r.sold = s /\ r.finals = f
  BY <1>2, <1>4, <1>5 DEF Trades
<1> QED
  BY <1>1, <1>2, <1>3, <1>6, TradeAddedTyped DEF s, f

(* registerTradeResult saves the entity with one more trade counted.       *)
LEMMA RegisterExitEffect ==
  ASSUME Typed, RegisterExit
  PROVE  /\ lastRisk' \in RiskState
         /\ lastRisk'.tradesToday = bot.ent.risk.tradesToday + 1
         /\ lastRisk'.riskDayStartedAt = bot.ent.risk.riskDayStartedAt
         /\ bot.ent.risk.killSwitchTriggered => lastRisk'.killSwitchTriggered
         /\ \/ killedDay' = killedDay
            \/ killedDay' = lastRisk'.riskDayStartedAt /\ lastRisk'.killSwitchTriggered
         /\ row' \in Rows /\ row'.risk = lastRisk'
         /\ row'.status = bot.ent.status /\ row'.balance = bot.ent.balance
         /\ bot' \in BotType /\ bot' = [bot EXCEPT !.pc = "candle", !.ent = row']
<1> DEFINE risk == RegisterTradeResult(bot.ent.risk, bot.exit.pnl, bot.equity)
           ent  == [bot.ent EXCEPT !.risk = risk]
<1>1. /\ bot.ent.risk \in RiskState /\ bot.exit.pnl \in Int /\ bot.equity \in Int
      /\ bot.ent \in Rows /\ bot \in BotType
  BY RecordFields DEF Typed, BotTyped
<1>2. /\ risk \in RiskState
      /\ risk.tradesToday = bot.ent.risk.tradesToday + 1
      /\ risk.riskDayStartedAt = bot.ent.risk.riskDayStartedAt
      /\ bot.ent.risk.killSwitchTriggered => risk.killSwitchTriggered
  BY <1>1, RegisterEffect
<1>3. /\ lastRisk' = risk /\ row' = ent
      /\ bot' = [bot EXCEPT !.pc = "candle", !.ent = ent]
      /\ killedDay' = IF risk.killSwitchTriggered /\ ~ bot.ent.risk.killSwitchTriggered
                      THEN risk.riskDayStartedAt ELSE killedDay
  BY DEF RegisterExit
<1> HIDE DEF risk
<1>4. /\ ent \in Rows /\ ent.risk = risk
      /\ ent.status = bot.ent.status /\ ent.balance = bot.ent.balance
  BY <1>1, <1>2 DEF Rows
<1> HIDE DEF ent
<1>5. bot' \in BotType
  BY <1>1, <1>3, <1>4 DEF BotType, BotPcs
<1> QED
  BY <1>2, <1>3, <1>4, <1>5

(* ensureDay and canOpenNewTrade: the day is begun, and an entry goes on   *)
(* only if the switch is off and the day has a trade left.                 *)
LEMMA CheckRiskEffect ==
  ASSUME Typed, CheckRisk
  PROVE  LET fresh == NeedsNewDay(bot.ent.risk, today) IN
         /\ bot'.ent.risk \in RiskState /\ bot'.ent.status = bot.ent.status
         /\ bot'.ent.balance = bot.ent.balance
         /\ bot'.ent.risk.riskDayStartedAt # NoDay
         /\ ~ fresh => bot'.ent.risk = bot.ent.risk
                       /\ UNCHANGED <<row, lastRisk, entries>>
         /\ fresh => /\ row' = bot'.ent /\ lastRisk' = bot'.ent.risk
                     /\ entries' = 0 /\ lastRisk'.tradesToday = 0
                     /\ lastRisk'.riskDayStartedAt > bot.ent.risk.riskDayStartedAt
         /\ bot' \in BotType /\ bot'.ent \in Rows
         /\ bot'.pc \in {"insert", "order", "sync"}
         /\ bot'.pc = "order" => ~ Simulation
         /\ bot'.pc # "sync" =>
               /\ ~ bot'.ent.risk.killSwitchTriggered
               /\ MaxTradesPerDay > 0 => bot'.ent.risk.tradesToday < MaxTradesPerDay
         /\ bot'.sim = bot.sim /\ bot'.todo = bot.todo /\ bot'.exit = bot.exit
         /\ bot'.bal = bot.bal /\ bot'.side = bot.side
<1> DEFINE fresh == NeedsNewDay(bot.ent.risk, today)
           risk == EnsureDay(bot.ent.risk, today, bot.equity)
           ent  == [bot.ent EXCEPT !.risk = risk]
           pcs  == IF CanOpenNewTrade(risk, bot.equity)
                   THEN {IF Simulation THEN "insert" ELSE "order", "sync"} ELSE {"sync"}
<1>1. /\ bot.ent.risk \in RiskState /\ today \in Nat \ {0} /\ bot.equity \in Int
      /\ bot.ent \in Rows /\ bot \in BotType
  BY RecordFields DEF Typed, BotTyped, WorldTyped
<1>2. /\ risk \in RiskState /\ risk.riskDayStartedAt # NoDay
      /\ ~ fresh => risk = bot.ent.risk
      /\ fresh => risk.riskDayStartedAt > bot.ent.risk.riskDayStartedAt
                  /\ risk.tradesToday = 0
  BY <1>1, EnsureDayEffect
<1>3. CanOpenNewTrade(risk, bot.equity) =>
         /\ ~ risk.killSwitchTriggered
         /\ MaxTradesPerDay > 0 => risk.tradesToday < MaxTradesPerDay
  BY DEF CanOpenNewTrade
<1>4. /\ row' = IF fresh THEN ent ELSE row
      /\ lastRisk' = IF fresh THEN risk ELSE lastRisk
      /\ entries' = IF fresh THEN 0 ELSE entries
  BY DEF CheckRisk
<1>5. PICK pc \in pcs : bot' = [bot EXCEPT !.pc = pc, !.ent = ent]
  BY DEF CheckRisk
<1>6. /\ pc \in {"insert", "order", "sync"}
      /\ pc = "order" => ~ Simulation
      /\ pc # "sync" => CanOpenNewTrade(risk, bot.equity)
  OBVIOUS
<1> HIDE DEF risk, fresh, pcs
<1>7. ent \in Rows /\ ent.risk = risk /\ ent.status = bot.ent.status
      /\ ent.balance = bot.ent.balance
  BY <1>1, <1>2 DEF Rows
<1> HIDE DEF ent
<1>8. /\ bot' \in BotType /\ bot'.pc = pc /\ bot'.ent = ent
      /\ bot'.sim = bot.sim /\ bot'.todo = bot.todo /\ bot'.exit = bot.exit
      /\ bot'.bal = bot.bal /\ bot'.side = bot.side
  BY <1>1, <1>5, <1>6, <1>7 DEF BotType, BotPcs
<1>9. fresh => /\ row' = ent /\ lastRisk' = risk /\ entries' = 0
  BY <1>4
<1>10. ~ fresh => UNCHANGED <<row, lastRisk, entries>>
  BY <1>4
<1> QED
  BY <1>2, <1>3, <1>6, <1>7, <1>8, <1>9, <1>10 DEF fresh

-----------------------------------------------------------------------------
(* The steps, by what they may write.                                      *)

\* Nothing that is stored changes; the handler goes on undisturbed, finds too
\* few bars, or dies of a fault.
Quiet ==
    /\ UNCHANGED <<row, positions, trades, booked, lastRisk, killedDay, entries>>
    /\ faults' = faults \/ (faults' = faults - 1 /\ faults > 0)
    /\ \/ bot' = bot
       \/ bot' = IdleBot /\ bot.pc = "load"
       \/ bot' = IdleBot /\ faults' = faults - 1

BotWrites ==
    \/ CandleClosed \/ LoadPositions
    \/ \E id \in MayExit, pnl \in Pnls : \E n \in Quantities(bot.sim[id]) :
          PersistExit(id, n, pnl)
    \/ InsertTrade \/ RegisterExit
    \/ Evaluate \/ GuardEntry \/ CheckRisk \/ PlaceOrder \/ InsertPosition
    \/ \E id \in DOMAIN positions : SyncPosition(id)
    \/ UpdateBalance

AgentWrites ==
    \E a \in Agents : \/ SetBalance(a) \/ InsertExternal(a) \/ SaveStopped(a)
                      \/ \E id \in DOMAIN positions : Reconcile(a, id)

LEMMA UnchangedIsQuiet ==
  ASSUME UNCHANGED <<row, positions, trades, faults, booked, lastRisk, killedDay, entries>>
  PROVE  /\ bot' = bot => Quiet
         /\ bot.pc = "load" /\ bot' = IdleBot => Quiet
<1>1. /\ UNCHANGED <<row, positions, trades, booked, lastRisk, killedDay, entries>>
      /\ faults' = faults
  OBVIOUS
<1> QED
  BY <1>1, Zenon DEF Quiet

LEMMA AgentReadIsQuiet ==
  ASSUME NEW a \in Agents,
         StartSync(a) \/ FetchBalance(a) \/ FetchPositions(a) \/ FindOpen(a)
         \/ ApiFails(a) \/ AgentThrows(a)
  PROVE  Quiet /\ bot' = bot
<1>1. CASE StartSync(a)
  BY <1>1, UnchangedIsQuiet DEF StartSync, botState, world, history
<1>2. CASE FetchBalance(a)
  BY <1>2, UnchangedIsQuiet DEF FetchBalance, botState, world, history
<1>3. CASE FetchPositions(a)
  BY <1>3, UnchangedIsQuiet DEF FetchPositions, botState, world, history
<1>4. CASE FindOpen(a)
  BY <1>4, UnchangedIsQuiet DEF FindOpen, botState, world, history
<1>5. CASE ApiFails(a)
  BY <1>5 DEF ApiFails, Quiet, botState, world, history
<1>6. CASE AgentThrows(a)
  BY <1>6 DEF AgentThrows, Quiet, history
<1> QED
  BY <1>1, <1>2, <1>3, <1>4, <1>5, <1>6

(* Every step is quiet or one of the writers.                              *)
LEMMA StepCases ==
  ASSUME [Next]_vars
  PROVE  Quiet \/ BotWrites \/ AgentWrites
<1>1. CASE UNCHANGED vars
  BY <1>1, UnchangedIsQuiet DEF vars
<1>2. CASE CandleClosed \/ BotStep
  <2>1. CASE TooFewBars
    BY <2>1, UnchangedIsQuiet DEF TooFewBars, world, history
  <2>2. TooFewBars \/ BotWrites
    BY <1>2, Zenon DEF BotStep, BotWrites
  <2> QED
    BY <2>1, <2>2
<1>3. ASSUME NEW a \in Agents, StartSync(a) \/ SyncStep(a) \/ ApiFails(a) \/ AgentThrows(a)
      PROVE  Quiet \/ AgentWrites
  <2>1. \/ StartSync(a) \/ FetchBalance(a) \/ FetchPositions(a) \/ FindOpen(a)
        \/ ApiFails(a) \/ AgentThrows(a)
        \/ AgentWrites
    BY <1>3, Zenon DEF SyncStep, AgentWrites
  <2> QED
    BY <2>1, AgentReadIsQuiet, Zenon
<1>4. CASE ExchangeCloses \/ NextDay
  BY <1>4, UnchangedIsQuiet DEF ExchangeCloses, NextDay, history
<1>5. CASE BotThrows \/ Crash
  BY <1>5 DEF BotThrows, Crash, Quiet, history
<1> QED
  BY <1>1, <1>2, <1>3, <1>4, <1>5 DEF Next

(* The tables stay typed and no row is ever deleted.                       *)
LEMMA TablesStep ==
  ASSUME Typed, [Next]_vars
  PROVE  TablesTyped' /\ DOMAIN positions \subseteq DOMAIN positions'
<1> USE DEF Typed
<1>r. row \in Rows /\ DOMAIN positions = 1..Len(positions)
  BY RecordFields DEF TablesTyped
<1>u. ASSUME row' \in Rows, UNCHANGED <<positions, trades>>
      PROVE  TablesTyped' /\ DOMAIN positions \subseteq DOMAIN positions'
  BY <1>u DEF TablesTyped
<1>1. CASE Quiet
  BY <1>1, <1>r, <1>u DEF Quiet
<1>2. CASE CandleClosed \/ LoadPositions \/ Evaluate \/ GuardEntry \/ PlaceOrder
  <2>1. UNCHANGED <<row, positions, trades>>
    BY <1>2 DEF CandleClosed, LoadPositions, Evaluate, GuardEntry, PlaceOrder
  <2> QED
    BY <2>1, <1>r, <1>u
<1>3. ASSUME NEW id \in MayExit, NEW pnl \in Pnls, NEW n \in Quantities(bot.sim[id]),
             PersistExit(id, n, pnl)
      PROVE  TablesTyped' /\ DOMAIN positions \subseteq DOMAIN positions'
  BY <1>3, <1>r, PersistEffect DEF TablesTyped, PersistExit
<1>4. CASE InsertTrade
  BY <1>4, <1>r, TradeEffect DEF TablesTyped, InsertTrade
<1>5. CASE RegisterExit
  BY <1>5, <1>u, RegisterExitEffect DEF RegisterExit
<1>6. CASE CheckRisk
  <2>1. row' \in Rows
    BY <1>6, <1>r, CheckRiskEffect
  <2> QED
    BY <1>6, <2>1, <1>u DEF CheckRisk
<1>7. CASE InsertPosition
  BY <1>7, <1>r, InsertEffect DEF TablesTyped, InsertPosition
<1>8. ASSUME NEW id \in DOMAIN positions, SyncPosition(id)
      PROVE  TablesTyped' /\ DOMAIN positions \subseteq DOMAIN positions'
  BY <1>8, <1>r, SyncEffect DEF TablesTyped, SyncPosition
<1>9. CASE UpdateBalance
  <2>1. row' \in Rows
    BY <1>9, <1>r, RecordFields DEF UpdateBalance, Rows
  <2> QED
    BY <1>9, <2>1, <1>u DEF UpdateBalance
<1>10. ASSUME NEW a \in Agents, SetBalance(a) \/ SaveStopped(a)
       PROVE  TablesTyped' /\ DOMAIN positions \subseteq DOMAIN positions'
  <2>1. agents[a].bal \in Int /\ agents[a].ent \in Rows
    BY DEF AgentsTyped, AgentType
  <2>2. row' \in Rows
    BY <1>10, <1>r, <2>1 DEF SetBalance, SaveStopped, Rows
  <2> QED
    BY <1>10, <2>2, <1>u DEF SetBalance, SaveStopped
<1>11. ASSUME NEW a \in Agents, InsertExternal(a)
       PROVE  TablesTyped' /\ DOMAIN positions \subseteq DOMAIN positions'
  BY <1>11, <1>r, ExternalEffect DEF TablesTyped, InsertExternal
<1>12. ASSUME NEW a \in Agents, NEW id \in DOMAIN positions, Reconcile(a, id)
       PROVE  TablesTyped' /\ DOMAIN positions \subseteq DOMAIN positions'
  BY <1>12, <1>r, ReconcileEffect DEF TablesTyped, Reconcile
<1>13. CASE BotWrites
  BY <1>13, <1>2, <1>3, <1>4, <1>5, <1>6, <1>7, <1>8, <1>9 DEF BotWrites
<1>14. CASE AgentWrites
  BY <1>14, <1>10, <1>11, <1>12 DEF AgentWrites
<1> QED
  BY <1>1, <1>13, <1>14, StepCases

(* The handler stays typed and works on rows that exist.                   *)
LEMMA BotStepTyped ==
  ASSUME Typed, [Next]_vars
  PROVE  BotTyped'
<1> USE DEF Typed
<1>0. DOMAIN positions \subseteq DOMAIN positions'
  BY TablesStep
<1>i. ASSUME bot' = IdleBot PROVE BotTyped'
  BY <1>i, IdleTyped, NoSim DEF BotTyped
<1>b. bot \in BotType /\ DOMAIN bot.sim \subseteq DOMAIN positions
      /\ bot.todo \subseteq DOMAIN positions
  BY DEF BotTyped
<1>u. ASSUME UNCHANGED bot PROVE BotTyped'
  BY <1>u, <1>0 DEF BotTyped
<1>1. CASE Quiet
  BY <1>1, <1>i, <1>u DEF Quiet
<1>2. CASE CandleClosed
  <2>1. bot' = [IdleBot EXCEPT !.pc = "load", !.ent = row] /\ row \in Rows
    BY <1>2 DEF CandleClosed, TablesTyped
  <2>2. /\ bot' \in BotType /\ bot'.pc = "load" /\ bot'.sim = <<>> /\ bot'.todo = {}
    BY <2>1, IdleTyped DEF BotType, BotPcs
  <2> QED
    BY <2>2, NoSim DEF BotTyped
<1>3. CASE LoadPositions
  <2> DEFINE sim == [id \in OpenIds |-> positions[id].qty]
  <2>1. PICK equity \in Equities :
          bot' = [bot EXCEPT !.pc = "candle", !.equity = equity,
                             !.bal = bot.ent.balance, !.todo = OpenIds, !.sim = sim]
    BY <1>3 DEF LoadPositions
  <2>2. OpenIds \in SUBSET Nat /\ OpenIds \subseteq DOMAIN positions
    BY RecordFields DEF OpenIds
  <2>3. sim \in Sims /\ DOMAIN sim = OpenIds
    <3>1. sim \in [OpenIds -> Nat]
      BY <2>2, RecordFields
    <3> QED
      BY <2>2, <3>1, IsSim
  <2>4. equity \in Nat /\ bot.ent.balance \in Int
    BY RecordFields, TradingAssumption
  <2> HIDE DEF sim
  <2>5. bot' \in BotType /\ bot'.pc = "candle" /\ bot'.sim = sim /\ bot'.todo = OpenIds
    BY <1>b, <2>1, <2>2, <2>3, <2>4 DEF BotType, BotPcs
  <2> QED
    BY <1>0, <2>2, <2>3, <2>5 DEF BotTyped
<1>4. ASSUME NEW id \in MayExit, NEW pnl \in Pnls, NEW n \in Quantities(bot.sim[id]),
             PersistExit(id, n, pnl)
      PROVE  BotTyped'
  <2>1. /\ id \in DOMAIN positions /\ bot' \in BotType /\ bot'.pc = "trade"
        /\ bot'.exit.id = id /\ bot'.todo \subseteq bot.todo
        /\ DOMAIN bot'.sim \subseteq DOMAIN bot.sim
    BY <1>4, PersistEffect
  <2> QED
    BY <1>0, <1>b, <2>1 DEF BotTyped
<1>5. CASE InsertTrade
  <2>1. /\ bot.exit.id \in DOMAIN positions /\ bot' \in BotType
        /\ bot' = [bot EXCEPT !.pc = "register"]
    BY <1>5, TradeEffect
  <2>2. bot'.pc = "register" /\ bot'.exit = bot.exit /\ bot'.sim = bot.sim
        /\ bot'.todo = bot.todo
    BY <1>b, <2>1 DEF BotType
  <2> QED
    BY <1>0, <1>b, <2>1, <2>2 DEF BotTyped
<1>6. CASE RegisterExit
  <2>1. bot' \in BotType /\ bot' = [bot EXCEPT !.pc = "candle", !.ent = row']
    BY <1>6, RegisterExitEffect
  <2>2. bot'.pc = "candle" /\ bot'.sim = bot.sim /\ bot'.todo = bot.todo
    BY <1>b, <2>1 DEF BotType
  <2> QED
    BY <1>0, <1>b, <2>1, <2>2 DEF BotTyped
<1>7. CASE Evaluate
  <2>1. NoExit \in Exits
    BY DEF NoExit, Exits
  <2>2. /\ bot' \in BotType /\ bot'.sim = bot.sim /\ bot'.todo = {}
        /\ \/ bot'.pc = "sync"
           \/ bot'.pc = "guard" /\ bot'.side \in Sides
    BY <1>7, <1>b, <2>1 DEF Evaluate, BotType, BotPcs
  <2> QED
    BY <1>0, <1>b, <2>2 DEF BotTyped
<1>8. CASE GuardEntry \/ PlaceOrder
  <2>1. /\ bot' \in BotType /\ bot'.sim = bot.sim /\ bot'.todo = bot.todo
        /\ bot'.side = bot.side /\ bot'.pc \notin {"trade", "register"}
        /\ bot.pc \in {"guard", "order"}
    BY <1>8, <1>b DEF GuardEntry, PlaceOrder, BotType, BotPcs
  <2> QED
    BY <1>0, <1>b, <2>1 DEF BotTyped
<1>9. CASE CheckRisk
  <2>1. /\ bot' \in BotType /\ bot'.sim = bot.sim /\ bot'.todo = bot.todo
        /\ bot'.side = bot.side /\ bot'.pc \notin {"trade", "register"}
        /\ bot.pc = "risk"
    BY <1>9, CheckRiskEffect DEF CheckRisk
  <2> QED
    BY <1>0, <1>b, <2>1 DEF BotTyped
<1>10. CASE InsertPosition
  <2>1. /\ bot' \in BotType /\ bot'.pc = "sync" /\ bot'.todo = bot.todo
        /\ DOMAIN bot'.sim \subseteq DOMAIN positions'
    BY <1>10, <1>b, InsertEffect
  <2> QED
    BY <1>0, <1>b, <2>1 DEF BotTyped
<1>11. ASSUME NEW id \in DOMAIN positions, SyncPosition(id) PROVE BotTyped'
  <2>1. /\ bot' \in BotType /\ bot'.pc = "sync" /\ bot'.todo = bot.todo
        /\ DOMAIN bot'.sim \subseteq DOMAIN bot.sim
    BY <1>11, SyncEffect
  <2> QED
    BY <1>0, <1>b, <2>1 DEF BotTyped
<1>12. CASE UpdateBalance
  BY <1>12, <1>i DEF UpdateBalance
<1>13. CASE AgentWrites
  <2>1. UNCHANGED bot
    BY <1>13 DEF AgentWrites, SetBalance, InsertExternal, SaveStopped, Reconcile, botState
  <2> QED
    BY <2>1, <1>u
<1>14. CASE BotWrites
  BY <1>14, <1>2, <1>3, <1>4, <1>5, <1>6, <1>7, <1>8, <1>9, <1>10, <1>11, <1>12 DEF BotWrites
<1> QED
  BY <1>1, <1>13, <1>14, StepCases

(* The agents.                                                             *)
LEMMA AgentUpdated ==
  ASSUME Typed, NEW a \in Agents, NEW r \in AgentType,
         agents' = [agents EXCEPT ![a] = r],
         DOMAIN positions \subseteq DOMAIN positions',
         r.todo \subseteq DOMAIN positions,
         r.pc = "external" => r.gone \in DOMAIN positions
  PROVE  AgentsTyped'
<1>1. /\ agents \in [Agents -> AgentType]
      /\ \A b \in Agents : agents[b].todo \subseteq DOMAIN positions
      /\ \A b \in Agents : agents[b].pc = "external" => agents[b].gone \in DOMAIN positions
  BY DEF Typed, AgentsTyped
<1>2. /\ agents' \in [Agents -> AgentType]
      /\ agents'[a] = r
      /\ \A b \in Agents : b # a => agents'[b] = agents[b]
  BY <1>1
<1> QED
  BY <1>1, <1>2 DEF AgentsTyped

LEMMA FinishTyped ==
  ASSUME Typed, NEW a \in Agents, Finish(a), DOMAIN positions \subseteq DOMAIN positions'
  PROVE  AgentsTyped'
<1> DEFINE r == IF a = "stop"
                THEN [IdleAgent EXCEPT !.pc = "save", !.ent = agents[a].ent]
                ELSE IdleAgent
<1>1. agents[a] \in AgentType /\ agents[a].ent \in Rows
  BY DEF Typed, AgentsTyped, AgentType
<1>2. r \in AgentType /\ r.todo = {} /\ r.pc # "external"
  BY <1>1, IdleTyped DEF AgentType, AgentPcs
<1>3. agents' = [agents EXCEPT ![a] = r]
  BY DEF Finish
<1> HIDE DEF r
<1> QED
  BY <1>2, <1>3, AgentUpdated

LEMMA AdvanceTyped ==
  ASSUME Typed, NEW a \in Agents, NEW id, Advance(a, id),
         DOMAIN positions \subseteq DOMAIN positions'
  PROVE  AgentsTyped'
<1> DEFINE rest == agents[a].todo \ {id}
           r == [agents[a] EXCEPT !.pc = "apply", !.todo = rest]
<1>1. CASE rest = {}
  BY <1>1, FinishTyped DEF Advance
<1>2. CASE rest # {}
  <2>1. agents[a] \in AgentType /\ agents[a].todo \subseteq DOMAIN positions
    BY DEF Typed, AgentsTyped
  <2>2. rest \in SUBSET Nat /\ rest \subseteq DOMAIN positions
    BY <2>1 DEF AgentType
  <2>3. agents' = [agents EXCEPT ![a] = r]
    BY <1>2 DEF Advance
  <2> HIDE DEF rest
  <2>4. r \in AgentType /\ r.todo = rest /\ r.pc = "apply"
    BY <2>1, <2>2 DEF AgentType, AgentPcs
  <2> HIDE DEF r
  <2> QED
    BY <2>2, <2>3, <2>4, AgentUpdated
<1> QED
  BY <1>1, <1>2

(* The agents stay typed.                                                  *)
LEMMA AgentsStepTyped ==
  ASSUME Typed, [Next]_vars
  PROVE  AgentsTyped'
<1> USE DEF Typed
<1>0. DOMAIN positions \subseteq DOMAIN positions'
  BY TablesStep
<1>u. ASSUME UNCHANGED agents PROVE AgentsTyped'
  BY <1>u, <1>0 DEF AgentsTyped
<1>1. ASSUME NEW a \in Agents, NEW r \in AgentType,
             agents' = [agents EXCEPT ![a] = r], r.todo = agents[a].todo,
             r.pc # "external"
      PROVE  AgentsTyped'
  <2>1. r.todo \subseteq DOMAIN positions
    BY <1>1 DEF AgentsTyped
  <2> QED
    BY <1>0, <1>1, <2>1, AgentUpdated
<1>2. ASSUME NEW a \in Agents PROVE /\ agents[a] \in AgentType
                                    /\ agents[a].todo \in SUBSET Nat
                                    /\ agents[a].todo \subseteq DOMAIN positions
  BY DEF AgentsTyped, AgentType
<1>3. ASSUME NEW a \in Agents, StartSync(a) PROVE AgentsTyped'
  <2> DEFINE pc == IF Simulation THEN AfterSync(a) ELSE "balance"
             ent == IF a = "stop" THEN row ELSE NewRow
             r == [agents[a] EXCEPT !.pc = pc, !.ent = ent]
  <2>1. pc \in AgentPcs /\ pc # "external" /\ ent \in Rows
    BY IdleTyped DEF AfterSync, AgentPcs, TablesTyped
  <2>2. agents' = [agents EXCEPT ![a] = r]
    BY <1>3, Zenon DEF StartSync
  <2> HIDE DEF pc, ent
  <2>3. r \in AgentType /\ r.todo = agents[a].todo /\ r.pc # "external"
    BY <1>2, <2>1 DEF AgentType
  <2> HIDE DEF r
  <2> QED
    BY <1>1, <2>2, <2>3
<1>4. ASSUME NEW a \in Agents, FetchBalance(a) PROVE AgentsTyped'
  <2> DEFINE r == [agents[a] EXCEPT !.pc = "setBalance", !.bal = available]
  <2>1. r \in AgentType /\ r.todo = agents[a].todo /\ r.pc # "external"
    BY <1>2 DEF AgentType, AgentPcs, WorldTyped
  <2>2. agents' = [agents EXCEPT ![a] = r]
    BY <1>4, Zenon DEF FetchBalance
  <2> QED
    BY <1>1, <2>1, <2>2
<1>5. ASSUME NEW a \in Agents, SetBalance(a) PROVE AgentsTyped'
  <2> DEFINE r == [agents[a] EXCEPT !.pc = "fetch", !.bal = 0]
  <2>1. r \in AgentType /\ r.todo = agents[a].todo /\ r.pc # "external"
    BY <1>2, 0 \in Int DEF AgentType, AgentPcs
  <2>2. agents' = [agents EXCEPT ![a] = r]
    BY <1>5, Zenon DEF SetBalance
  <2> QED
    BY <1>1, <2>1, <2>2
<1>6. ASSUME NEW a \in Agents, NEW snap \in [Sides -> Nat],
             agents' = [agents EXCEPT ![a].pc = "find", ![a].snap = snap]
      PROVE  AgentsTyped'
  <2> DEFINE r == [agents[a] EXCEPT !.pc = "find", !.snap = snap]
  <2>1. r \in AgentType /\ r.todo = agents[a].todo /\ r.pc # "external"
    BY <1>2 DEF AgentType, AgentPcs
  <2>2. agents' = [agents EXCEPT ![a] = r]
    BY <1>6, Zenon
  <2> QED
    BY <1>1, <2>1, <2>2
<1>7. ASSUME NEW a \in Agents, FetchPositions(a) PROVE AgentsTyped'
  BY <1>6, <1>7 DEF FetchPositions, WorldTyped
<1>8. ASSUME NEW a \in Agents, ApiFails(a) PROVE AgentsTyped'
  <2>1. CASE Goto(a, "fetch")
    <3> DEFINE r == [agents[a] EXCEPT !.pc = "fetch"]
    <3>1. r \in AgentType /\ r.todo = agents[a].todo /\ r.pc # "external"
      BY <1>2 DEF AgentType, AgentPcs
    <3>2. agents' = [agents EXCEPT ![a] = r]
      BY <2>1, Zenon DEF Goto
    <3> QED
      BY <1>1, <3>1, <3>2
  <2>2. CASE agents' = [agents EXCEPT ![a].pc = "find", ![a].snap = [s \in Sides |-> 0]]
    <3>1. [s \in Sides |-> 0] \in [Sides -> Nat]
      OBVIOUS
    <3> QED
      BY <1>6, <2>2, <3>1, Zenon
  <2> QED
    BY <1>8, <2>1, <2>2 DEF ApiFails
<1>9. ASSUME NEW a \in Agents, FindOpen(a) PROVE AgentsTyped'
  <2>1. CASE OpenIds = {}
    BY <1>0, <1>9, <2>1, FinishTyped DEF FindOpen
  <2>2. CASE OpenIds # {}
    <3> DEFINE r == [agents[a] EXCEPT !.pc = "apply", !.todo = OpenIds]
    <3>1. OpenIds \in SUBSET Nat /\ OpenIds \subseteq DOMAIN positions
      BY RecordFields DEF OpenIds
    <3>2. r \in AgentType /\ r.todo = OpenIds /\ r.pc = "apply"
      BY <1>2, <3>1 DEF AgentType, AgentPcs
    <3>3. agents' = [agents EXCEPT ![a] = r]
      BY <1>9, <2>2, Zenon DEF FindOpen
    <3> HIDE DEF r
    <3> QED
      BY <1>0, <3>1, <3>2, <3>3, AgentUpdated
  <2> QED
    BY <2>1, <2>2
<1>10. ASSUME NEW a \in Agents, NEW id \in DOMAIN positions, Reconcile(a, id)
       PROVE  AgentsTyped'
  <2>1. CASE Advance(a, id)
    BY <1>0, <2>1, AdvanceTyped
  <2>2. CASE agents' = [agents EXCEPT ![a].pc = "external", ![a].gone = id]
    <3> DEFINE r == [agents[a] EXCEPT !.pc = "external", !.gone = id]
    <3>1. id \in Nat
      BY RecordFields
    <3>2. r \in AgentType /\ r.todo = agents[a].todo /\ r.gone = id
      BY <1>2, <3>1 DEF AgentType, AgentPcs
    <3>3. agents' = [agents EXCEPT ![a] = r]
      BY <2>2, Zenon
    <3> HIDE DEF r
    <3> QED
      BY <1>0, <1>2, <3>2, <3>3, AgentUpdated
  <2> QED
    BY <1>10, <2>1, <2>2 DEF Reconcile
<1>11. ASSUME NEW a \in Agents, InsertExternal(a) PROVE AgentsTyped'
  BY <1>0, <1>11, AdvanceTyped DEF InsertExternal
<1>i. ASSUME NEW a \in Agents, agents' = [agents EXCEPT ![a] = IdleAgent] PROVE AgentsTyped'
  BY <1>0, <1>i, IdleTyped, AgentUpdated
<1>12. ASSUME NEW a \in Agents, SaveStopped(a) PROVE AgentsTyped'
  BY <1>12, <1>i DEF SaveStopped
<1>13. ASSUME NEW a \in Agents, AgentThrows(a) PROVE AgentsTyped'
  BY <1>0, <1>13, <1>i, FinishTyped DEF AgentThrows
<1>14. CASE Crash
  BY <1>14, IdleTyped DEF Crash, AgentsTyped
<1>15. CASE UNCHANGED vars \/ CandleClosed \/ ExchangeCloses \/ NextDay \/ BotThrows
  BY <1>15, <1>u DEF vars, CandleClosed, ExchangeCloses, NextDay, BotThrows
<1>16. CASE BotStep
  <2>1. UNCHANGED agents
    BY <1>16 DEF BotStep, TooFewBars, LoadPositions, PersistExit, InsertTrade, RegisterExit,
                 Evaluate, GuardEntry, CheckRisk, PlaceOrder, InsertPosition, SyncPosition,
                 UpdateBalance
  <2> QED
    BY <2>1, <1>u
<1>17. ASSUME NEW a \in Agents, SyncStep(a) PROVE AgentsTyped'
  BY <1>17, <1>4, <1>5, <1>7, <1>9, <1>10, <1>11, <1>12, Zenon DEF SyncStep
<1> QED
  BY <1>3, <1>8, <1>13, <1>14, <1>15, <1>16, <1>17 DEF Next

(* The rest of the state.                                                  *)
LEMMA WorldStepTyped ==
  ASSUME Typed, [Next]_vars
  PROVE  WorldTyped'
<1> USE DEF Typed
<1>u. ASSUME UNCHANGED <<exchange, available, today, candles, faults>> PROVE WorldTyped'
  BY <1>u DEF WorldTyped
<1>1. CASE CandleClosed
  BY <1>1 DEF CandleClosed, WorldTyped, world
<1>2. CASE BotStep
  <2>1. CASE PlaceOrder
    <3>1. bot.side \in Sides /\ Lots \in Nat
      BY <2>1, TradingAssumption DEF PlaceOrder, BotTyped
    <3>2. exchange' \in [Sides -> Nat]
      BY <2>1, <3>1 DEF PlaceOrder, WorldTyped
    <3>3. faults' \in Nat /\ UNCHANGED <<available, today, candles>>
      BY <2>1 DEF PlaceOrder, WorldTyped
    <3> QED
      BY <3>2, <3>3 DEF WorldTyped
  <2>2. PlaceOrder \/ UNCHANGED <<exchange, available, today, candles, faults>>
    BY <1>2 DEF BotStep, TooFewBars, LoadPositions, PersistExit, InsertTrade, RegisterExit,
                Evaluate, GuardEntry, CheckRisk, InsertPosition, SyncPosition,
                UpdateBalance, world
  <2> QED
    BY <1>u, <2>1, <2>2
<1>3. ASSUME NEW a \in Agents, StartSync(a) \/ SyncStep(a) PROVE WorldTyped'
  BY <1>3, <1>u DEF StartSync, SyncStep, FetchBalance, SetBalance, FetchPositions, FindOpen,
                    Reconcile, InsertExternal, SaveStopped, botState, world
<1>4. ASSUME NEW a \in Agents, ApiFails(a) \/ AgentThrows(a) PROVE WorldTyped'
  BY <1>4 DEF ApiFails, AgentThrows, WorldTyped, botState
<1>5. CASE ExchangeCloses
  <2>1. PICK s \in Sides : \E left \in 0..(exchange[s] - 1) :
           exchange' = [exchange EXCEPT ![s] = left]
    BY <1>5 DEF ExchangeCloses
  <2>2. PICK left \in 0..(exchange[s] - 1) : exchange' = [exchange EXCEPT ![s] = left]
    BY <2>1
  <2>3. left \in Nat
    BY DEF WorldTyped
  <2>4. exchange' \in [Sides -> Nat]
    BY <2>2, <2>3 DEF WorldTyped
  <2> QED
    BY <1>5, <2>4, TradingAssumption DEF ExchangeCloses, WorldTyped
<1>6. CASE NextDay \/ BotThrows \/ Crash
  BY <1>6 DEF NextDay, BotThrows, Crash, WorldTyped
<1>7. CASE UNCHANGED vars
  BY <1>7, <1>u DEF vars
<1> QED
  BY <1>1, <1>2, <1>3, <1>4, <1>5, <1>6, <1>7 DEF Next

LEMMA HistoryStepTyped ==
  ASSUME Typed, [Next]_vars
  PROVE  HistoryTyped'
<1> USE DEF Typed
<1>u. ASSUME UNCHANGED <<booked, lastRisk, killedDay, entries>> PROVE HistoryTyped'
  BY <1>u DEF HistoryTyped
<1>1. CASE Quiet
  BY <1>1, <1>u DEF Quiet
<1>2. CASE AgentWrites
  BY <1>2, <1>u DEF AgentWrites, SetBalance, InsertExternal, SaveStopped, Reconcile, history
<1>3. CASE InsertTrade
  BY <1>3, RecordFields DEF InsertTrade, HistoryTyped
<1>4. CASE RegisterExit
  <2>1. lastRisk' \in RiskState /\ lastRisk'.riskDayStartedAt \in Nat
        /\ (killedDay' = killedDay \/ killedDay' = lastRisk'.riskDayStartedAt)
    BY <1>4, RegisterExitEffect DEF RiskState
  <2> QED
    BY <1>4, <2>1 DEF RegisterExit, HistoryTyped
<1>5. CASE CheckRisk
  BY <1>5, CheckRiskEffect DEF CheckRisk, HistoryTyped
<1>6. CASE InsertPosition
  BY <1>6 DEF InsertPosition, HistoryTyped
<1>7. CASE BotWrites /\ ~ InsertTrade /\ ~ RegisterExit /\ ~ CheckRisk /\ ~ InsertPosition
  BY <1>7, <1>u DEF BotWrites, CandleClosed, LoadPositions, PersistExit, Evaluate,
                    GuardEntry, PlaceOrder, SyncPosition, UpdateBalance, history
<1> QED
  BY <1>1, <1>2, <1>3, <1>4, <1>5, <1>6, <1>7, StepCases

LEMMA InitTyped == Init => Typed
<1> SUFFICES ASSUME Init PROVE Typed
  OBVIOUS
<1>1. TablesTyped
  BY IdleTyped DEF Init, TablesTyped
<1>2. BotTyped
  BY IdleTyped, NoSim DEF Init, BotTyped
<1>3. AgentsTyped
  BY IdleTyped DEF Init, AgentsTyped
<1>4. WorldTyped
  BY TradingAssumption DEF Init, WorldTyped
<1>5. HistoryTyped
  BY IdleTyped DEF Init, HistoryTyped, NoDay
<1> QED
  BY <1>1, <1>2, <1>3, <1>4, <1>5 DEF Typed

LEMMA AlwaysTyped == Spec => []Typed
<1>1. Typed /\ [Next]_vars => Typed'
  BY TablesStep, BotStepTyped, AgentsStepTyped, WorldStepTyped, HistoryStepTyped DEF Typed
<1> QED
  BY <1>1, InitTyped, PTL DEF Spec

(* Every table, entity, agent and history variable stays in its type: no   *)
(* step of the handler, an agent or a fault refers to a row that does not  *)
(* exist or writes a quantity, a day or a counter below zero.              *)
THEOREM TypesHold == Spec => []TypeOK
BY AlwaysTyped, TypedIsTypeOK, PTL

-----------------------------------------------------------------------------
(* The risk state.                                                         *)

RiskInv == RiskNeverRewound /\ EntityIsNewest /\ SwitchIsRemembered /\ EntryIsCleared

(* The steps of a candle that carry the entity on as it is.                *)
LEMMA EntityCarried ==
  ASSUME Typed, BotWrites
  PROVE  \/ CandleClosed \/ RegisterExit \/ CheckRisk \/ UpdateBalance
         \/ /\ bot.pc # "idle" /\ bot'.pc # "idle" /\ bot'.ent = bot.ent
            /\ UNCHANGED <<row, lastRisk, killedDay>>
            /\ bot'.pc \in {"order", "insert"} => bot.pc = "order"
<1> DEFINE Carried == /\ bot.pc # "idle" /\ bot'.pc # "idle" /\ bot'.ent = bot.ent
                      /\ UNCHANGED <<row, lastRisk, killedDay>>
                      /\ bot'.pc \in {"order", "insert"} => bot.pc = "order"
<1>b. bot \in BotType
  BY DEF Typed, BotTyped
<1>1. CASE LoadPositions
  <2>1. bot.pc = "load" /\ bot'.pc = "candle" /\ bot'.ent = bot.ent
    BY <1>1, <1>b DEF LoadPositions, BotType
  <2> QED
    BY <1>1, <2>1 DEF LoadPositions, history
<1>2. ASSUME NEW id \in MayExit, NEW pnl \in Pnls, NEW n \in Quantities(bot.sim[id]),
             PersistExit(id, n, pnl)
      PROVE  Carried
  <2>1. bot.pc = "candle" /\ bot'.pc = "trade" /\ bot'.ent = bot.ent
    BY <1>2, PersistEffect DEF PersistExit
  <2> QED
    BY <1>2, <2>1 DEF PersistExit, history
<1>3. CASE InsertTrade
  BY <1>3, <1>b DEF InsertTrade, BotType
<1>4. CASE Evaluate
  BY <1>4, <1>b DEF Evaluate, BotType, history
<1>5. CASE GuardEntry
  BY <1>5, <1>b DEF GuardEntry, BotType, history
<1>6. CASE PlaceOrder
  BY <1>6, <1>b DEF PlaceOrder, BotType, history
<1>7. CASE InsertPosition
  <2>1. bot.pc = "insert" /\ bot'.pc = "sync" /\ bot'.ent = bot.ent
    BY <1>7, InsertEffect DEF InsertPosition
  <2> QED
    BY <1>7, <2>1 DEF InsertPosition
<1>8. ASSUME NEW id \in DOMAIN positions, SyncPosition(id) PROVE Carried
  <2>1. bot.pc = "sync" /\ bot'.pc = "sync" /\ bot'.ent = bot.ent
    BY <1>8, SyncEffect DEF SyncPosition
  <2> QED
    BY <1>8, <2>1 DEF SyncPosition, history
<1> QED
  BY <1>1, <1>2, <1>3, <1>4, <1>5, <1>6, <1>7, <1>8 DEF BotWrites

LEMMA RiskInit == Init => RiskInv
BY IdleTyped DEF Init, RiskInv, RiskNeverRewound, EntityIsNewest, SwitchIsRemembered,
                 EntryIsCleared, NewRow, NewRisk, NoDay

LEMMA RiskStep ==
  ASSUME Typed, RiskInv, [Next]_vars
  PROVE  RiskInv'
<1> USE DEF RiskInv
<1>t. /\ bot \in BotType /\ row \in Rows /\ bot.ent \in Rows
      /\ killedDay \in Nat /\ lastRisk \in RiskState /\ lastRisk.riskDayStartedAt \in Nat
  BY RecordFields DEF Typed, BotTyped, TablesTyped, HistoryTyped, RiskState
<1>1. CASE Quiet
  BY <1>1, IdleTyped DEF Quiet, RiskNeverRewound, EntityIsNewest, SwitchIsRemembered,
                         EntryIsCleared
<1>2. ASSUME NEW a \in Agents, SetBalance(a) \/ SaveStopped(a) PROVE RiskInv'
  <2>1. UNCHANGED <<bot, lastRisk, killedDay>>
    BY <1>2 DEF SetBalance, SaveStopped, botState, history
  <2>2. /\ SetBalance(a) => row'.status = row.status /\ row'.risk = row.risk
        /\ SaveStopped(a) => row'.status = "STOPPED"
    <3>1. agents[a].ent \in Rows
      BY DEF Typed, AgentsTyped, AgentType
    <3> QED
      BY <1>t, <3>1 DEF SetBalance, SaveStopped, Rows
  <2>3. RiskNeverRewound'
    BY <1>2, <2>1, <2>2 DEF RiskNeverRewound
  <2> QED
    BY <2>1, <2>3 DEF EntityIsNewest, SwitchIsRemembered, EntryIsCleared
<1>3. ASSUME NEW a \in Agents,
             InsertExternal(a) \/ \E id \in DOMAIN positions : Reconcile(a, id)
      PROVE  RiskInv'
  <2>1. UNCHANGED <<row, bot, lastRisk, killedDay>>
    BY <1>3 DEF InsertExternal, Reconcile, botState, history
  <2> QED
    BY <2>1 DEF RiskNeverRewound, EntityIsNewest, SwitchIsRemembered, EntryIsCleared
<1>4. CASE CandleClosed
  <2>1. bot'.pc = "load" /\ bot'.ent = row /\ row.status = "RUNNING"
        /\ UNCHANGED <<row, lastRisk, killedDay>>
    BY <1>4 DEF CandleClosed, IdleBot, history
  <2> QED
    BY <2>1 DEF RiskNeverRewound, EntityIsNewest, SwitchIsRemembered, EntryIsCleared
<1>5. CASE RegisterExit
  <2>1. bot'.pc = "candle" /\ bot'.ent = row'
    BY <1>5, <1>t, RegisterExitEffect DEF BotType
  <2>2. /\ row'.risk = lastRisk' /\ row'.status = "RUNNING" /\ bot.ent.risk = lastRisk
    BY <1>5, RegisterExitEffect DEF RegisterExit, EntityIsNewest
  <2>3. /\ lastRisk'.riskDayStartedAt = lastRisk.riskDayStartedAt
        /\ lastRisk.killSwitchTriggered => lastRisk'.killSwitchTriggered
        /\ \/ killedDay' = killedDay
           \/ killedDay' = lastRisk'.riskDayStartedAt /\ lastRisk'.killSwitchTriggered
    BY <1>5, <2>2, RegisterExitEffect
  <2>4. SwitchIsRemembered'
    BY <1>t, <2>3 DEF SwitchIsRemembered
  <2> QED
    BY <2>1, <2>2, <2>4 DEF RiskNeverRewound, EntityIsNewest, EntryIsCleared
<1>6. CASE CheckRisk
  <2>1. bot.ent.risk = lastRisk /\ bot.ent.status = "RUNNING" /\ killedDay' = killedDay
    BY <1>6 DEF CheckRisk, EntityIsNewest
  <2>2. EntryIsCleared'
    BY <1>6, CheckRiskEffect DEF EntryIsCleared
  <2>3. CASE NeedsNewDay(bot.ent.risk, today)
    <3>1. /\ row' = bot'.ent /\ lastRisk' = bot'.ent.risk /\ bot'.ent.status = "RUNNING"
          /\ lastRisk'.riskDayStartedAt > lastRisk.riskDayStartedAt
          /\ lastRisk'.riskDayStartedAt \in Nat
      BY <1>6, <2>1, <2>3, CheckRiskEffect DEF RiskState
    <3>2. SwitchIsRemembered'
      BY <1>t, <2>1, <3>1 DEF SwitchIsRemembered
    <3> QED
      BY <2>2, <3>1, <3>2 DEF RiskNeverRewound, EntityIsNewest
  <2>4. CASE ~ NeedsNewDay(bot.ent.risk, today)
    <3>1. /\ UNCHANGED <<row, lastRisk>> /\ bot'.ent.risk = bot.ent.risk
          /\ bot'.ent.status = bot.ent.status
      BY <1>6, <2>4, CheckRiskEffect
    <3> QED
      BY <2>1, <2>2, <3>1 DEF RiskNeverRewound, EntityIsNewest, SwitchIsRemembered
  <2> QED
    BY <2>3, <2>4
<1>7. CASE UpdateBalance
  <2>1. row'.status = row.status /\ row'.risk = row.risk /\ bot'.pc = "idle"
        /\ UNCHANGED <<lastRisk, killedDay>>
    BY <1>7, <1>t, IdleTyped DEF UpdateBalance, Rows, history
  <2> QED
    BY <2>1 DEF RiskNeverRewound, EntityIsNewest, SwitchIsRemembered, EntryIsCleared
<1>8. CASE /\ bot.pc # "idle" /\ bot'.pc # "idle" /\ bot'.ent = bot.ent
           /\ UNCHANGED <<row, lastRisk, killedDay>>
           /\ bot'.pc \in {"order", "insert"} => bot.pc = "order"
  BY <1>8 DEF RiskNeverRewound, EntityIsNewest, SwitchIsRemembered, EntryIsCleared
<1>9. CASE BotWrites
  BY <1>9, <1>4, <1>5, <1>6, <1>7, <1>8, EntityCarried
<1>10. CASE AgentWrites
  BY <1>10, <1>2, <1>3 DEF AgentWrites
<1> QED
  BY <1>1, <1>9, <1>10, StepCases

LEMMA AlwaysRiskInv == Spec => []RiskInv
BY RiskInit, RiskStep, AlwaysTyped, PTL DEF Spec

(* The row of a running session holds the newest risk state whatever the   *)
(* stop request saves and wherever a crash cuts a candle short, because    *)
(* only the handler makes a row RUNNING again and its entity is never      *)
(* older than the row.                                                     *)
THEOREM RiskIsNeverRewound == Spec => []RiskNeverRewound
<1>1. RiskInv => RiskNeverRewound
  BY DEF RiskInv
<1> QED
  BY <1>1, AlwaysRiskInv, PTL

(* No entry is under way on a day the kill switch was triggered on: the    *)
(* newest risk state keeps the switch until ensureDay starts a later day.  *)
THEOREM TheKillSwitchHolds == Spec => []KillSwitchHolds
<1>1. Typed /\ RiskInv => KillSwitchHolds
  <2> SUFFICES ASSUME Typed, RiskInv, bot.pc \in {"order", "insert"}
               PROVE  bot.ent.risk.riskDayStartedAt > killedDay
    BY DEF KillSwitchHolds
  <2>1. /\ bot.ent.risk = lastRisk /\ lastRisk.riskDayStartedAt # NoDay
        /\ ~ lastRisk.killSwitchTriggered
        /\ killedDay <= lastRisk.riskDayStartedAt
        /\ killedDay = lastRisk.riskDayStartedAt /\ killedDay # NoDay
              => lastRisk.killSwitchTriggered
    BY DEF RiskInv, EntityIsNewest, EntryIsCleared, SwitchIsRemembered
  <2>2. killedDay \in Nat /\ lastRisk.riskDayStartedAt \in Nat
    BY DEF Typed, HistoryTyped, RiskState
  <2> QED
    BY <2>1, <2>2
<1> QED
  BY <1>1, AlwaysTyped, AlwaysRiskInv, PTL

-----------------------------------------------------------------------------
(* One open position per side.                                             *)

(* Fewer held rows on the same sides, and no entry cleared meanwhile.      *)
LEMMA HeldShrinks ==
  ASSUME Typed, OneHeldPerSide, Held' \subseteq Held,
         \A i \in DOMAIN positions : positions'[i].side = positions[i].side,
         bot'.pc \in {"risk", "order", "insert"} =>
            /\ bot.pc \in {"risk", "order", "insert"} /\ bot'.side = bot.side
            /\ OpenIds' \subseteq OpenIds
  PROVE  OneHeldPerSide'
<1>1. Held \subseteq DOMAIN positions /\ OpenIds \subseteq DOMAIN positions
  BY DEF Held, OpenIds, Typed, BotTyped
<1>2. ASSUME NEW i \in Held', NEW j \in Held', positions'[i].side = positions'[j].side
      PROVE  i = j
  BY <1>1, <1>2 DEF OneHeldPerSide
<1>3. ASSUME bot'.pc \in {"risk", "order", "insert"} PROVE OpenOn(bot.side)' = {}
  <2>1. OpenOn(bot.side) = {} /\ OpenIds' \subseteq OpenIds /\ bot'.side = bot.side
    BY <1>3 DEF OneHeldPerSide
  <2> QED
    BY <1>1, <2>1 DEF OpenOn
<1> QED
  BY <1>2, <1>3 DEF OneHeldPerSide

LEMMA HeldInit == Init => OneHeldPerSide
<1> SUFFICES ASSUME Init PROVE OneHeldPerSide
  OBVIOUS
<1>1. OpenIds = {} /\ bot.pc = "idle"
  BY IdleTyped DEF Init, OpenIds
<1> QED
  BY <1>1 DEF OneHeldPerSide, Held, Exiting

LEMMA HeldStep ==
  ASSUME Typed, OneHeldPerSide, [Next]_vars
  PROVE  OneHeldPerSide'
<1>t. /\ bot \in BotType /\ DOMAIN bot.sim \subseteq DOMAIN positions
      /\ OpenIds \subseteq DOMAIN positions
  BY DEF Typed, BotTyped, OpenIds
<1>u. ASSUME UNCHANGED positions, Held' \subseteq Held,
             bot'.pc \in {"risk", "order", "insert"} =>
                bot.pc \in {"risk", "order", "insert"} /\ bot'.side = bot.side
      PROVE  OneHeldPerSide'
  <2>1. OpenIds' = OpenIds
    BY <1>u DEF OpenIds
  <2> QED
    BY <1>u, <2>1, HeldShrinks
<1>o. UNCHANGED positions => OpenIds' = OpenIds
  BY DEF OpenIds
<1>1. CASE Quiet
  <2>1. UNCHANGED positions /\ (bot' = bot \/ bot'.pc = "idle")
    BY <1>1, IdleTyped DEF Quiet
  <2>2. Held' \subseteq Held
    BY <1>o, <2>1 DEF Held, Exiting
  <2> QED
    BY <1>u, <2>1, <2>2
<1>2. CASE CandleClosed \/ UpdateBalance
  <2>1. UNCHANGED positions /\ bot'.pc \in {"idle", "load"}
    BY <1>2, IdleTyped DEF CandleClosed, UpdateBalance, IdleBot
  <2>2. Held' \subseteq Held
    BY <1>o, <2>1 DEF Held, Exiting
  <2> QED
    BY <1>u, <2>1, <2>2
<1>3. CASE LoadPositions
  <2>1. UNCHANGED positions /\ bot'.pc = "candle" /\ DOMAIN bot'.sim = OpenIds
    BY <1>3, <1>t DEF LoadPositions, BotType
  <2>2. Held' \subseteq Held
    BY <1>o, <2>1 DEF Held, Exiting
  <2> QED
    BY <1>u, <2>1, <2>2
<1>4. ASSUME NEW id \in MayExit, NEW pnl \in Pnls, NEW n \in Quantities(bot.sim[id]),
             PersistExit(id, n, pnl)
      PROVE  OneHeldPerSide'
  <2>1. /\ id \in DOMAIN bot.sim /\ id \in DOMAIN positions
        /\ DOMAIN positions' = DOMAIN positions
        /\ \A i \in DOMAIN positions : i # id => positions'[i] = positions[i]
        /\ positions'[id].side = positions[id].side
        /\ bot'.pc = "trade" /\ DOMAIN bot'.sim \subseteq DOMAIN bot.sim
    BY <1>4, PersistEffect DEF Rewritten
  <2>2. OpenIds' \subseteq OpenIds \cup {id} /\ bot.pc = "candle"
    BY <1>4, <2>1 DEF OpenIds, PersistExit
  <2>3. Held' \subseteq Held
    BY <2>1, <2>2 DEF Held, Exiting
  <2>4. \A i \in DOMAIN positions : positions'[i].side = positions[i].side
    BY <2>1
  <2> QED
    BY <2>1, <2>3, <2>4, HeldShrinks
<1>5. CASE InsertTrade \/ RegisterExit
  <2>1. /\ UNCHANGED positions /\ bot'.sim = bot.sim
        /\ bot.pc \in Exiting /\ bot'.pc \in {"candle", "register"}
    BY <1>5, <1>t DEF InsertTrade, RegisterExit, BotType, Exiting
  <2>2. Held' \subseteq Held
    BY <1>o, <2>1 DEF Held
  <2> QED
    BY <1>u, <2>1, <2>2
<1>6. CASE Evaluate
  <2>1. UNCHANGED positions /\ bot'.pc \in {"sync", "guard"}
    BY <1>6, <1>t DEF Evaluate, BotType
  <2>2. Held' \subseteq Held
    BY <1>o, <2>1 DEF Held, Exiting
  <2> QED
    BY <1>u, <2>1, <2>2
<1>7. CASE GuardEntry
  <2>1. /\ UNCHANGED positions /\ bot.pc = "guard" /\ bot'.side = bot.side
        /\ bot'.pc = IF MayOpen(bot.side) THEN "risk" ELSE "sync"
    BY <1>7, <1>t DEF GuardEntry, BotType
  <2>2. Held' \subseteq Held
    BY <1>o, <2>1 DEF Held, Exiting
  <2>3. CASE MayOpen(bot.side)
    <3>1. OpenOn(bot.side)' = {}
      BY <1>o, <2>1, <2>3 DEF MayOpen, OpenOn
    <3>2. \A i, j \in Held' : positions'[i].side = positions'[j].side => i = j
      BY <2>1, <2>2 DEF OneHeldPerSide
    <3> QED
      BY <3>1, <3>2 DEF OneHeldPerSide
  <2>4. CASE ~ MayOpen(bot.side)
    BY <1>u, <2>1, <2>2, <2>4
  <2> QED
    BY <2>3, <2>4
<1>8. CASE CheckRisk
  <2>1. /\ UNCHANGED positions /\ bot.pc = "risk" /\ bot'.side = bot.side
        /\ bot'.pc \in {"insert", "order", "sync"}
    BY <1>8, CheckRiskEffect DEF CheckRisk
  <2>2. Held' \subseteq Held
    BY <1>o, <2>1 DEF Held, Exiting
  <2> QED
    BY <1>u, <2>1, <2>2
<1>9. CASE PlaceOrder
  <2>1. /\ UNCHANGED positions /\ bot.pc = "order" /\ bot'.side = bot.side
        /\ bot'.pc = "insert"
    BY <1>9, <1>t DEF PlaceOrder, BotType
  <2>2. Held' \subseteq Held
    BY <1>o, <2>1 DEF Held, Exiting
  <2> QED
    BY <1>u, <2>1, <2>2
<1>10. CASE InsertPosition
  <2> DEFINE id == Len(positions) + 1
  <2>1. /\ bot.pc = "insert" /\ bot'.pc = "sync"
        /\ DOMAIN positions' = DOMAIN positions \cup {id}
        /\ \A i \in DOMAIN positions : positions'[i] = positions[i]
        /\ positions'[id].side = bot.side
    BY <1>10, InsertEffect DEF InsertPosition
  <2>2. OpenOn(bot.side) = {} /\ Held = OpenIds
    BY <2>1 DEF OneHeldPerSide, Held, Exiting
  <2> HIDE DEF id
  <2>3. Held' \subseteq OpenIds \cup {id}
    BY <2>1 DEF Held, Exiting, OpenIds
  <2>4. \A i \in OpenIds : positions'[i].side = positions[i].side
                           /\ positions[i].side # bot.side
    BY <1>t, <2>1, <2>2 DEF OpenOn
  <2>5. \A i, j \in Held' : positions'[i].side = positions'[j].side => i = j
    <3> SUFFICES ASSUME NEW i \in Held', NEW j \in Held',
                        positions'[i].side = positions'[j].side
                 PROVE  i = j
      OBVIOUS
    <3>1. CASE i \in OpenIds /\ j \in OpenIds
      BY <2>2, <2>4, <3>1 DEF OneHeldPerSide
    <3>2. CASE i = id \/ j = id
      BY <2>1, <2>3, <2>4, <3>2
    <3> QED
      BY <2>3, <3>1, <3>2
  <2> QED
    BY <2>1, <2>5 DEF OneHeldPerSide
<1>11. ASSUME NEW id \in DOMAIN positions, SyncPosition(id) PROVE OneHeldPerSide'
  <2>1. /\ bot'.pc = "sync" /\ DOMAIN positions' = DOMAIN positions
        /\ \A i \in DOMAIN positions : /\ positions'[i].side = positions[i].side
                                       /\ positions'[i].closed = positions[i].closed
    BY <1>11, SyncEffect DEF Rewritten
  <2>2. OpenIds' = OpenIds
    BY <2>1 DEF OpenIds
  <2>3. Held' \subseteq Held
    BY <2>1, <2>2 DEF Held, Exiting
  <2> QED
    BY <2>1, <2>3, HeldShrinks
<1>12. ASSUME NEW a \in Agents, NEW id \in DOMAIN positions, Reconcile(a, id)
       PROVE  OneHeldPerSide'
  <2>1. /\ bot' = bot /\ DOMAIN positions' = DOMAIN positions
        /\ \A i \in DOMAIN positions : /\ positions'[i].side = positions[i].side
                                       /\ positions[i].closed => positions'[i].closed
    BY <1>12, ReconcileEffect DEF Rewritten, Reconcile, botState
  <2>2. OpenIds' \subseteq OpenIds
    BY <2>1 DEF OpenIds
  <2>3. Held' \subseteq Held
    BY <2>1, <2>2 DEF Held, Exiting
  <2> QED
    BY <2>1, <2>2, <2>3, HeldShrinks
<1>13. ASSUME NEW a \in Agents, SetBalance(a) \/ InsertExternal(a) \/ SaveStopped(a)
       PROVE  OneHeldPerSide'
  <2>1. UNCHANGED <<positions, bot>>
    BY <1>13 DEF SetBalance, InsertExternal, SaveStopped, botState
  <2>2. Held' \subseteq Held
    BY <1>o, <2>1 DEF Held
  <2> QED
    BY <1>u, <2>1, <2>2
<1>14. CASE BotWrites
  BY <1>14, <1>2, <1>3, <1>4, <1>5, <1>6, <1>7, <1>8, <1>9, <1>10, <1>11 DEF BotWrites
<1>15. CASE AgentWrites
  BY <1>15, <1>12, <1>13 DEF AgentWrites
<1> QED
  BY <1>1, <1>14, <1>15, StepCases

(* MOM-23: never two open rows on one side, although the guard is two      *)
(* awaits old when the row is inserted and a late partial close reopens    *)
(* what an agent has closed: only the handler opens, and it reopens only   *)
(* rows that were open when it read the table.                             *)
THEOREM OneOpenPerSide == Spec => []AtMostOneOpenPerSide
<1>1. OneHeldPerSide => AtMostOneOpenPerSide
  <2> SUFFICES ASSUME OneHeldPerSide, NEW s \in Sides PROVE Cardinality(OpenOn(s)) <= 1
    BY DEF AtMostOneOpenPerSide
  <2>1. \A i, j \in OpenOn(s) : i = j
    BY DEF OneHeldPerSide, Held, OpenOn
  <2>2. OpenOn(s) = {} \/ \E i : OpenOn(s) = {i}
    BY <2>1
  <2>3. OpenOn(s) = {} => Cardinality(OpenOn(s)) = 0
    BY FS_EmptySet
  <2>4. ASSUME NEW i, OpenOn(s) = {i} PROVE Cardinality(OpenOn(s)) = 1
    BY <2>4, FS_Singleton
  <2> QED
    BY <2>2, <2>3, <2>4
<1>2. Spec => []OneHeldPerSide
  BY HeldInit, HeldStep, AlwaysTyped, PTL DEF Spec
<1> QED
  BY <1>1, <1>2, PTL

-----------------------------------------------------------------------------
(* Paper trading: the handler alone touches the positions.                 *)

LEMMA OnlyStopInit == Init => OnlyStopRuns
BY IdleTyped DEF Init, OnlyStopRuns

LEMMA OnlyStopStep ==
  ASSUME Typed, OnlyStopRuns, [Next]_vars
  PROVE  OnlyStopRuns'
<1> SUFFICES ASSUME Simulation PROVE \A a \in Agents : agents'[a].pc \in {"idle", "save"}
  BY DEF OnlyStopRuns
<1>t. agents \in [Agents -> AgentType]
  BY DEF Typed, AgentsTyped
<1>o. \A a \in Agents : agents[a].pc \in {"idle", "save"}
  BY DEF OnlyStopRuns
<1>u. ASSUME UNCHANGED agents PROVE \A a \in Agents : agents'[a].pc \in {"idle", "save"}
  BY <1>o, <1>u
<1>i. ASSUME NEW a \in Agents, NEW r \in AgentType, r.pc \in {"idle", "save"},
             agents' = [agents EXCEPT ![a] = r]
      PROVE  \A b \in Agents : agents'[b].pc \in {"idle", "save"}
  BY <1>t, <1>o, <1>i
<1>1. ASSUME NEW a \in Agents, StartSync(a)
      PROVE  \A b \in Agents : agents'[b].pc \in {"idle", "save"}
  <2> DEFINE ent == IF a = "stop" THEN row ELSE NewRow
             r == [agents[a] EXCEPT !.pc = "save", !.ent = ent]
  <2>1. a = "stop" /\ AfterSync(a) = "save"
    BY <1>1 DEF StartSync, AfterSync
  <2>2. agents' = [agents EXCEPT ![a] = r]
    BY <1>1, <2>1, Zenon DEF StartSync
  <2>3. ent \in Rows
    BY IdleTyped DEF Typed, TablesTyped
  <2> HIDE DEF ent
  <2>4. r \in AgentType /\ r.pc = "save"
    BY <1>t, <2>3 DEF AgentType, AgentPcs
  <2> HIDE DEF r
  <2> QED
    BY <1>i, <2>2, <2>4
<1>2. ASSUME NEW a \in Agents, SyncStep(a) \/ ApiFails(a)
      PROVE  SaveStopped(a)
  <2>1. agents[a].pc \in {"idle", "save"}
    BY <1>o
  <2> QED
    BY <1>2, <2>1 DEF SyncStep, ApiFails, FetchBalance, SetBalance, FetchPositions, FindOpen,
                      Reconcile, InsertExternal
<1>3. ASSUME NEW a \in Agents, SaveStopped(a)
      PROVE  \A b \in Agents : agents'[b].pc \in {"idle", "save"}
  BY <1>3, <1>i, IdleTyped DEF SaveStopped
<1>4. ASSUME NEW a \in Agents, AgentThrows(a)
      PROVE  \A b \in Agents : agents'[b].pc \in {"idle", "save"}
  <2>1. agents' = [agents EXCEPT ![a] = IdleAgent]
    BY <1>4, <1>o DEF AgentThrows
  <2> QED
    BY <1>i, <2>1, IdleTyped
<1>5. CASE Crash
  BY <1>5, IdleTyped DEF Crash
<1>6. CASE UNCHANGED vars \/ CandleClosed \/ ExchangeCloses \/ NextDay \/ BotThrows
  BY <1>6, <1>u DEF vars, CandleClosed, ExchangeCloses, NextDay, BotThrows
<1>7. CASE BotStep
  <2>1. UNCHANGED agents
    BY <1>7 DEF BotStep, TooFewBars, LoadPositions, PersistExit, InsertTrade, RegisterExit,
                Evaluate, GuardEntry, CheckRisk, PlaceOrder, InsertPosition, SyncPosition,
                UpdateBalance
  <2> QED
    BY <2>1, <1>u
<1> QED
  BY <1>1, <1>2, <1>3, <1>4, <1>5, <1>6, <1>7 DEF Next

(* All an agent writes in paper trading is the row of a stopped session.   *)
LEMMA PaperAgentWrites ==
  ASSUME Typed, OnlyStopRuns, Simulation, AgentWrites
  PROVE  /\ row'.status = "STOPPED"
         /\ UNCHANGED <<positions, trades, bot, booked, lastRisk, entries, faults>>
<1>1. PICK a \in Agents : \/ SetBalance(a) \/ InsertExternal(a) \/ SaveStopped(a)
                          \/ \E id \in DOMAIN positions : Reconcile(a, id)
  BY DEF AgentWrites
<1>2. SaveStopped(a)
  <2>1. agents[a].pc \in {"idle", "save"}
    BY DEF OnlyStopRuns
  <2> QED
    BY <1>1, <2>1 DEF SetBalance, InsertExternal, Reconcile
<1>3. agents[a].ent \in Rows
  BY DEF Typed, AgentsTyped, AgentType
<1> QED
  BY <1>2, <1>3 DEF SaveStopped, botState, history, world, Rows

(* The steps of a candle between the exits that leave the positions, the   *)
(* simulation and its balance alone.                                       *)
LEMMA CandleGoesOn ==
  ASSUME Typed, InsertTrade \/ RegisterExit \/ Evaluate \/ GuardEntry \/ CheckRisk \/ PlaceOrder
  PROVE  /\ UNCHANGED positions /\ bot'.sim = bot.sim /\ bot'.bal = bot.bal
         /\ bot.pc \notin {"idle", "load", "sync"}
         /\ bot'.pc \notin {"idle", "load", "trade"}
<1>b. bot \in BotType
  BY DEF Typed, BotTyped
<1>1. CASE InsertTrade
  BY <1>1, <1>b DEF InsertTrade, BotType
<1>2. CASE RegisterExit
  BY <1>2, <1>b, RegisterExitEffect DEF RegisterExit, BotType
<1>3. CASE Evaluate
  BY <1>3, <1>b DEF Evaluate, BotType
<1>4. CASE GuardEntry
  BY <1>4, <1>b DEF GuardEntry, BotType
<1>5. CASE CheckRisk
  BY <1>5, CheckRiskEffect DEF CheckRisk
<1>6. CASE PlaceOrder
  BY <1>6, <1>b DEF PlaceOrder, BotType
<1> QED
  BY <1>1, <1>2, <1>3, <1>4, <1>5, <1>6

PaperInv == SimIsOpen /\ FinalsOnce

LEMMA PaperInit == Init => PaperInv
BY IdleTyped, NoSim DEF Init, PaperInv, SimIsOpen, FinalsOnce, OpenIds

(* What a candle simulates is open, and an open position has not ended.    *)
LEMMA PaperStep ==
  ASSUME Typed, OnlyStopRuns, PaperInv, [Next]_vars
  PROVE  PaperInv'
<1> SUFFICES ASSUME Simulation PROVE PaperInv'
  BY DEF PaperInv, SimIsOpen, FinalsOnce
<1> USE DEF PaperInv
<1>b. bot \in BotType
  BY DEF Typed, BotTyped
<1>r. /\ DOMAIN trades = DOMAIN positions
      /\ \A id \in DOMAIN positions : positions[id].closed \in BOOLEAN /\ trades[id].finals \in Nat
  BY RecordFields
<1>s. /\ DOMAIN bot.sim \subseteq OpenIds
      /\ bot.pc \notin {"idle", "load", "sync"} => OpenIds \subseteq DOMAIN bot.sim
      /\ bot.pc \in {"idle", "load"} => DOMAIN bot.sim = {}
  BY DEF SimIsOpen
<1>f. \A id \in DOMAIN positions : /\ trades[id].finals <= 1
                                   /\ ~ positions[id].closed => trades[id].finals = 0
  BY DEF FinalsOnce
<1>o. UNCHANGED positions => OpenIds' = OpenIds
  BY DEF OpenIds
<1>u. ASSUME UNCHANGED <<positions, trades>>,
             bot' = bot \/ bot'.pc \notin {"trade"}
      PROVE  FinalsOnce'
  BY <1>u, <1>f DEF FinalsOnce
<1>1. CASE Quiet \/ CandleClosed \/ UpdateBalance
  <2>1. /\ UNCHANGED <<positions, trades>>
        /\ bot' = bot \/ (bot'.pc \in {"idle", "load"} /\ bot'.sim = <<>>)
    BY <1>1, IdleTyped DEF Quiet, CandleClosed, UpdateBalance, IdleBot
  <2>2. SimIsOpen'
    BY <1>o, <1>s, <2>1, NoSim DEF SimIsOpen
  <2> QED
    BY <1>u, <2>1, <2>2
<1>2. CASE LoadPositions
  <2>1. /\ UNCHANGED <<positions, trades>> /\ bot'.pc = "candle" /\ DOMAIN bot'.sim = OpenIds
    BY <1>2, <1>b DEF LoadPositions, BotType
  <2> QED
    BY <1>o, <1>u, <2>1 DEF SimIsOpen
<1>3. ASSUME NEW id \in MayExit, NEW pnl \in Pnls, NEW n \in Quantities(bot.sim[id]),
             PersistExit(id, n, pnl)
      PROVE  PaperInv'
  <2> DEFINE last == n = bot.sim[id]
  <2>1. /\ id \in DOMAIN bot.sim /\ id \in DOMAIN positions
        /\ DOMAIN positions' = DOMAIN positions
        /\ \A i \in DOMAIN positions : i # id => positions'[i] = positions[i]
        /\ positions'[id].closed = last
        /\ bot'.pc = "trade" /\ bot'.exit.id = id /\ bot'.exit.last = last
        /\ last => DOMAIN bot'.sim = DOMAIN bot.sim \ {id}
        /\ ~ last => DOMAIN bot'.sim = DOMAIN bot.sim
    BY <1>3, PersistEffect DEF Rewritten
  <2> HIDE DEF last
  <2>2. trades' = trades /\ bot.pc = "candle"
    BY <1>3 DEF PersistExit
  <2>3. DOMAIN bot.sim = OpenIds /\ id \in OpenIds
    BY <1>s, <2>1, <2>2
  <2>4. /\ last => OpenIds' = OpenIds \ {id}
        /\ ~ last => OpenIds' = OpenIds
    BY <2>1, <2>3 DEF OpenIds
  <2>5. trades[id].finals = 0
    BY <1>f, <2>3 DEF OpenIds
  <2>6. SimIsOpen'
    BY <2>1, <2>3, <2>4 DEF SimIsOpen
  <2>7. FinalsOnce'
    BY <1>f, <2>1, <2>2, <2>5 DEF FinalsOnce
  <2> QED
    BY <2>6, <2>7
<1>4. CASE InsertTrade
  <2> DEFINE id == bot.exit.id
  <2>1. /\ id \in DOMAIN positions /\ DOMAIN trades' = DOMAIN trades
        /\ \A i \in DOMAIN trades : i # id => trades'[i] = trades[i]
        /\ trades'[id].finals = trades[id].finals + (IF bot.exit.last THEN 1 ELSE 0)
    BY <1>4, TradeEffect DEF TradeAdded
  <2>2. positions[id].closed = bot.exit.last /\ trades[id].finals = 0
    BY <1>4 DEF InsertTrade, FinalsOnce
  <2>3. UNCHANGED positions /\ bot'.pc = "register"
    BY <1>4, <1>b DEF InsertTrade, BotType
  <2>4. FinalsOnce'
    BY <1>f, <1>r, <2>1, <2>2, <2>3 DEF FinalsOnce
  <2>5. SimIsOpen'
    BY <1>4, <1>o, <1>s, CandleGoesOn DEF SimIsOpen
  <2> QED
    BY <2>4, <2>5
<1>5. CASE RegisterExit \/ Evaluate \/ GuardEntry \/ CheckRisk \/ PlaceOrder
  <2>1. UNCHANGED <<positions, trades>>
    BY <1>5 DEF RegisterExit, Evaluate, GuardEntry, CheckRisk, PlaceOrder
  <2>2. bot'.sim = bot.sim /\ bot.pc \notin {"idle", "load", "sync"}
        /\ bot'.pc \notin {"idle", "load", "trade"}
    BY <1>5, CandleGoesOn
  <2>3. SimIsOpen'
    BY <1>o, <1>s, <2>1, <2>2 DEF SimIsOpen
  <2> QED
    BY <1>u, <2>1, <2>2, <2>3
<1>6. CASE InsertPosition
  <2> DEFINE id == Len(positions) + 1
  <2>1. /\ DOMAIN positions' = DOMAIN positions \cup {id} /\ id \notin DOMAIN positions
        /\ \A i \in DOMAIN positions : positions'[i] = positions[i] /\ trades'[i] = trades[i]
        /\ positions'[id].closed = FALSE /\ trades'[id].finals = 0
        /\ bot'.pc = "sync" /\ DOMAIN bot'.sim = DOMAIN bot.sim \cup {id}
    BY <1>6, InsertEffect
  <2> HIDE DEF id
  <2>2. OpenIds' = OpenIds \cup {id}
    BY <2>1 DEF OpenIds
  <2>3. SimIsOpen'
    BY <1>s, <2>1, <2>2 DEF SimIsOpen
  <2>4. FinalsOnce'
    BY <1>f, <2>1 DEF FinalsOnce
  <2> QED
    BY <2>3, <2>4
<1>7. ASSUME NEW id \in DOMAIN positions, SyncPosition(id) PROVE PaperInv'
  <2>1. /\ DOMAIN positions' = DOMAIN positions
        /\ \A i \in DOMAIN positions : positions'[i].closed = positions[i].closed
        /\ bot'.pc = "sync" /\ DOMAIN bot'.sim = DOMAIN bot.sim \ {id}
    BY <1>7, SyncEffect DEF Rewritten
  <2>2. OpenIds' = OpenIds /\ trades' = trades
    BY <1>7, <2>1 DEF OpenIds, SyncPosition
  <2>3. SimIsOpen'
    BY <1>s, <2>1, <2>2 DEF SimIsOpen
  <2>4. FinalsOnce'
    BY <1>f, <2>1, <2>2 DEF FinalsOnce
  <2> QED
    BY <2>3, <2>4
<1>8. CASE AgentWrites
  <2>1. UNCHANGED <<positions, trades, bot>>
    BY <1>8, PaperAgentWrites
  <2>2. SimIsOpen'
    BY <1>o, <1>s, <2>1 DEF SimIsOpen
  <2> QED
    BY <1>u, <2>1, <2>2
<1>9. CASE BotWrites
  BY <1>9, <1>1, <1>2, <1>3, <1>4, <1>5, <1>6, <1>7 DEF BotWrites
<1> QED
  BY <1>1, <1>8, <1>9, StepCases

LEMMA AlwaysPaper == Spec => [](OnlyStopRuns /\ PaperInv)
BY OnlyStopInit, OnlyStopStep, PaperInit, PaperStep, AlwaysTyped, PTL DEF Spec

(* A paper position ends at most once in the trades table, wherever the    *)
(* handler dies: only open rows are simulated, and the row is closed       *)
(* before its final trade is inserted.                                     *)
THEOREM OneFinalTrade == Spec => []AtMostOneFinalTrade
<1>1. Typed /\ PaperInv => AtMostOneFinalTrade
  <2> SUFFICES ASSUME Typed, PaperInv, Simulation, NEW id \in DOMAIN trades
               PROVE  trades[id].finals <= 1
    BY DEF AtMostOneFinalTrade
  <2>1. id \in DOMAIN positions
    BY RecordFields
  <2> QED
    BY <2>1 DEF PaperInv, FinalsOnce
<1> QED
  BY <1>1, AlwaysTyped, AlwaysPaper, PTL

-----------------------------------------------------------------------------
(* The books of an undisturbed paper session.                              *)

(* A fault disturbs for good.                                              *)
LEMMA FaultsInit == Init => FaultsSpent
BY TradingAssumption DEF Init, FaultsSpent

LEMMA FaultsStep ==
  ASSUME Typed, FaultsSpent, [Next]_vars
  PROVE  /\ FaultsSpent'
         /\ Undisturbed' => Undisturbed /\ faults' = faults
<1>1. faults \in Nat /\ MaxFaults \in Nat
  BY TradingAssumption DEF Typed, WorldTyped
<1>2. faults' = faults \/ faults' = faults - 1
  <2>1. CASE Quiet
    BY <2>1 DEF Quiet
  <2>2. CASE AgentWrites
    BY <2>2 DEF AgentWrites, SetBalance, InsertExternal, SaveStopped, Reconcile, world
  <2>3. CASE BotWrites
    BY <2>3 DEF BotWrites, CandleClosed, LoadPositions, PersistExit, InsertTrade,
                RegisterExit, Evaluate, GuardEntry, CheckRisk, PlaceOrder, InsertPosition,
                SyncPosition, UpdateBalance, world
  <2> QED
    BY <2>1, <2>2, <2>3, StepCases
<1> QED
  BY <1>1, <1>2 DEF FaultsSpent, Undisturbed

LEMMA BooksInit == Init => BooksBalance
BY IdleTyped, TradingAssumption DEF Init, BooksBalance, NewRow

(* The balance of the handler follows the trades it has booked, and the    *)
(* row follows the handler.                                                *)
LEMMA BooksStep ==
  ASSUME Typed, OnlyStopRuns, FaultsSpent, BooksBalance, [Next]_vars
  PROVE  BooksBalance'
<1> SUFFICES ASSUME Undisturbed' PROVE BooksBalance'
  BY DEF BooksBalance
<1>d. Undisturbed /\ Simulation /\ faults' = faults /\ faults \in Nat
  BY FaultsStep DEF Undisturbed, Typed, WorldTyped
<1>b. bot \in BotType /\ row \in Rows
  BY DEF Typed, BotTyped, TablesTyped
<1>r. /\ row.balance \in Int /\ bot.ent.balance \in Int /\ bot.bal \in Int /\ booked \in Int
      /\ bot.exit.pnl \in Int /\ StartingBalance \in Int
  BY RecordFields, TradingAssumption DEF Typed, HistoryTyped
<1>i. /\ bot.pc \in {"idle", "load"} /\ row.status = "RUNNING"
            => row.balance = StartingBalance + booked
      /\ bot.pc = "load" => bot.ent.balance = StartingBalance + booked
      /\ bot.pc \notin {"idle", "load"} =>
            bot.bal = StartingBalance + booked
                         + (IF bot.pc = "trade" THEN bot.exit.pnl ELSE 0)
  BY <1>d DEF BooksBalance
<1>1. CASE Quiet
  <2>1. UNCHANGED <<row, booked>>
        /\ (bot' = bot \/ (bot'.pc = "idle" /\ bot.pc = "load"))
    BY <1>1, <1>d, IdleTyped DEF Quiet
  <2> QED
    BY <1>i, <2>1 DEF BooksBalance
<1>2. CASE CandleClosed
  <2>1. /\ UNCHANGED <<row, booked>> /\ bot.pc = "idle" /\ row.status = "RUNNING"
        /\ bot'.pc = "load" /\ bot'.ent = row
    BY <1>2 DEF CandleClosed, IdleBot, history
  <2> QED
    BY <1>i, <2>1 DEF BooksBalance
<1>3. CASE LoadPositions
  <2>1. /\ booked' = booked /\ bot.pc = "load" /\ bot'.pc = "candle"
        /\ bot'.bal = bot.ent.balance
    BY <1>3, <1>b DEF LoadPositions, BotType, history
  <2> QED
    BY <1>i, <1>r, <2>1 DEF BooksBalance
<1>4. ASSUME NEW id \in MayExit, NEW pnl \in Pnls, NEW n \in Quantities(bot.sim[id]),
             PersistExit(id, n, pnl)
      PROVE  BooksBalance'
  <2>1. /\ booked' = booked /\ bot.pc = "candle" /\ bot'.pc = "trade"
        /\ bot'.bal = bot.bal + pnl /\ bot'.exit.pnl = pnl /\ pnl \in Int
    BY <1>4, PersistEffect DEF PersistExit, history
  <2> QED
    BY <1>i, <1>r, <2>1 DEF BooksBalance
<1>5. CASE InsertTrade
  <2>1. /\ booked' = booked + bot.exit.pnl /\ bot.pc = "trade" /\ bot'.pc = "register"
        /\ bot'.bal = bot.bal
    BY <1>5, <1>b DEF InsertTrade, BotType
  <2> QED
    BY <1>i, <1>r, <2>1 DEF BooksBalance
<1>6. CASE RegisterExit \/ Evaluate \/ GuardEntry \/ CheckRisk \/ PlaceOrder
  <2>1. /\ bot'.bal = bot.bal /\ bot.pc \notin {"idle", "load"}
        /\ bot'.pc \notin {"idle", "load", "trade"}
    BY <1>6, CandleGoesOn
  <2>2. booked' = booked /\ bot.pc # "trade"
    BY <1>6 DEF RegisterExit, Evaluate, GuardEntry, CheckRisk, PlaceOrder, history
  <2> QED
    BY <1>i, <2>1, <2>2 DEF BooksBalance
<1>7. CASE InsertPosition
  <2>1. bot.pc = "insert" /\ bot'.pc = "sync" /\ bot'.bal = bot.bal /\ booked' = booked
    BY <1>7, InsertEffect DEF InsertPosition
  <2> QED
    BY <1>i, <2>1 DEF BooksBalance
<1>8. ASSUME NEW id \in DOMAIN positions, SyncPosition(id) PROVE BooksBalance'
  <2>1. bot.pc = "sync" /\ bot'.pc = "sync" /\ bot'.bal = bot.bal /\ booked' = booked
    BY <1>8, SyncEffect DEF SyncPosition, history
  <2> QED
    BY <1>i, <2>1 DEF BooksBalance
<1>9. CASE UpdateBalance
  <2>1. /\ bot.pc = "sync" /\ bot'.pc = "idle" /\ row'.balance = bot.bal /\ booked' = booked
    BY <1>9, <1>b, IdleTyped DEF UpdateBalance, history, Rows
  <2> QED
    BY <1>i, <1>r, <2>1 DEF BooksBalance
<1>10. CASE AgentWrites
  <2>1. row'.status = "STOPPED" /\ UNCHANGED <<bot, booked>>
    BY <1>10, <1>d, PaperAgentWrites
  <2> QED
    BY <1>i, <2>1 DEF BooksBalance
<1>11. CASE BotWrites
  BY <1>11, <1>2, <1>3, <1>4, <1>5, <1>6, <1>7, <1>8, <1>9 DEF BotWrites
<1> QED
  BY <1>1, <1>10, <1>11, StepCases

LEMMA QuantitiesInit == Init => QuantitiesBalance
BY DEF Init, QuantitiesBalance

(* A position stays in balance when its row, its trades and what is        *)
(* simulated of it do, and no exit of it is pending before or after.       *)
LEMMA StaysBalanced ==
  ASSUME Typed, NEW id \in DOMAIN positions, Balanced(id), ~ Unbooked(id), ~ Unbooked(id)',
         trades'[id] = trades[id], positions'[id].closed = positions[id].closed,
         ~ positions[id].closed => Left(id)' = Left(id)
  PROVE  Balanced(id)'
BY DEF Balanced, Pending

LEMMA QuantitiesStep ==
  ASSUME Typed, OnlyStopRuns, PaperInv, FaultsSpent, QuantitiesBalance, [Next]_vars
  PROVE  QuantitiesBalance'
<1> SUFFICES ASSUME Undisturbed', NEW id \in DOMAIN positions' PROVE Balanced(id)'
  BY DEF QuantitiesBalance
<1>d. Undisturbed /\ Simulation /\ faults' = faults /\ faults \in Nat
  BY FaultsStep DEF Undisturbed, Typed, WorldTyped
<1>b. bot \in BotType
  BY DEF Typed, BotTyped
<1>i. \A i \in DOMAIN positions : Balanced(i)
  BY <1>d DEF QuantitiesBalance
<1>s. /\ DOMAIN bot.sim \subseteq OpenIds
      /\ bot.pc \notin {"idle", "load", "sync"} => OpenIds \subseteq DOMAIN bot.sim
      /\ bot.pc \in {"idle", "load"} => DOMAIN bot.sim = {}
  BY <1>d DEF PaperInv, SimIsOpen
<1>r. \A i \in DOMAIN positions :
        /\ positions[i].closed \in BOOLEAN /\ positions[i].qty \in Nat
        /\ trades[i].sold \in Nat /\ trades[i].finals \in Nat
  BY RecordFields
<1>t. DOMAIN trades = DOMAIN positions
  BY RecordFields
<1>u. ASSUME UNCHANGED <<positions, trades>>, ~ Unbooked(id), bot'.pc # "trade",
             ~ positions[id].closed => Left(id)' = Left(id)
      PROVE  Balanced(id)'
  <2>1. ~ Unbooked(id)' /\ id \in DOMAIN positions
    BY <1>u DEF Unbooked
  <2> QED
    BY <1>i, <1>u, <2>1, StaysBalanced
<1>1. CASE UNCHANGED <<positions, trades, bot>>
  BY <1>1, <1>i DEF Balanced, Pending, Unbooked, Left
<1>2. CASE Quiet \/ CandleClosed \/ UpdateBalance
  <2>1. UNCHANGED <<positions, trades>>
    BY <1>2 DEF Quiet, CandleClosed, UpdateBalance
  <2>a. \/ bot' = bot
        \/ /\ bot'.pc \in {"idle", "load"} /\ bot'.sim = <<>>
           /\ DOMAIN bot.sim = {} /\ bot.pc # "trade"
    <3>1. CASE Quiet
      BY <1>d, <1>s, <3>1, IdleTyped DEF Quiet
    <3>2. CASE CandleClosed
      BY <1>s, <3>2 DEF CandleClosed, IdleBot
    <3>3. CASE UpdateBalance
      BY <3>3, IdleTyped DEF UpdateBalance
    <3> QED
      BY <1>2, <3>1, <3>2, <3>3
  <2>2. CASE bot' = bot
    BY <1>1, <2>1, <2>2
  <2>3. CASE bot' # bot
    BY <1>u, <2>1, <2>a, <2>3, NoSim DEF Unbooked, Left
  <2> QED
    BY <2>2, <2>3
<1>3. CASE LoadPositions
  <2>1. /\ UNCHANGED <<positions, trades>> /\ bot.pc = "load" /\ bot'.pc = "candle"
        /\ bot'.sim = [i \in OpenIds |-> positions[i].qty]
    BY <1>3, <1>b DEF LoadPositions, BotType
  <2>2. ~ positions[id].closed => Left(id)' = Left(id)
    BY <1>s, <2>1 DEF Left, OpenIds
  <2> QED
    BY <1>u, <2>1, <2>2 DEF Unbooked
<1>4. ASSUME NEW x \in MayExit, NEW pnl \in Pnls, NEW n \in Quantities(bot.sim[x]),
             PersistExit(x, n, pnl)
      PROVE  Balanced(id)'
  <2> DEFINE last == n = bot.sim[x]
  <2>1. /\ x \in DOMAIN bot.sim /\ x \in DOMAIN positions /\ n \in Nat /\ n <= bot.sim[x]
        /\ bot.sim[x] \in Nat
        /\ DOMAIN positions' = DOMAIN positions
        /\ \A i \in DOMAIN positions : i # x => positions'[i] = positions[i]
        /\ positions'[x].closed = last
        /\ bot'.pc = "trade" /\ bot'.exit.id = x /\ bot'.exit.qty = n
        /\ last => DOMAIN bot'.sim = DOMAIN bot.sim \ {x}
        /\ ~ last => DOMAIN bot'.sim = DOMAIN bot.sim
        /\ \A i \in DOMAIN bot'.sim :
              bot'.sim[i] = IF i = x THEN bot.sim[i] - n ELSE bot.sim[i]
    BY <1>4, PersistEffect DEF Rewritten
  <2>2. trades' = trades /\ bot.pc = "candle"
    BY <1>4 DEF PersistExit
  <2>3. CASE id # x
    <3>1. /\ ~ Unbooked(id) /\ ~ Unbooked(id)' /\ positions'[id] = positions[id]
          /\ trades'[id] = trades[id] /\ id \in DOMAIN positions
      BY <2>1, <2>2, <2>3 DEF Unbooked
    <3>2. Left(id)' = Left(id)
      BY <2>1, <2>3, <3>1 DEF Left
    <3> QED
      BY <1>i, <3>1, <3>2, StaysBalanced
  <2>4. CASE id = x
    <3>1. ~ positions[x].closed /\ ~ Unbooked(x)
      BY <1>s, <2>1, <2>2 DEF OpenIds, Unbooked
    <3>2. trades[x].sold + bot.sim[x] = Lots /\ trades[x].finals = 0
      BY <1>i, <1>r, <2>1, <3>1 DEF Balanced, Pending, Left
    <3>3. Unbooked(x)' /\ Pending(x)' = n
      BY <2>1 DEF Unbooked, Pending
    <3>4. CASE last
      BY <1>r, <2>1, <2>2, <2>4, <3>2, <3>3, <3>4 DEF Balanced
    <3>5. CASE ~ last
      <4>1. Left(x)' = bot.sim[x] - n
        BY <2>1, <3>5 DEF Left
      <4> HIDE DEF last
      <4> QED
        BY <1>r, <2>1, <2>2, <2>4, <3>2, <3>3, <3>5, <4>1 DEF Balanced
    <3> QED
      BY <3>4, <3>5
  <2> QED
    BY <2>3, <2>4
<1>5. CASE InsertTrade
  <2> DEFINE x == bot.exit.id
             f == IF bot.exit.last THEN 1 ELSE 0
  <2>1. /\ x \in DOMAIN positions
        /\ \A i \in DOMAIN trades : i # x => trades'[i] = trades[i]
        /\ trades'[x].sold = trades[x].sold + bot.exit.qty
        /\ trades'[x].finals = trades[x].finals + f
    BY <1>5, TradeEffect DEF TradeAdded
  <2>2. /\ UNCHANGED positions /\ bot.pc = "trade" /\ bot'.pc = "register"
        /\ bot'.sim = bot.sim
    BY <1>5, <1>b DEF InsertTrade, BotType
  <2>3. Left(id)' = Left(id)
    BY <2>2 DEF Left
  <2>4. CASE id # x
    <3>1. ~ Unbooked(id) /\ ~ Unbooked(id)' /\ id \in DOMAIN positions
      BY <2>2, <2>4 DEF Unbooked
    <3> QED
      BY <1>i, <1>t, <2>1, <2>2, <2>3, <2>4, <3>1, StaysBalanced
  <2>5. CASE id = x
    <3>1. /\ positions[x].closed = bot.exit.last /\ bot.exit.qty \in Nat
      BY <1>d, <2>2, RecordFields DEF PaperInv, FinalsOnce
    <3>2. Unbooked(x) /\ Pending(x) = bot.exit.qty /\ Pending(id)' = 0 /\ ~ Unbooked(id)'
      BY <2>2, <2>5 DEF Unbooked, Pending
    <3>3. CASE bot.exit.last
      <4>0. positions[x].closed
        BY <3>1, <3>3
      <4>1. trades[x].sold + bot.exit.qty = Lots /\ trades[x].finals = 0
        BY <1>i, <2>1, <3>2, <4>0 DEF Balanced
      <4>f. f = 1
        BY <3>3
      <4> HIDE DEF f
      <4>2. trades'[x].sold = Lots /\ trades'[x].finals = 1
        BY <1>r, <2>1, <3>1, <4>1, <4>f
      <4>3. positions'[id].closed /\ trades'[id].sold = Lots /\ trades'[id].finals = 1
        BY <2>2, <2>5, <4>0, <4>2
      <4>4. Lots \in Nat
        BY TradingAssumption
      <4> QED
        BY <3>2, <4>3, <4>4 DEF Balanced
    <3>4. CASE ~ bot.exit.last
      <4>0. ~ positions[x].closed
        BY <3>1, <3>4
      <4>1. trades[x].sold + bot.exit.qty + Left(x) = Lots /\ trades[x].finals = 0
        BY <1>i, <2>1, <3>2, <4>0 DEF Balanced
      <4>2. Left(x) \in Nat
        BY <1>b, <1>r, <2>1, SimValues DEF BotType, Left
      <4>3. f = 0
        BY <3>4
      <4> HIDE DEF f
      <4>4. trades'[x].sold = trades[x].sold + bot.exit.qty /\ trades'[x].finals = 0
        BY <1>r, <2>1, <4>1, <4>3
      <4>5. ~ positions'[id].closed /\ Left(id)' = Left(x)
        BY <2>2, <2>3, <2>5, <4>0
      <4>6. trades'[id].sold + 0 + Left(id)' = Lots /\ trades'[id].finals = 0
        BY <1>r, <2>1, <2>5, <3>1, <4>1, <4>2, <4>4, <4>5
      <4> QED
        BY <3>2, <4>5, <4>6 DEF Balanced
    <3> QED
      BY <3>3, <3>4
  <2> QED
    BY <2>4, <2>5
<1>6. CASE RegisterExit \/ Evaluate \/ GuardEntry \/ CheckRisk \/ PlaceOrder
  <2>1. UNCHANGED <<positions, trades>> /\ bot.pc # "trade"
    BY <1>6 DEF RegisterExit, Evaluate, GuardEntry, CheckRisk, PlaceOrder
  <2>2. bot'.sim = bot.sim /\ bot'.pc # "trade"
    BY <1>6, CandleGoesOn
  <2> QED
    BY <1>u, <2>1, <2>2 DEF Unbooked, Left
<1>7. CASE InsertPosition
  <2> DEFINE x == Len(positions) + 1
  <2>1. /\ DOMAIN positions' = DOMAIN positions \cup {x} /\ x \notin DOMAIN positions
        /\ \A i \in DOMAIN positions : positions'[i] = positions[i] /\ trades'[i] = trades[i]
        /\ positions'[x].closed = FALSE /\ trades'[x].finals = 0 /\ trades'[x].sold = 0
        /\ bot'.pc = "sync" /\ DOMAIN bot'.sim = DOMAIN bot.sim \cup {x}
        /\ \A i \in DOMAIN bot'.sim : bot'.sim[i] = IF i = x THEN Lots ELSE bot.sim[i]
    BY <1>7, InsertEffect
  <2> HIDE DEF x
  <2>2. ~ Unbooked(id) /\ ~ Unbooked(id)'
    BY <1>7, <2>1 DEF Unbooked, InsertPosition
  <2>3. CASE id # x
    <3>1. id \in DOMAIN positions /\ Left(id)' = Left(id)
      BY <2>1, <2>3 DEF Left
    <3> QED
      BY <1>i, <2>1, <2>2, <3>1, StaysBalanced
  <2>4. CASE id = x
    <3>1. Left(id)' = Lots /\ Pending(id)' = 0 /\ Lots \in Nat
      BY <2>1, <2>2, <2>4, TradingAssumption DEF Left, Pending
    <3> QED
      BY <2>1, <2>4, <3>1 DEF Balanced
  <2> QED
    BY <2>3, <2>4
<1>8. ASSUME NEW x \in DOMAIN positions, SyncPosition(x) PROVE Balanced(id)'
  <2>1. /\ x \in DOMAIN bot.sim /\ DOMAIN positions' = DOMAIN positions
        /\ \A i \in DOMAIN positions : i # x => positions'[i] = positions[i]
        /\ positions'[x].closed = positions[x].closed /\ positions'[x].qty = bot.sim[x]
        /\ bot'.pc = "sync" /\ DOMAIN bot'.sim = DOMAIN bot.sim \ {x}
        /\ \A i \in DOMAIN bot'.sim : bot'.sim[i] = bot.sim[i]
    BY <1>8, SyncEffect DEF Rewritten
  <2>2. bot.pc = "sync" /\ trades' = trades
    BY <1>8 DEF SyncPosition
  <2>3. Left(id)' = Left(id)
    BY <2>1 DEF Left
  <2>4. /\ ~ Unbooked(id) /\ ~ Unbooked(id)' /\ id \in DOMAIN positions
        /\ positions'[id].closed = positions[id].closed
    BY <2>1, <2>2 DEF Unbooked
  <2> QED
    BY <1>i, <2>2, <2>3, <2>4, StaysBalanced
<1>9. CASE AgentWrites
  BY <1>1, <1>9, <1>d, PaperAgentWrites
<1>10. CASE BotWrites
  BY <1>10, <1>2, <1>3, <1>4, <1>5, <1>6, <1>7, <1>8 DEF BotWrites
<1> QED
  BY <1>2, <1>9, <1>10, StepCases

LEMMA AlwaysBalanced == Spec => [](FaultsSpent /\ BooksBalance /\ QuantitiesBalance)
BY FaultsInit, FaultsStep, BooksInit, BooksStep, QuantitiesInit, QuantitiesStep,
   AlwaysTyped, AlwaysPaper, PTL DEF Spec

(* Paper trading keeps its books: between candles the balance of a running *)
(* session is its starting balance plus the pnl of its trades, a closed    *)
(* position was sold exactly once over, and an open one holds what has not *)
(* been sold.                                                              *)
THEOREM TheLedgerBalances == Spec => []PaperLedger
<1>1. Typed /\ PaperInv /\ BooksBalance /\ QuantitiesBalance => PaperLedger
  <2> SUFFICES ASSUME Typed, PaperInv, BooksBalance, QuantitiesBalance,
                      Undisturbed, bot.pc = "idle"
               PROVE  /\ row.status = "RUNNING" => row.balance = StartingBalance + booked
                      /\ \A id \in DOMAIN positions :
                            IF positions[id].closed
                            THEN trades[id] = [sold |-> Lots, finals |-> 1]
                            ELSE trades[id] = [sold |-> Lots - positions[id].qty,
                                               finals |-> 0]
    BY DEF PaperLedger
  <2>1. row.status = "RUNNING" => row.balance = StartingBalance + booked
    BY DEF BooksBalance
  <2>2. ASSUME NEW id \in DOMAIN positions
        PROVE  IF positions[id].closed
               THEN trades[id] = [sold |-> Lots, finals |-> 1]
               ELSE trades[id] = [sold |-> Lots - positions[id].qty, finals |-> 0]
    <3>1. /\ positions[id].qty \in Nat /\ trades[id] \in Trades /\ trades[id].sold \in Nat
          /\ Lots \in Nat
      BY RecordFields, TradingAssumption
    <3>2. ~ Unbooked(id) /\ Left(id) = positions[id].qty
      BY DEF Unbooked, Left, PaperInv, SimIsOpen, Undisturbed
    <3>3. Balanced(id) /\ Pending(id) = 0
      BY <3>2 DEF QuantitiesBalance, Pending
    <3>4. IF positions[id].closed
          THEN trades[id].sold = Lots /\ trades[id].finals = 1
          ELSE trades[id].sold = Lots - positions[id].qty /\ trades[id].finals = 0
      BY <3>1, <3>2, <3>3 DEF Balanced
    <3>5. trades[id] = [sold |-> trades[id].sold, finals |-> trades[id].finals]
      BY <3>1 DEF Trades
    <3> QED
      BY <3>4, <3>5
  <2> QED
    BY <2>1, <2>2
<1> QED
  BY <1>1, AlwaysTyped, AlwaysPaper, AlwaysBalanced, PTL

-----------------------------------------------------------------------------
(* The entries of a day.                                                   *)

LEMMA EndedFinite ==
  ASSUME Typed
  PROVE  IsFiniteSet(EndedSinceReset) /\ Cardinality(EndedSinceReset) \in Nat
<1>1. EndedSinceReset \in SUBSET (1..Len(positions)) /\ Len(positions) \in Int
  BY RecordFields DEF EndedSinceReset, EnteredSinceReset
<1>2. IsFiniteSet(1..Len(positions))
  BY <1>1, FS_Interval
<1>3. IsFiniteSet(EndedSinceReset)
  BY <1>1, <1>2, FS_Subset
<1> QED
  BY <1>3, FS_CardinalityType

LEMMA EntriesInit == Init => EntriesCounted
<1> SUFFICES ASSUME Init
             PROVE  Cardinality(EndedSinceReset) <= lastRisk.tradesToday + Uncounted
  BY DEF EntriesCounted
<1>1. EndedSinceReset = {} /\ lastRisk.tradesToday = 0 /\ Uncounted = 0
  BY IdleTyped DEF Init, EndedSinceReset, EnteredSinceReset, NewRisk, Uncounted
<1> QED
  BY <1>1, FS_EmptySet

(* An end of a position entered since the reset is counted by the risk     *)
(* manager two awaits later; nothing else ends one, and an entry moves     *)
(* none of the earlier ones in or out.                                     *)
LEMMA EntriesStep ==
  ASSUME Typed, OnlyStopRuns, PaperInv, FaultsSpent, EntityIsNewest, EntriesCounted, [Next]_vars
  PROVE  EntriesCounted'
<1> DEFINE ended == Cardinality(EndedSinceReset)
<1> SUFFICES ASSUME Undisturbed'
             PROVE  ended' <= lastRisk'.tradesToday + Uncounted'
  BY DEF EntriesCounted
<1>d. Undisturbed /\ Simulation /\ faults' = faults /\ faults \in Nat
  BY FaultsStep DEF Undisturbed, Typed, WorldTyped
<1>b. bot \in BotType
  BY DEF Typed, BotTyped
<1>i. ended <= lastRisk.tradesToday + Uncounted
  BY <1>d DEF EntriesCounted
<1>t. /\ entries \in Nat /\ lastRisk.tradesToday \in Nat /\ ended \in Nat
      /\ IsFiniteSet(EndedSinceReset) /\ Uncounted \in {0, 1}
  BY EndedFinite DEF Typed, HistoryTyped, RiskState, Uncounted
<1>l. Len(positions) \in Nat /\ DOMAIN positions = 1..Len(positions)
  BY RecordFields
<1>u. ASSUME lastRisk' = lastRisk, EndedSinceReset' = EndedSinceReset,
             Uncounted' = Uncounted
      PROVE  ended' <= lastRisk'.tradesToday + Uncounted'
  BY <1>i, <1>u
<1>1. CASE Quiet
  <2>1. lastRisk' = lastRisk /\ EndedSinceReset' = EndedSinceReset
    BY <1>1 DEF Quiet, EndedSinceReset, EnteredSinceReset
  <2>2. bot' = bot \/ (bot'.pc = "idle" /\ bot.pc = "load")
    BY <1>1, <1>d, IdleTyped DEF Quiet
  <2> QED
    BY <1>u, <2>1, <2>2 DEF Uncounted
<1>2. CASE CandleClosed \/ LoadPositions \/ UpdateBalance
  <2>1. UNCHANGED <<positions, entries, lastRisk>>
    BY <1>2 DEF CandleClosed, LoadPositions, UpdateBalance, history
  <2>2. bot.pc \in {"idle", "load", "sync"}
    BY <1>2 DEF CandleClosed, LoadPositions, UpdateBalance
  <2>3. bot'.pc \in {"idle", "load", "candle"}
    BY <1>2, <1>b, IdleTyped DEF CandleClosed, LoadPositions, UpdateBalance, BotType, IdleBot
  <2> QED
    BY <1>u, <2>1, <2>2, <2>3 DEF EndedSinceReset, EnteredSinceReset, Uncounted
<1>3. ASSUME NEW x \in MayExit, NEW pnl \in Pnls, NEW n \in Quantities(bot.sim[x]),
             PersistExit(x, n, pnl)
      PROVE  ended' <= lastRisk'.tradesToday + Uncounted'
  <2> DEFINE last == n = bot.sim[x]
  <2>1. /\ x \in DOMAIN bot.sim /\ x \in DOMAIN positions
        /\ DOMAIN positions' = DOMAIN positions
        /\ \A i \in DOMAIN positions : i # x => positions'[i] = positions[i]
        /\ positions'[x].closed = last
        /\ bot'.pc = "trade" /\ bot'.exit.last = last
    BY <1>3, PersistEffect DEF Rewritten
  <2>2. bot.pc = "candle" /\ UNCHANGED <<entries, lastRisk>>
    BY <1>3 DEF PersistExit, history
  <2>3. x \in OpenIds
    BY <1>d, <2>1 DEF PaperInv, SimIsOpen
  <2>l. Len(positions') = Len(positions)
    BY <1>3, PersistEffect
  <2> HIDE DEF last
  <2>4. CASE last
    <3>1. EndedSinceReset' \in {EndedSinceReset, EndedSinceReset \cup {x}}
      BY <2>1, <2>2, <2>4, <2>l DEF EndedSinceReset, EnteredSinceReset
    <3>2. Uncounted' = 1 /\ Uncounted = 0
      BY <2>1, <2>2, <2>4 DEF Uncounted
    <3>3. Cardinality(EndedSinceReset \cup {x}) \in {ended, ended + 1}
      BY <1>t, FS_AddElement
    <3>4. ended' \in {ended, ended + 1}
      BY <3>1, <3>3
    <3> HIDE DEF ended
    <3> QED
      BY <1>i, <1>t, <2>2, <3>2, <3>4
  <2>5. CASE ~ last
    <3>1. EndedSinceReset' = EndedSinceReset
      BY <2>1, <2>2, <2>3, <2>5, <2>l DEF EndedSinceReset, EnteredSinceReset, OpenIds
    <3>2. Uncounted' = 0 /\ Uncounted = 0
      BY <2>1, <2>2, <2>5 DEF Uncounted
    <3> QED
      BY <1>u, <2>2, <3>1, <3>2
  <2> QED
    BY <2>4, <2>5
<1>4. CASE InsertTrade
  <2>1. /\ UNCHANGED <<positions, entries, lastRisk>> /\ bot.pc = "trade"
        /\ bot'.pc = "register" /\ bot'.exit = bot.exit
    BY <1>4, <1>b DEF InsertTrade, BotType
  <2> QED
    BY <1>u, <2>1 DEF EndedSinceReset, EnteredSinceReset, Uncounted
<1>5. CASE RegisterExit
  <2>1. /\ UNCHANGED <<positions, entries>> /\ bot.pc = "register"
    BY <1>5 DEF RegisterExit
  <2>2. lastRisk'.tradesToday = lastRisk.tradesToday + 1
    BY <1>5, <2>1, RegisterExitEffect DEF EntityIsNewest
  <2>3. bot'.pc = "candle"
    BY <1>5, <1>b, RegisterExitEffect DEF BotType
  <2>4. EndedSinceReset' = EndedSinceReset /\ Uncounted' = 0
    BY <2>1, <2>3 DEF EndedSinceReset, EnteredSinceReset, Uncounted
  <2>5. ended' = ended
    BY <2>4
  <2> HIDE DEF ended
  <2> QED
    BY <1>i, <1>t, <2>1, <2>2, <2>4, <2>5
<1>6. CASE Evaluate \/ GuardEntry \/ PlaceOrder
  <2>1. /\ UNCHANGED <<positions, entries, lastRisk>>
        /\ bot.pc \in {"candle", "guard", "order"}
    BY <1>6 DEF Evaluate, GuardEntry, PlaceOrder, history
  <2>2. bot'.pc \in {"guard", "risk", "insert", "sync"}
    BY <1>6, <1>b DEF Evaluate, GuardEntry, PlaceOrder, BotType
  <2> QED
    BY <1>u, <2>1, <2>2 DEF EndedSinceReset, EnteredSinceReset, Uncounted
<1>7. CASE CheckRisk
  <2>1. /\ UNCHANGED positions /\ bot.pc = "risk"
    BY <1>7 DEF CheckRisk
  <2>2. bot'.pc \in {"insert", "order", "sync"}
    BY <1>7, CheckRiskEffect
  <2>3. Uncounted' = 0 /\ Uncounted = 0
    BY <2>1, <2>2 DEF Uncounted
  <2>4. CASE NeedsNewDay(bot.ent.risk, today)
    <3>1. entries' = 0 /\ lastRisk'.tradesToday = 0
      BY <1>7, <2>4, CheckRiskEffect
    <3>2. EndedSinceReset' = {}
      BY <1>l, <2>1, <3>1 DEF EndedSinceReset, EnteredSinceReset
    <3>3. ended' = 0
      BY <3>2, FS_EmptySet
    <3> HIDE DEF ended
    <3> QED
      BY <2>3, <3>1, <3>3
  <2>5. CASE ~ NeedsNewDay(bot.ent.risk, today)
    <3>1. UNCHANGED <<entries, lastRisk>>
      BY <1>7, <2>5, CheckRiskEffect
    <3>2. EndedSinceReset' = EndedSinceReset
      BY <2>1, <3>1 DEF EndedSinceReset, EnteredSinceReset
    <3> QED
      BY <1>u, <2>3, <3>1, <3>2
  <2> QED
    BY <2>4, <2>5
<1>8. CASE InsertPosition
  <2> DEFINE x == Len(positions) + 1
  <2>0. /\ DOMAIN positions' = DOMAIN positions \cup {x} /\ x \notin DOMAIN positions
        /\ \A i \in DOMAIN positions : positions'[i] = positions[i]
        /\ positions'[x] = [side |-> bot.side, qty |-> Lots, closed |-> FALSE]
        /\ bot'.pc = "sync"
    BY <1>8, InsertEffect
  <2>1. /\ DOMAIN positions' = DOMAIN positions \cup {x} /\ x \notin DOMAIN positions
        /\ \A i \in DOMAIN positions : positions'[i] = positions[i]
        /\ positions'[x].closed = FALSE /\ bot'.pc = "sync"
    BY <2>0
  <2>2. entries' = entries + 1 /\ lastRisk' = lastRisk /\ bot.pc = "insert"
    BY <1>8 DEF InsertPosition
  <2>l. Len(positions') = Len(positions) + 1
    BY <1>8, <1>l DEF InsertPosition
  <2> HIDE DEF x
  <2>3. Len(positions') - entries' = Len(positions) - entries
    BY <1>l, <1>t, <2>2, <2>l
  <2>4. EndedSinceReset' = EndedSinceReset
    BY <2>1, <2>3 DEF EndedSinceReset, EnteredSinceReset
  <2>5. Uncounted' = 0 /\ Uncounted = 0
    BY <2>1, <2>2 DEF Uncounted
  <2> QED
    BY <1>u, <2>2, <2>4, <2>5
<1>9. ASSUME NEW x \in DOMAIN positions, SyncPosition(x)
      PROVE  ended' <= lastRisk'.tradesToday + Uncounted'
  <2>1. /\ DOMAIN positions' = DOMAIN positions
        /\ \A i \in DOMAIN positions : i # x => positions'[i] = positions[i]
        /\ positions'[x].closed = positions[x].closed /\ bot'.pc = "sync"
    BY <1>9, SyncEffect DEF Rewritten
  <2>2. bot.pc = "sync" /\ UNCHANGED <<entries, lastRisk>>
    BY <1>9 DEF SyncPosition, history
  <2>l. Len(positions') = Len(positions)
    BY <1>9, SyncEffect
  <2>3. EndedSinceReset' = EndedSinceReset /\ Uncounted' = Uncounted
    BY <2>1, <2>2, <2>l DEF EndedSinceReset, EnteredSinceReset, Uncounted
  <2> QED
    BY <1>u, <2>2, <2>3
<1>10. CASE AgentWrites
  BY <1>10, <1>d, <1>u, PaperAgentWrites DEF EndedSinceReset, EnteredSinceReset, Uncounted
<1>11. CASE BotWrites
  BY <1>11, <1>2, <1>3, <1>4, <1>5, <1>6, <1>7, <1>8, <1>9 DEF BotWrites
<1> QED
  BY <1>1, <1>10, <1>11, StepCases

LEMMA AlwaysCounted == Spec => []EntriesCounted
<1>1. RiskInv => EntityIsNewest
  BY DEF RiskInv
<1> QED
  BY <1>1, EntriesInit, EntriesStep, AlwaysTyped, AlwaysPaper, AlwaysBalanced, AlwaysRiskInv,
     PTL DEF Spec

(* Fewer than maxTradesPerDay of the positions entered since the day was   *)
(* reset have ended whenever an entry is on its way, whatever is carried   *)
(* over from earlier days: trades are counted when they close.             *)
THEOREM DailyEntriesAreBounded == Spec => []DailyEntriesBounded
<1>1. Typed /\ RiskInv /\ EntriesCounted => DailyEntriesBounded
  <2> DEFINE ended == Cardinality(EndedSinceReset)
  <2> SUFFICES ASSUME Typed, RiskInv, EntriesCounted, Undisturbed, MaxTradesPerDay > 0,
                      bot.pc \in {"order", "insert"}
               PROVE  ended < MaxTradesPerDay
    BY DEF DailyEntriesBounded, EndedSinceReset
  <2>1. Uncounted = 0 /\ bot.ent.risk = lastRisk /\ lastRisk.tradesToday < MaxTradesPerDay
    BY DEF Uncounted, RiskInv, EntityIsNewest, EntryIsCleared
  <2>2. ended <= lastRisk.tradesToday + Uncounted
    BY DEF EntriesCounted
  <2>3. /\ lastRisk.tradesToday \in Nat /\ ended \in Nat /\ MaxTradesPerDay \in Int
    BY EndedFinite, RiskLimitsAssumption DEF Typed, HistoryTyped, RiskState
  <2> HIDE DEF ended
  <2> QED
    BY <2>1, <2>2, <2>3
<1> QED
  BY <1>1, AlwaysTyped, AlwaysRiskInv, AlwaysCounted, PTL
==============================================================================
