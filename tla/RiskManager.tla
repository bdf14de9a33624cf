----------------------------- MODULE RiskManager -----------------------------
(***************************************************************************)
(* RiskManagerService over the life of one Session row, driven the way     *)
(* BotService.processSession drives it: per candle, every closed trade is  *)
(* registered first (bot.service.ts:155-159) and only then, if the         *)
(* strategy signalled and the guards of openFromSignal let it get there,   *)
(* ensureDay and canOpenNewTrade are called (211-215).  The UTC clock      *)
(* moves between any two of those calls.                                   *)
(*                                                                         *)
(* One candle handler runs at a time here (the per-symbol lock); what      *)
(* concurrent writers do to the row is the subject of TradingSession.tla.  *)
(***************************************************************************)
EXTENDS RiskRules

CONSTANTS
    Pnls,         \* the results a closed trade may have
    Equities,     \* the values sim.equity may take at a candle
    MaxDay,       \* bound: UTC days explored
    MaxResults,   \* bound: results registered between two day resets
    MaxEntries    \* bound: entries between two day resets

ASSUME RiskManagerAssumption ==
    /\ Pnls \subseteq Int
    /\ Equities \subseteq Int
    /\ MaxDay \in Nat
    /\ MaxResults \in Nat
    /\ MaxEntries \in Nat

VARIABLES
    risk,         \* the risk columns of the session row
    today,        \* the UTC day
    phase,        \* where processSession is
    equity,       \* sim.equity of the candle being processed
    live,         \* open positions of the session: at most one per side
    entries,      \* history: positions let through since the last day reset
    lastWinAt,    \* history: tradesToday when a trade last won (0: not since the reset)
    closedToday   \* history: trades registered during the UTC day `today'

vars == <<risk, today, phase, equity, live, entries, lastWinAt, closedToday>>

Phases == {"idle", "closing", "checking"}
Sides == 2    \* openFromSignal keeps one position per side (188-195)

Init ==
    /\ risk = NewRisk
    /\ today = 1
    /\ phase = "idle"
    /\ equity \in Equities
    /\ live = 0
    /\ entries = 0
    /\ lastWinAt = 0
    /\ closedToday = 0

-----------------------------------------------------------------------------

\* processSession has run sim.onNewCandle: equity is known for this candle.
Candle ==
    /\ phase = "idle"
    /\ phase' = "closing"
    /\ equity' \in Equities
    /\ UNCHANGED <<risk, today, live, entries, lastWinAt, closedToday>>

\* The trade is a partial close, or the one that ends its position.
RegisterResult(pnl) ==
    /\ phase = "closing"
    /\ live > 0
    /\ risk.tradesToday < MaxResults
    /\ live' \in {live, live - 1}
    /\ risk' = RegisterTradeResult(risk, pnl, equity)
    /\ lastWinAt' = IF pnl < 0 THEN lastWinAt ELSE risk.tradesToday + 1
    /\ closedToday' = closedToday + 1
    /\ UNCHANGED <<today, phase, equity, entries>>

\* BitgetSyncService closed the position in the table: no result is registered.
ExternalClose ==
    /\ live > 0
    /\ live' = live - 1
    /\ UNCHANGED <<risk, today, phase, equity, entries, lastWinAt, closedToday>>

\* No signal, or a guard before ensureDay returned, or the handler threw.
NoSignal ==
    /\ phase = "closing"
    /\ phase' = "idle"
    /\ UNCHANGED <<risk, today, equity, live, entries, lastWinAt, closedToday>>

SignalDay ==
    /\ phase = "closing"
    /\ phase' = "checking"
    /\ risk' = EnsureDay(risk, today, equity)
    /\ IF NeedsNewDay(risk, today)
       THEN entries' = 0 /\ lastWinAt' = 0
       ELSE UNCHANGED <<entries, lastWinAt>>
    /\ UNCHANGED <<today, equity, live, closedToday>>

OpenTrade ==
    /\ phase = "checking"
    /\ CanOpenNewTrade(risk, equity)
    /\ live < Sides
    /\ entries < MaxEntries
    /\ live' = live + 1
    /\ entries' = entries + 1
    /\ phase' = "idle"
    /\ UNCHANGED <<risk, today, equity, lastWinAt, closedToday>>

\* canOpenNewTrade refused, or a later return of openFromSignal.
DropSignal ==
    /\ phase = "checking"
    /\ phase' = "idle"
    /\ UNCHANGED <<risk, today, equity, live, entries, lastWinAt, closedToday>>

NextDay ==
    /\ today < MaxDay
    /\ today' = today + 1
    /\ closedToday' = 0
    /\ UNCHANGED <<risk, phase, equity, live, entries, lastWinAt>>

Next ==
    \/ Candle
    \/ \E pnl \in Pnls : RegisterResult(pnl)
    \/ ExternalClose
    \/ NoSignal
    \/ SignalDay
    \/ OpenTrade
    \/ DropSignal
    \/ NextDay

Spec == Init /\ [][Next]_vars

-----------------------------------------------------------------------------

\* Type invariant of the row and of the handler.
TypeOK ==
    /\ risk \in RiskState
    /\ today \in Nat
    /\ phase \in Phases
    /\ equity \in Int
    /\ live \in 0..Sides
    /\ entries \in Nat
    /\ lastWinAt \in Nat
    /\ closedToday \in Nat

(* consecutiveLosses (registerTradeResult, ensureDay) is exactly the number *)
(* of trades registered since the last win or day reset, whatever the mix   *)
(* of wins, losses and day changes: MOM-19 stops the session on a streak    *)
(* and never on a stale count.                                              *)
LossStreakExact == risk.consecutiveLosses + lastWinAt = risk.tradesToday

(* A session inside a losing streak of drawdownAutoReduceAfter trades or    *)
(* more is trading at the reduced size, and no other size than full or      *)
(* reduced exists: neither the recovery branch nor a day reset can leave a  *)
(* live streak at full risk (registerTradeResult 135-164).                  *)
BrakeOnStreak ==
    /\ ReduceEnabled /\ risk.consecutiveLosses >= DrawdownReduceAfter
          => risk.riskMultiplier = DrawdownReduceFactor
    /\ risk.riskMultiplier < FullRisk
          => ReduceEnabled /\ risk.riskMultiplier = DrawdownReduceFactor

(* recoveryCounter counts only towards an unfinished recovery: a session at *)
(* full risk starts the next reduction from zero, and a reduced one has not *)
(* already earned its recovery (registerTradeResult 153-163).               *)
RecoveryPending ==
    risk.recoveryCounter > 0 =>
        /\ risk.riskMultiplier < FullRisk
        /\ risk.recoveryCounter < DrawdownRecoveryTrades

(* Streak, reduced size and recovery counter never get out of step, however *)
(* losses, wins and days follow one another.                                *)
BrakeExact == BrakeOnStreak /\ RecoveryPending

(* The multiplier is raised again only by a day reset or by the win that    *)
(* completes the recovery, and a raise never happens while the streak is    *)
(* still running.                                                           *)
RaiseIsEarned ==
    [][risk'.riskMultiplier > risk.riskMultiplier =>
          /\ risk'.riskMultiplier = FullRisk
          /\ risk'.consecutiveLosses = 0
          /\ \/ risk'.riskDayStartedAt > risk.riskDayStartedAt
             \/ risk.recoveryCounter + 1 >= DrawdownRecoveryTrades]_vars

Gate == INSTANCE TradingGate WITH
    halted  <- risk.killSwitchTriggered,
    day     <- risk.riskDayStartedAt,
    entries <- entries

(* The kill switch is a gate: once registerTradeResult has set it, no       *)
(* openFromSignal gets past canOpenNewTrade until ensureDay starts a later  *)
(* UTC day.                                                                 *)
GateSpec == Gate!Spec

(* When ensureDay returns, the count canOpenNewTrade judges the day by is   *)
(* the number of trades registered on that UTC day, as its comment promises *)
(* ("Called at the start of processSession. If it's a new UTC day, reset    *)
(* daily counters", risk-manager.service.ts:32).                            *)
DailyCountExact ==
    [][phase = "closing" /\ phase' = "checking"
          => risk'.tradesToday = closedToday']_vars

==============================================================================
