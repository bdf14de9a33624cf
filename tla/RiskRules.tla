------------------------------ MODULE RiskRules ------------------------------
(***************************************************************************)
(* The decisions of RiskManagerService (src/src/risk) as operators on the  *)
(* risk columns of a Session row.  They are pure: the services that call   *)
(* them (RiskManager.tla for the risk manager alone, TradingSession.tla    *)
(* for the whole trading loop) decide when they run and what is saved.     *)
(*                                                                         *)
(* Money is in whole USDT, riskMultiplier in percent (1.0 is FullRisk),    *)
(* days are the UTC days counted from 1.  A nullable limit column that is  *)
(* null and one that is <= 0 both mean "disabled" to the code, so both are *)
(* a value <= 0 here.                                                      *)
(***************************************************************************)
EXTENDS Integers

CONSTANTS
    MaxDailyLossUsdt,        \* session.maxDailyLossUsdt
    MaxDailyLossPct,         \* session.maxDailyLossPct
    MaxTradesPerDay,         \* session.maxTradesPerDay
    MaxConsecutiveLosses,    \* session.maxConsecutiveLosses
    DrawdownReduceAfter,     \* session.drawdownAutoReduceAfter
    DrawdownReduceFactor,    \* session.drawdownAutoReduceFactor, in percent
    DrawdownRecoveryTrades   \* session.drawdownRecoveryTrades ?? 1

ASSUME RiskLimitsAssumption ==
    /\ MaxDailyLossUsdt \in Int
    /\ MaxDailyLossPct \in Int
    /\ MaxTradesPerDay \in Int
    /\ MaxConsecutiveLosses \in Int
    /\ DrawdownReduceAfter \in Int
    /\ DrawdownReduceFactor \in Int
    /\ DrawdownRecoveryTrades \in Int

FullRisk == 100
NoDay == 0       \* riskDayStartedAt is null: no day was ever started

RiskState ==
    [dailyPnl: Int, tradesToday: Nat, consecutiveLosses: Nat,
     killSwitchTriggered: BOOLEAN, riskMultiplier: 1..FullRisk,
     recoveryCounter: Nat, riskDayStartedAt: Nat, riskDayStartingEquity: Int]

\* The column defaults of a row that SessionService.start has just created.
NewRisk ==
    [dailyPnl |-> 0, tradesToday |-> 0, consecutiveLosses |-> 0,
     killSwitchTriggered |-> FALSE, riskMultiplier |-> FullRisk,
     recoveryCounter |-> 0, riskDayStartedAt |-> NoDay,
     riskDayStartingEquity |-> 0]

-----------------------------------------------------------------------------

NeedsNewDay(r, today) == r.riskDayStartedAt < today

\* Mutant of EnsureDay: the reset forgets the streak.
EnsureDay_KeepsStreak(r, today, equity) ==
    IF NeedsNewDay(r, today)
    THEN [NewRisk EXCEPT !.riskDayStartedAt = today,
                         !.riskDayStartingEquity = equity,
                         !.consecutiveLosses = r.consecutiveLosses]
    ELSE r

\* ensureDay: the first call of a UTC day resets the daily state.
EnsureDay(r, today, equity) ==
    IF NeedsNewDay(r, today)
    THEN [NewRisk EXCEPT !.riskDayStartedAt = today,
                         !.riskDayStartingEquity = equity]
    ELSE r

Drawdown(r, equity) ==
    IF equity < r.riskDayStartingEquity
    THEN r.riskDayStartingEquity - equity ELSE 0

\* checkDailyLossLimits; a day that never started has no starting equity.
WithinDailyLoss(r, equity) ==
    r.riskDayStartingEquity > 0 =>
        /\ MaxDailyLossUsdt > 0 => Drawdown(r, equity) < MaxDailyLossUsdt
        /\ MaxDailyLossPct > 0 =>
              Drawdown(r, equity) * 100 < MaxDailyLossPct * r.riskDayStartingEquity

\* Mutant of CanOpenNewTrade: the limits of the day without the switch itself.
CanOpenNewTrade_NoSwitch(r, equity) ==
    /\ MaxTradesPerDay > 0 => r.tradesToday < MaxTradesPerDay
    /\ MaxConsecutiveLosses > 0 => r.consecutiveLosses < MaxConsecutiveLosses
    /\ WithinDailyLoss(r, equity)

\* Mutant of CanOpenNewTrade: the trade that reaches the daily limit is let in.
CanOpenNewTrade_OneMore(r, equity) ==
    /\ ~ r.killSwitchTriggered
    /\ MaxTradesPerDay > 0 => r.tradesToday <= MaxTradesPerDay
    /\ MaxConsecutiveLosses > 0 => r.consecutiveLosses < MaxConsecutiveLosses
    /\ WithinDailyLoss(r, equity)

\* canOpenNewTrade: the kill switch, then the limits of the day.
CanOpenNewTrade(r, equity) ==
    /\ ~ r.killSwitchTriggered
    /\ MaxTradesPerDay > 0 => r.tradesToday < MaxTradesPerDay
    /\ MaxConsecutiveLosses > 0 => r.consecutiveLosses < MaxConsecutiveLosses
    /\ WithinDailyLoss(r, equity)

-----------------------------------------------------------------------------

ReduceEnabled ==
    DrawdownReduceAfter > 0 /\ DrawdownReduceFactor \in 1..(FullRisk - 1)

AfterLoss(r) ==
    LET streak == r.consecutiveLosses + 1 IN
    [r EXCEPT !.consecutiveLosses = streak,
              !.riskMultiplier =
                  IF /\ ReduceEnabled
                     /\ streak >= DrawdownReduceAfter
                     /\ DrawdownReduceFactor < @
                  THEN DrawdownReduceFactor ELSE @]

\* Mutants of AfterWin: every win doubles the multiplier; the recovery does not
\* clear the counter; any win recovers.
AfterWin_Doubles(r) ==
    [r EXCEPT !.consecutiveLosses = 0, !.riskMultiplier = @ * 2]

AfterWin_KeepsCounter(r) ==
    [r EXCEPT !.consecutiveLosses = 0,
              !.recoveryCounter = @ + 1,
              !.riskMultiplier =
                  IF r.recoveryCounter + 1 >= DrawdownRecoveryTrades
                  THEN FullRisk ELSE @]

AfterWin_AtOnce(r) ==
    [r EXCEPT !.consecutiveLosses = 0, !.recoveryCounter = 0,
              !.riskMultiplier = FullRisk]

AfterWin(r) ==
    LET wins      == r.recoveryCounter + 1
        recovered == wins >= DrawdownRecoveryTrades
    IN  IF r.riskMultiplier < FullRisk
        THEN [r EXCEPT !.consecutiveLosses = 0,
                       !.riskMultiplier = IF recovered THEN FullRisk ELSE @,
                       !.recoveryCounter = IF recovered THEN 0 ELSE wins]
        ELSE [r EXCEPT !.consecutiveLosses = 0, !.recoveryCounter = 0]

\* registerTradeResult: a trade with pnl = 0 counts as a win.
RegisterTradeResult(r, pnl, equity) ==
    LET counted == [r EXCEPT !.dailyPnl = @ + pnl, !.tradesToday = @ + 1]
        judged  == IF pnl < 0 THEN AfterLoss(counted) ELSE AfterWin(counted)
    IN  [judged EXCEPT !.killSwitchTriggered = @ \/ ~ WithinDailyLoss(r, equity)]

==============================================================================
