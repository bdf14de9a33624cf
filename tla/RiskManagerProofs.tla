-------------------------- MODULE RiskManagerProofs --------------------------
(***************************************************************************)
(* The properties of RiskManager.tla for every choice of limits, results   *)
(* and equities.  The inductive invariant is the conjunction of the type   *)
(* invariant and the three state invariants of the run: the streak, the    *)
(* reduction and the recovery are each preserved only because the others   *)
(* hold (a win may raise the multiplier because it also ends the streak; a *)
(* reduction starts from a cleared counter because full risk implies one). *)
(***************************************************************************)
EXTENDS RiskManager, TLAPS

(* Assigning well-typed values to columns keeps the row well typed; one    *)
(* lemma for each group of columns the code assigns together.              *)
LEMMA AssignCounts ==
    ASSUME NEW r \in RiskState, NEW a \in Int, NEW b \in Nat
    PROVE  [r EXCEPT !.dailyPnl = a, !.tradesToday = b] \in RiskState
  BY DEF RiskState

LEMMA AssignStreak ==
    ASSUME NEW r \in RiskState, NEW a \in Nat, NEW m \in 1..FullRisk
    PROVE  [r EXCEPT !.consecutiveLosses = a, !.riskMultiplier = m] \in RiskState
  BY DEF RiskState

LEMMA AssignRecovery ==
    ASSUME NEW r \in RiskState, NEW a \in Nat, NEW m \in 1..FullRisk, NEW c \in Nat
    PROVE  [r EXCEPT !.consecutiveLosses = a, !.riskMultiplier = m,
                     !.recoveryCounter = c] \in RiskState
  BY DEF RiskState

LEMMA AssignFullRisk ==
    ASSUME NEW r \in RiskState, NEW a \in Nat, NEW c \in Nat
    PROVE  [r EXCEPT !.consecutiveLosses = a, !.recoveryCounter = c] \in RiskState
  BY DEF RiskState

LEMMA AssignDay ==
    ASSUME NEW r \in RiskState, NEW d \in Nat, NEW e \in Int
    PROVE  [r EXCEPT !.riskDayStartedAt = d, !.riskDayStartingEquity = e] \in RiskState
  BY DEF RiskState

(* What a losing trade does to the columns it touches.                     *)
LEMMA AfterLossEffect ==
    ASSUME NEW r \in RiskState
    PROVE  LET q == AfterLoss(r) IN
           /\ q \in RiskState
           /\ q.consecutiveLosses = r.consecutiveLosses + 1
           /\ q.tradesToday = r.tradesToday
           /\ q.recoveryCounter = r.recoveryCounter
           /\ q.riskDayStartedAt = r.riskDayStartedAt
           /\ q.killSwitchTriggered = r.killSwitchTriggered
           /\ \/ q.riskMultiplier = r.riskMultiplier
              \/ ReduceEnabled /\ q.riskMultiplier = DrawdownReduceFactor
           /\ q.riskMultiplier <= r.riskMultiplier
           /\ ReduceEnabled /\ q.consecutiveLosses >= DrawdownReduceAfter
                => q.riskMultiplier <= DrawdownReduceFactor
<1> DEFINE m == IF /\ ReduceEnabled
                   /\ r.consecutiveLosses + 1 >= DrawdownReduceAfter
                   /\ DrawdownReduceFactor < r.riskMultiplier
                THEN DrawdownReduceFactor ELSE r.riskMultiplier
           a == r.consecutiveLosses + 1
<1>1. m \in 1..FullRisk /\ a \in Nat /\ m <= r.riskMultiplier
  BY RiskLimitsAssumption DEF RiskState, ReduceEnabled, FullRisk
<1>2. ReduceEnabled /\ a >= DrawdownReduceAfter => m <= DrawdownReduceFactor
  BY RiskLimitsAssumption DEF RiskState, ReduceEnabled, FullRisk
<1>3. m = r.riskMultiplier \/ (ReduceEnabled /\ m = DrawdownReduceFactor)
  <2>1. CASE ReduceEnabled  BY <2>1
  <2>2. CASE ~ ReduceEnabled  BY <2>2
  <2> QED  BY <2>1, <2>2
<1>4. AfterLoss(r) = [r EXCEPT !.consecutiveLosses = a, !.riskMultiplier = m]
  BY DEF AfterLoss
<1> HIDE DEF a, m
<1>5. AfterLoss(r) \in RiskState
  BY <1>1, <1>4, AssignStreak
<1>6. LET q == AfterLoss(r) IN
      /\ q.consecutiveLosses = a
      /\ q.riskMultiplier = m
      /\ q.tradesToday = r.tradesToday
      /\ q.recoveryCounter = r.recoveryCounter
      /\ q.riskDayStartedAt = r.riskDayStartedAt
      /\ q.killSwitchTriggered = r.killSwitchTriggered
  BY <1>4 DEF RiskState
<1>7. a = r.consecutiveLosses + 1
  BY DEF a
<1> QED
  BY <1>1, <1>2, <1>3, <1>5, <1>6, <1>7

(* What a winning trade does to the columns it touches.                    *)
LEMMA AfterWinEffect ==
    ASSUME NEW r \in RiskState
    PROVE  LET q == AfterWin(r) IN
           /\ q \in RiskState
           /\ q.consecutiveLosses = 0
           /\ q.tradesToday = r.tradesToday
           /\ q.riskDayStartedAt = r.riskDayStartedAt
           /\ q.killSwitchTriggered = r.killSwitchTriggered
           /\ q.riskMultiplier \in {r.riskMultiplier, FullRisk}
           /\ q.recoveryCounter > 0 =>
                 /\ q.riskMultiplier < FullRisk
                 /\ q.recoveryCounter < DrawdownRecoveryTrades
           /\ q.riskMultiplier > r.riskMultiplier =>
                 r.recoveryCounter + 1 >= DrawdownRecoveryTrades
<1> DEFINE wins == r.recoveryCounter + 1
           recovered == wins >= DrawdownRecoveryTrades
           m == IF r.riskMultiplier < FullRisk /\ recovered
                THEN FullRisk ELSE r.riskMultiplier
           c == IF r.riskMultiplier < FullRisk /\ ~ recovered THEN wins ELSE 0
<1>1. m \in 1..FullRisk /\ c \in Nat /\ m \in {r.riskMultiplier, FullRisk}
  BY DEF RiskState, FullRisk
<1>2. /\ c > 0 => m < FullRisk /\ c < DrawdownRecoveryTrades
      /\ m > r.riskMultiplier => r.recoveryCounter + 1 >= DrawdownRecoveryTrades
  BY RiskLimitsAssumption DEF RiskState, FullRisk
<1>3. CASE r.riskMultiplier < FullRisk
  <2>1. AfterWin(r) = [r EXCEPT !.consecutiveLosses = 0, !.riskMultiplier = m,
                                !.recoveryCounter = c]
    BY <1>3 DEF AfterWin
  <2> HIDE DEF m, c
  <2>2. AfterWin(r) \in RiskState
    <3>1. [r EXCEPT !.consecutiveLosses = 0, !.riskMultiplier = m,
                    !.recoveryCounter = c] \in RiskState
      BY <1>1, 0 \in Nat, AssignRecovery, Zenon
    <3> QED  BY <2>1, <3>1
  <2> QED
    BY <1>1, <1>2, <2>1, <2>2 DEF RiskState
<1>4. CASE ~ (r.riskMultiplier < FullRisk)
  <2>1. AfterWin(r) = [r EXCEPT !.consecutiveLosses = 0, !.recoveryCounter = c]
        /\ m = r.riskMultiplier
    BY <1>4 DEF AfterWin
  <2> HIDE DEF m, c
  <2>2. AfterWin(r) \in RiskState
    <3>1. [r EXCEPT !.consecutiveLosses = 0, !.recoveryCounter = c] \in RiskState
      BY <1>1, 0 \in Nat, AssignFullRisk, Zenon
    <3> QED  BY <2>1, <3>1
  <2> QED
    BY <1>1, <1>2, <2>1, <2>2 DEF RiskState
<1> QED
  BY <1>3, <1>4

(* registerTradeResult keeps the columns well typed, counts every trade,   *)
(* and never clears the switch or moves the day.                           *)
LEMMA RegisterEffect ==
    ASSUME NEW r \in RiskState, NEW pnl \in Int, NEW eq \in Int
    PROVE  LET counted == [r EXCEPT !.dailyPnl = @ + pnl, !.tradesToday = @ + 1]
               q == RegisterTradeResult(r, pnl, eq)
               j == IF pnl < 0 THEN AfterLoss(counted) ELSE AfterWin(counted) IN
           /\ counted \in RiskState
           /\ counted.consecutiveLosses = r.consecutiveLosses
           /\ counted.riskMultiplier = r.riskMultiplier
           /\ counted.recoveryCounter = r.recoveryCounter
           /\ q \in RiskState
           /\ q.tradesToday = r.tradesToday + 1
           /\ q.riskDayStartedAt = r.riskDayStartedAt
           /\ r.killSwitchTriggered => q.killSwitchTriggered
           /\ q.consecutiveLosses = j.consecutiveLosses
           /\ q.riskMultiplier = j.riskMultiplier
           /\ q.recoveryCounter = j.recoveryCounter
<1> DEFINE counted == [r EXCEPT !.dailyPnl = @ + pnl, !.tradesToday = @ + 1]
           j == IF pnl < 0 THEN AfterLoss(counted) ELSE AfterWin(counted)
<1>0. r.dailyPnl + pnl \in Int /\ r.tradesToday + 1 \in Nat
  BY DEF RiskState
<1>1. /\ counted \in RiskState
      /\ counted.consecutiveLosses = r.consecutiveLosses
      /\ counted.riskMultiplier = r.riskMultiplier
      /\ counted.recoveryCounter = r.recoveryCounter
      /\ counted.tradesToday = r.tradesToday + 1
      /\ counted.riskDayStartedAt = r.riskDayStartedAt
      /\ counted.killSwitchTriggered = r.killSwitchTriggered
  <2>1. counted \in RiskState
    BY <1>0, AssignCounts
  <2> QED
    BY <2>1 DEF RiskState
<1>2. /\ j \in RiskState
      /\ j.tradesToday = r.tradesToday + 1
      /\ j.riskDayStartedAt = r.riskDayStartedAt
      /\ j.killSwitchTriggered = r.killSwitchTriggered
  <2> HIDE DEF counted
  <2>1. CASE pnl < 0  BY <1>1, <2>1, AfterLossEffect
  <2>2. CASE ~ (pnl < 0)  BY <1>1, <2>2, AfterWinEffect
  <2> QED  BY <2>1, <2>2
<1>3. RegisterTradeResult(r, pnl, eq)
        = [j EXCEPT !.killSwitchTriggered = @ \/ ~ WithinDailyLoss(r, eq)]
  BY DEF RegisterTradeResult
<1>4. WithinDailyLoss(r, eq) \in BOOLEAN
  BY DEF WithinDailyLoss
<1> HIDE DEF counted, j
<1>5. ASSUME NEW w \in BOOLEAN
      PROVE  LET q == [j EXCEPT !.killSwitchTriggered = @ \/ ~ w] IN
             /\ q \in RiskState
             /\ q.tradesToday = r.tradesToday + 1
             /\ q.riskDayStartedAt = r.riskDayStartedAt
             /\ r.killSwitchTriggered => q.killSwitchTriggered
             /\ q.consecutiveLosses = j.consecutiveLosses
             /\ q.riskMultiplier = j.riskMultiplier
             /\ q.recoveryCounter = j.recoveryCounter
  BY <1>2 DEF RiskState
<1> QED
  BY <1>1, <1>3, <1>4, <1>5 DEF counted, j

(* ensureDay either leaves the row alone or starts today from a clean row. *)
LEMMA EnsureDayEffect ==
    ASSUME NEW r \in RiskState, NEW d \in Nat, NEW eq \in Int
    PROVE  LET q == EnsureDay(r, d, eq) IN
           /\ q \in RiskState
           /\ ~ NeedsNewDay(r, d) => q = r
           /\ NeedsNewDay(r, d) =>
                 /\ q.consecutiveLosses = 0 /\ q.tradesToday = 0
                 /\ q.riskMultiplier = FullRisk /\ q.recoveryCounter = 0
                 /\ q.killSwitchTriggered = FALSE
                 /\ q.riskDayStartedAt = d
                 /\ r.riskDayStartedAt < d
<1>1. NewRisk \in RiskState
  BY DEF NewRisk, RiskState, FullRisk, NoDay
<1>2. CASE NeedsNewDay(r, d)
  <2>1. EnsureDay(r, d, eq) = [NewRisk EXCEPT !.riskDayStartedAt = d,
                                              !.riskDayStartingEquity = eq]
    BY <1>2 DEF EnsureDay
  <2>2. EnsureDay(r, d, eq) \in RiskState
    BY <1>1, <2>1, AssignDay
  <2>3. r.riskDayStartedAt < d
    BY <1>2 DEF NeedsNewDay
  <2> QED
    BY <1>2, <2>1, <2>2, <2>3 DEF NewRisk
<1>3. CASE ~ NeedsNewDay(r, d)
  BY <1>3 DEF EnsureDay
<1> QED
  BY <1>2, <1>3

-----------------------------------------------------------------------------

IInv == TypeOK /\ LossStreakExact /\ BrakeOnStreak /\ RecoveryPending

LEMMA InitIInv == Init => IInv
  BY RiskManagerAssumption, RiskLimitsAssumption
     DEF Init, IInv, TypeOK, LossStreakExact, BrakeOnStreak, RecoveryPending,
         NewRisk, RiskState, FullRisk, NoDay, Phases, Sides, ReduceEnabled

LEMMA NextIInv == IInv /\ [Next]_vars => IInv'
<1> SUFFICES ASSUME IInv, [Next]_vars PROVE IInv'
  OBVIOUS
<1> USE DEF IInv
<1>u. ASSUME UNCHANGED risk, UNCHANGED lastWinAt, TypeOK'
      PROVE  IInv'
  BY <1>u DEF LossStreakExact, BrakeOnStreak, RecoveryPending
<1>1. CASE Candle
  BY <1>1, <1>u, RiskManagerAssumption DEF Candle, TypeOK, Phases
<1>2. ASSUME NEW pnl \in Pnls, RegisterResult(pnl)
      PROVE  IInv'
  <2> DEFINE counted == [risk EXCEPT !.dailyPnl = @ + pnl, !.tradesToday = @ + 1]
  <2>0. pnl \in Int /\ risk \in RiskState /\ equity \in Int
        /\ risk' = RegisterTradeResult(risk, pnl, equity)
    BY <1>2, RiskManagerAssumption DEF RegisterResult, TypeOK
  <2>1. /\ counted \in RiskState
        /\ counted.consecutiveLosses = risk.consecutiveLosses
        /\ counted.riskMultiplier = risk.riskMultiplier
        /\ counted.recoveryCounter = risk.recoveryCounter
        /\ risk' \in RiskState
        /\ risk'.tradesToday = risk.tradesToday + 1
    BY <2>0, RegisterEffect
  <2>2. TypeOK'
    BY <1>2, <2>1 DEF RegisterResult, TypeOK, Sides, RiskState
  <2>3. CASE pnl < 0
    <3>1. LET q == AfterLoss(counted) IN
          /\ risk'.consecutiveLosses = q.consecutiveLosses
          /\ risk'.riskMultiplier = q.riskMultiplier
          /\ risk'.recoveryCounter = q.recoveryCounter
      BY <2>0, <2>3, RegisterEffect
    <3> HIDE DEF counted
    <3>2. /\ risk'.consecutiveLosses = risk.consecutiveLosses + 1
          /\ risk'.recoveryCounter = risk.recoveryCounter
          /\ \/ risk'.riskMultiplier = risk.riskMultiplier
             \/ ReduceEnabled /\ risk'.riskMultiplier = DrawdownReduceFactor
          /\ risk'.riskMultiplier <= risk.riskMultiplier
          /\ ReduceEnabled /\ risk'.consecutiveLosses >= DrawdownReduceAfter
               => risk'.riskMultiplier <= DrawdownReduceFactor
      BY <2>1, <3>1, AfterLossEffect
    <3>3. lastWinAt' = lastWinAt
      BY <1>2, <2>3 DEF RegisterResult
    <3>4. LossStreakExact'
      BY <2>1, <3>2, <3>3 DEF LossStreakExact, TypeOK, RiskState
    <3>5. BrakeOnStreak'
      BY <2>1, <3>2, RiskLimitsAssumption
         DEF BrakeOnStreak, ReduceEnabled, TypeOK, RiskState, FullRisk
    <3>6. RecoveryPending'
      BY <2>1, <3>2 DEF RecoveryPending, TypeOK, RiskState, FullRisk
    <3> QED  BY <2>2, <3>4, <3>5, <3>6
  <2>4. CASE ~ (pnl < 0)
    <3>1. LET q == AfterWin(counted) IN
          /\ risk'.consecutiveLosses = q.consecutiveLosses
          /\ risk'.riskMultiplier = q.riskMultiplier
          /\ risk'.recoveryCounter = q.recoveryCounter
      BY <2>0, <2>4, RegisterEffect
    <3> HIDE DEF counted
    <3>2. /\ risk'.consecutiveLosses = 0
          /\ risk'.riskMultiplier \in {risk.riskMultiplier, FullRisk}
          /\ risk'.recoveryCounter > 0 =>
                /\ risk'.riskMultiplier < FullRisk
                /\ risk'.recoveryCounter < DrawdownRecoveryTrades
      BY <2>1, <3>1, AfterWinEffect
    <3>3. lastWinAt' = risk.tradesToday + 1
      BY <1>2, <2>4 DEF RegisterResult
    <3>4. LossStreakExact'
      BY <2>1, <3>2, <3>3 DEF LossStreakExact, TypeOK, RiskState
    <3>5. BrakeOnStreak'
      BY <2>1, <3>2, RiskLimitsAssumption
         DEF BrakeOnStreak, ReduceEnabled, TypeOK, RiskState, FullRisk
    <3>6. RecoveryPending'
      BY <3>2 DEF RecoveryPending
    <3> QED  BY <2>2, <3>4, <3>5, <3>6
  <2> QED  BY <2>3, <2>4
<1>3. CASE ExternalClose
  BY <1>3, <1>u DEF ExternalClose, TypeOK, Sides
<1>4. CASE NoSignal
  BY <1>4, <1>u DEF NoSignal, TypeOK, Phases
<1>5. CASE SignalDay
  <2>1. risk \in RiskState /\ today \in Nat /\ equity \in Int
        /\ risk' = EnsureDay(risk, today, equity)
    BY <1>5 DEF SignalDay, TypeOK
  <2>2. TypeOK'
    <3>1. risk' \in RiskState
      BY <2>1, EnsureDayEffect
    <3>2. entries' \in Nat /\ lastWinAt' \in Nat
      BY <1>5 DEF SignalDay, TypeOK
    <3> QED
      BY <1>5, <3>1, <3>2 DEF SignalDay, TypeOK, Phases
  <2>3. CASE NeedsNewDay(risk, today)
    <3>1. /\ risk'.consecutiveLosses = 0 /\ risk'.tradesToday = 0
          /\ risk'.riskMultiplier = FullRisk /\ risk'.recoveryCounter = 0
      BY <2>1, <2>3, EnsureDayEffect
    <3>2. lastWinAt' = 0
      BY <1>5, <2>3 DEF SignalDay
    <3> QED
      BY <2>2, <3>1, <3>2, RiskLimitsAssumption
         DEF LossStreakExact, BrakeOnStreak, RecoveryPending, ReduceEnabled, FullRisk
  <2>4. CASE ~ NeedsNewDay(risk, today)
    BY <1>5, <2>1, <2>2, <2>4, EnsureDayEffect, <1>u DEF SignalDay
  <2> QED  BY <2>3, <2>4
<1>6. CASE OpenTrade
  BY <1>6, <1>u DEF OpenTrade, TypeOK, Sides, Phases
<1>7. CASE DropSignal
  BY <1>7, <1>u DEF DropSignal, TypeOK, Phases
<1>8. CASE NextDay
  BY <1>8, <1>u DEF NextDay, TypeOK
<1>9. CASE UNCHANGED vars
  BY <1>9, <1>u DEF vars, TypeOK
<1> QED
  BY <1>1, <1>2, <1>3, <1>4, <1>5, <1>6, <1>7, <1>8, <1>9 DEF Next

THEOREM InductiveInvariant == Spec => []IInv
  BY InitIInv, NextIInv, PTL DEF Spec

(* The row and the handler keep their types for every configuration.       *)
THEOREM TypeCorrect == Spec => []TypeOK
<1>1. IInv => TypeOK  BY DEF IInv
<1> QED  BY <1>1, InductiveInvariant, PTL

(* MOM-19 counts exactly the trades since the last win or day reset.       *)
THEOREM StreakIsExact == Spec => []LossStreakExact
<1>1. IInv => LossStreakExact  BY DEF IInv
<1> QED  BY <1>1, InductiveInvariant, PTL

(* MOM-20: a running streak always trades at the reduced size, and a       *)
(* recovery under way is never already earned.                             *)
THEOREM BrakeIsExact == Spec => []BrakeExact
<1>1. IInv => BrakeExact  BY DEF IInv, BrakeExact
<1> QED  BY <1>1, InductiveInvariant, PTL

-----------------------------------------------------------------------------

(* Risk is raised only by a day reset or by the win that ends a recovery.  *)
THEOREM RaisesAreEarned == Spec => RaiseIsEarned
<1> DEFINE Earned ==
       risk'.riskMultiplier > risk.riskMultiplier =>
          /\ risk'.riskMultiplier = FullRisk
          /\ risk'.consecutiveLosses = 0
          /\ \/ risk'.riskDayStartedAt > risk.riskDayStartedAt
             \/ risk.recoveryCounter + 1 >= DrawdownRecoveryTrades
<1>1. IInv /\ [Next]_vars => [Earned]_vars
  <2> SUFFICES ASSUME IInv, [Next]_vars PROVE Earned
    OBVIOUS
  <2>0. risk \in RiskState /\ equity \in Int /\ today \in Nat
    BY DEF IInv, TypeOK
  <2>u. ASSUME UNCHANGED risk PROVE Earned
    BY <2>0, <2>u DEF RiskState
  <2>1. ASSUME NEW pnl \in Pnls, RegisterResult(pnl) PROVE Earned
    <3> DEFINE counted == [risk EXCEPT !.dailyPnl = @ + pnl, !.tradesToday = @ + 1]
    <3>1. pnl \in Int /\ risk' = RegisterTradeResult(risk, pnl, equity)
      BY <2>1, RiskManagerAssumption DEF RegisterResult
    <3>2. /\ counted \in RiskState
          /\ counted.riskMultiplier = risk.riskMultiplier
          /\ counted.recoveryCounter = risk.recoveryCounter
      BY <2>0, <3>1, RegisterEffect
    <3>3. CASE pnl < 0
      <4>1. risk'.riskMultiplier = AfterLoss(counted).riskMultiplier
        BY <2>0, <3>1, <3>3, RegisterEffect
      <4> HIDE DEF counted
      <4>2. /\ AfterLoss(counted).riskMultiplier <= risk.riskMultiplier
            /\ AfterLoss(counted) \in RiskState
        BY <3>2, AfterLossEffect
      <4> QED  BY <2>0, <4>1, <4>2 DEF RiskState
    <3>4. CASE ~ (pnl < 0)
      <4>1. /\ risk'.riskMultiplier = AfterWin(counted).riskMultiplier
            /\ risk'.consecutiveLosses = AfterWin(counted).consecutiveLosses
        BY <2>0, <3>1, <3>4, RegisterEffect
      <4> HIDE DEF counted
      <4>2. LET q == AfterWin(counted) IN
            /\ q \in RiskState
            /\ q.consecutiveLosses = 0
            /\ q.riskMultiplier \in {risk.riskMultiplier, FullRisk}
            /\ q.riskMultiplier > risk.riskMultiplier =>
                  risk.recoveryCounter + 1 >= DrawdownRecoveryTrades
        BY <3>2, AfterWinEffect
      <4> QED  BY <2>0, <4>1, <4>2 DEF RiskState, FullRisk
    <3> QED  BY <3>3, <3>4
  <2>2. CASE SignalDay
    <3>1. risk' = EnsureDay(risk, today, equity)
      BY <2>2 DEF SignalDay
    <3>2. CASE NeedsNewDay(risk, today)
      <4>1. /\ risk'.riskMultiplier = FullRisk
            /\ risk'.consecutiveLosses = 0
            /\ risk'.riskDayStartedAt = today
            /\ risk.riskDayStartedAt < today
        BY <2>0, <3>1, <3>2, EnsureDayEffect
      <4>2. risk.riskDayStartedAt \in Nat
        BY <2>0 DEF RiskState
      <4> QED  BY <2>0, <4>1, <4>2
    <3>3. CASE ~ NeedsNewDay(risk, today)
      <4>1. UNCHANGED risk
        BY <2>0, <3>1, <3>3, EnsureDayEffect
      <4> HIDE DEF Earned
      <4> QED  BY <4>1, <2>u
    <3> QED  BY <3>2, <3>3
  <2>3. ASSUME \/ Candle \/ ExternalClose \/ NoSignal \/ OpenTrade
               \/ DropSignal \/ NextDay \/ UNCHANGED vars
        PROVE  UNCHANGED risk
    BY <2>3 DEF Candle, ExternalClose, NoSignal, OpenTrade, DropSignal, NextDay, vars
  <2> HIDE DEF Earned
  <2> QED  BY <2>1, <2>2, <2>3, <2>u DEF Next
<1> QED
  BY <1>1, InductiveInvariant, PTL DEF Spec, RaiseIsEarned

(* The detailed risk manager implements the gate: every step halts it,     *)
(* starts a later day, lets one position through an open gate, or stutters.*)
THEOREM ImplementsGate == Spec => GateSpec
<1>1. Init => Gate!Init
  BY DEF Init, Gate!Init, NewRisk, NoDay
<1>2. IInv /\ [Next]_vars => [Gate!Next]_(Gate!gateVars)
  <2> SUFFICES ASSUME IInv, [Next]_vars
               PROVE  Gate!Next \/ UNCHANGED Gate!gateVars
    BY DEF Gate!gateVars
  <2>0. risk \in RiskState /\ equity \in Int /\ today \in Nat
    BY DEF IInv, TypeOK
  <2>1. ASSUME NEW pnl \in Pnls, RegisterResult(pnl)
        PROVE  Gate!Halt \/ UNCHANGED Gate!gateVars
    <3>1. /\ risk' = RegisterTradeResult(risk, pnl, equity)
          /\ pnl \in Int /\ entries' = entries
      BY <2>1, RiskManagerAssumption DEF RegisterResult
    <3>2. /\ risk' \in RiskState
          /\ risk'.riskDayStartedAt = risk.riskDayStartedAt
          /\ risk.killSwitchTriggered => risk'.killSwitchTriggered
      BY <2>0, <3>1, RegisterEffect
    <3>3. risk.killSwitchTriggered \in BOOLEAN /\ risk'.killSwitchTriggered \in BOOLEAN
      BY <2>0, <3>2 DEF RiskState
    <3>4. CASE risk'.killSwitchTriggered = risk.killSwitchTriggered
      BY <3>1, <3>2, <3>4 DEF Gate!gateVars
    <3>5. CASE risk'.killSwitchTriggered # risk.killSwitchTriggered
      BY <3>1, <3>2, <3>3, <3>5 DEF Gate!Halt
    <3> QED  BY <3>4, <3>5
  <2>2. CASE SignalDay
    <3>1. risk' = EnsureDay(risk, today, equity)
      BY <2>2 DEF SignalDay
    <3>2. CASE NeedsNewDay(risk, today)
      <4>1. /\ risk'.riskDayStartedAt = today
            /\ risk.riskDayStartedAt < today
            /\ risk'.killSwitchTriggered = FALSE
        BY <2>0, <3>1, <3>2, EnsureDayEffect
      <4>2. entries' = 0
        BY <2>2, <3>2 DEF SignalDay
      <4>3. risk.riskDayStartedAt \in Nat
        BY <2>0 DEF RiskState
      <4>4. Gate!StartDay
        BY <2>0, <4>1, <4>2, <4>3 DEF Gate!StartDay
      <4> QED  BY <4>4 DEF Gate!Next
    <3>3. CASE ~ NeedsNewDay(risk, today)
      BY <2>0, <2>2, <3>1, <3>3, EnsureDayEffect DEF SignalDay, Gate!gateVars
    <3> QED  BY <3>2, <3>3
  <2>3. CASE OpenTrade
    BY <2>3 DEF OpenTrade, CanOpenNewTrade, Gate!Enter, Gate!Next
  <2>4. ASSUME \/ Candle \/ ExternalClose \/ NoSignal \/ DropSignal
               \/ NextDay \/ UNCHANGED vars
        PROVE  UNCHANGED Gate!gateVars
    BY <2>4 DEF Candle, ExternalClose, NoSignal, DropSignal, NextDay, vars, Gate!gateVars
  <2> QED  BY <2>1, <2>2, <2>3, <2>4 DEF Next, Gate!Next
<1> QED
  BY <1>1, <1>2, InductiveInvariant, PTL DEF Spec, GateSpec, Gate!Spec

==============================================================================
