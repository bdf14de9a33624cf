---------------------------- MODULE TakeProfitPlan ----------------------------
(***************************************************************************)
(* From a strategy's take-profit configuration to the targets of a         *)
(* position: StrategyEngine.normTpl, fromTpl and buildTps, the last checks *)
(* of buildSig, and Simulator.normalizeTargets.                            *)
(*                                                                         *)
(* Pure operators.  A ratio is a number of lots out of Lots, so the        *)
(* quantity of a target is its ratio; prices and R-multiples are integers; *)
(* labels are left out.  dir is 1 for LONG and -1 for SHORT.               *)
(***************************************************************************)
EXTENDS Integers, Sequences, SequencesExt

CONSTANTS
    Lots,     \* the quantity of an entry, and the ratio 1
    Entry,    \* signal.entryPrice
    StopDist  \* |entryPrice - sl|

ASSUME PlanAssumption ==
    /\ Lots \in Nat \ {0}
    /\ Entry \in Nat /\ StopDist \in Nat \ {0} /\ StopDist < Entry

PriceAt(dir, r) == Entry + dir * r * StopDist
Target(price, ratio) == [price |-> price, ratio |-> ratio]
Total(numbers) == FoldLeft(+, 0, numbers)
RatioOf(ts) == Total([i \in DOMAIN ts |-> ts[i].ratio])

\* normTpl: entries that say nothing are skipped, ratios are cut to what is left.
NormTpl(template) ==
    FoldLeft(LAMBDA o, e : LET rem == Lots - RatioOf(o) IN
                 IF e.ratio <= 0 \/ e.r <= 0 \/ rem <= 0 THEN o
                 ELSE Append(o, [r |-> e.r, ratio |-> Min({e.ratio, rem})]),
             <<>>, template)

\* fromTpl: prices that are not positive are skipped; what the others leave goes
\* to the price of the last entry.
FromTpl(t, dir) ==
    LET out  == FoldLeft(LAMBDA o, e : IF PriceAt(dir, e.r) <= 0 THEN o
                                       ELSE Append(o, Target(PriceAt(dir, e.r), e.ratio)),
                         <<>>, t)
        rest == Lots - RatioOf(out)
        p    == PriceAt(dir, Last(t).r)
    IN  IF rest > 0 /\ p > 0 THEN Append(out, Target(p, rest)) ELSE out

\* buildTps without a template, from the strategy's columns: tp1Ratio at
\* tp1RMultiple, the rest at tp2RMultiple.  Neither multiple is checked.
TwoTargets(tp, dir) ==
    LET p1    == PriceAt(dir, tp.r1)
        pf    == PriceAt(dir, tp.r2)
        first == IF tp.ratio > 0 /\ p1 > 0 THEN <<Target(p1, tp.ratio)>> ELSE <<>>
    IN  CASE pf <= 0 -> <<>>
          [] pf > 0 /\ tp.ratio >= Lots -> <<Target(pf, Lots)>>
          [] pf > 0 /\ tp.ratio < Lots ->
                Append(first, Target(pf, IF first # <<>> THEN Lots - tp.ratio ELSE Lots))

BuildTps(template, tp, dir) ==
    LET t       == NormTpl(template)
        planned == IF t = <<>> THEN <<>> ELSE FromTpl(t, dir)
    IN  IF planned # <<>> THEN planned ELSE TwoTargets(tp, dir)

SimTarget(price, qty) == [price |-> price, qty |-> qty, filledQty |-> 0, hit |-> FALSE]

\* Mutant of NormalizeTargets: the part no target claims is not added.
NormalizeTargets_NoRest(plan) ==
    [i \in DOMAIN plan |-> SimTarget(plan[i].price, plan[i].ratio)]

\* normalizeTargets, of a plan and its last price as tp.
NormalizeTargets(plan) ==
    LET cut  == FoldLeft(LAMBDA o, t : LET rem == Lots - RatioOf(o) IN
                             IF t.price <= 0 \/ t.ratio <= 0 \/ rem <= 0 THEN o
                             ELSE Append(o, Target(t.price, Min({t.ratio, rem}))),
                         <<>>, plan)
        rest == Lots - RatioOf(cut)
        all  == IF rest > 0 THEN Append(cut, Target(Last(plan).price, rest)) ELSE cut
    IN  [i \in DOMAIN all |-> SimTarget(all[i].price, all[i].ratio)]

==============================================================================
