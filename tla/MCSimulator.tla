----------------------------- MODULE MCSimulator ------------------------------
(* One entry of 4 lots at 10 with the stop 2 away, closing prices at, beyond *)
(* and between every stop and target, and plans of every shape: one target,  *)
(* several, more than everything, a target a short cannot have (price 0),    *)
(* out of order, and one whose first target is behind the entry.             *)
EXTENDS Simulator

MCTemplates ==
    LET E(r, ratio) == [r |-> r, ratio |-> ratio]
    IN  {<<>>, <<E(1, 1), E(2, 1), E(3, 2)>>, <<E(1, 3), E(2, 3)>>, <<E(5, 2), E(1, 2)>>}
MCColumns == {[ratio |-> 0, r1 |-> 1, r2 |-> 2], [ratio |-> 1, r1 |-> -1, r2 |-> 1]}
MCPlans ==
    [d \in {1, -1} |->
        {NormalizeTargets(tps) :
            tps \in {BuildTps(t, tp, d) : t \in MCTemplates, tp \in MCColumns} \ {<<>>}}]
MCCloses == {6, 9, 12, 14, 20}
==============================================================================
