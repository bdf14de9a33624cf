----------------------------- MODULE MCEntryOrder -----------------------------
(* An entry of 4 lots at 10 with the stop 2 away, orders in steps of 3 lots,   *)
(* and three template lists: none, one that sells less than everything, and    *)
(* one that leaves a rest, exceeds the whole when doubled, and has a target a  *)
(* short cannot reach (price 0).  Two requests rewrite the lists meanwhile,    *)
(* and the columns put the TP1 of an entry without a template behind it.       *)
EXTENDS EntryOrder

E(r, ratio) == [r |-> r, ratio |-> ratio]
MCColumns == {[ratio |-> 1, r1 |-> -1, r2 |-> 2]}
MCLists == {<<>>, <<E(2, 3)>>, <<E(1, 1), E(5, 2)>>}
==============================================================================
