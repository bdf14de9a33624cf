----------------------------- MODULE TradingGate -----------------------------
(***************************************************************************)
(* What the risk manager promises the trading loop, and nothing else: a    *)
(* gate that, once halted, lets no position through until a later day is   *)
(* started.                                                                *)
(***************************************************************************)
EXTENDS Naturals

VARIABLES
    halted,   \* the kill switch
    day,      \* the day the gate is working for
    entries   \* positions let through since that day started

gateVars == <<halted, day, entries>>

Init == halted = FALSE /\ day = 0 /\ entries = 0

Halt ==
    /\ ~ halted
    /\ halted' = TRUE
    /\ UNCHANGED <<day, entries>>

StartDay ==
    /\ day' \in Nat /\ day' > day
    /\ halted' = FALSE
    /\ entries' = 0

Enter ==
    /\ ~ halted
    /\ entries' = entries + 1
    /\ UNCHANGED <<halted, day>>

Next == Halt \/ StartDay \/ Enter

Spec == Init /\ [][Next]_gateVars

==============================================================================
