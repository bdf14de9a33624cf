----------------------------- MODULE PositionBook -----------------------------
(***************************************************************************)
(* What the simulator promises about one position, whatever its targets    *)
(* and the candles: it is sold off in parts, and the stop only moves the   *)
(* position's way; if its plan is sound, every target beyond the entry,    *)
(* each part yields what the stop then in force would have or better,      *)
(* however far beyond it the candle closed.                                *)
(*                                                                         *)
(* Two things may set a position back.  A candle cut short by a failure    *)
(* forgets parts already sold and a stop already moved, but a paper        *)
(* position never gets larger than its entry by it, nor a closed one back. *)
(* And the exchange's numbers may replace those of a real one: any         *)
(* quantity, and the first stop for the one at the entry.  Nothing is      *)
(* promised against that.                                                  *)
(***************************************************************************)
EXTENDS Integers

CONSTANTS Lots, Entry, StopDist

VARIABLES
    dir,    \* 1 long, -1 short
    real,   \* the position of a real session
    sound,  \* every target is beyond the entry
    held,   \* quantity held; 0 when closed
    stop,   \* the stop price
    gross,  \* what the parts sold so far have yielded, before fees
    cuts    \* how many failures there were

vars == <<dir, real, sound, held, stop, gross, cuts>>

FirstStop == Entry - dir * StopDist

Init ==
    /\ dir \in {1, -1}
    /\ real \in BOOLEAN
    /\ sound \in BOOLEAN
    /\ held = Lots
    /\ stop = FirstStop
    /\ gross = 0
    /\ cuts = 0

\* A part is sold, or the stop is tightened.
Sell ==
    /\ held' \in 0..held
    /\ held' > 0 => dir * stop' >= dir * stop
    /\ sound => gross' - gross >= (held - held') * dir * (stop - Entry)
    /\ UNCHANGED <<dir, real, sound, cuts>>

\* A failure: back to what the rows say.
Cut ==
    /\ cuts' = cuts + 1
    /\ ~ real => IF held = 0 THEN held' = 0 ELSE held' \in {0} \union held..Lots
    /\ held' \in Nat
    /\ stop' \in {stop, FirstStop, Entry}
    /\ UNCHANGED <<dir, real, sound, gross>>

\* The exchange's numbers replace the row's.
Resync ==
    /\ real
    /\ held' \in Nat
    /\ stop' \in {FirstStop, Entry}
    /\ UNCHANGED <<dir, real, sound, gross, cuts>>

Next == Sell \/ Cut \/ Resync

Spec == Init /\ [][Next]_vars

==============================================================================
