---------------------------- MODULE MarkPriceFeed ----------------------------
(***************************************************************************)
(* BitgetMarkPriceWsService: one connection that is made again whenever it *)
(* breaks, and the symbols it is subscribed to.                            *)
(*                                                                         *)
(* What is wanted (subscribedSymbols), what was sent, and what Bitget      *)
(* serves are three things: a command is sent only on an open connection,  *)
(* is some time on its way, may be refused, and is lost with its           *)
(* connection.  A message lists its symbols one by one, so each symbol has *)
(* a queue of its own.  Prices are left out, but for whether one is        *)
(* cached; so is the ping, which nothing waits for.                        *)
(***************************************************************************)
EXTENDS Naturals, Sequences, SequencesExt

CONSTANTS
    Symbols,
    MaxCalls,    \* bound: calls of subscribe and unsubscribe
    MaxTrouble,  \* bound: broken connections and refused commands
    MaxFlight    \* bound: prices of a symbol on their way

ASSUME FeedAssumption == {MaxCalls, MaxTrouble, MaxFlight} \subseteq Nat

VARIABLES
    alive,       \* false once the module is destroyed
    timer,       \* reconnectTimer is set
    conn,        \* this.ws: readyState, of which the close event makes "closed"
    subscribed,  \* subscribedSymbols
    cached,      \* latestPrices has a price
    up,          \* per symbol, the commands on their way: TRUE is subscribe
    served,      \* Bitget sends the symbol's prices on this connection
    refused,     \* Bitget has refused a command about the symbol on it
    down,        \* prices on their way
    calls, trouble

client == <<alive, timer, conn>>
wire == <<up, served, refused, down>>
vars == <<client, subscribed, cached, wire, calls, trouble>>

None == [s \in Symbols |-> FALSE]
Empty == [s \in Symbols |-> <<>>]

\* The service after onModuleInit.
Init ==
    /\ alive = TRUE /\ timer = FALSE /\ conn = "connecting"
    /\ subscribed = None /\ cached = None
    /\ up = Empty /\ served = None /\ refused = None /\ down = [s \in Symbols |-> 0]
    /\ calls = 0 /\ trouble = MaxTrouble

Called == calls < MaxCalls /\ calls' = calls + 1
Trouble == trouble > 0 /\ trouble' = trouble - 1

\* sendSubscribe, sendUnsubscribe: nothing unless the connection is open.
Send(s, wanted) ==
    up' = IF conn = "open" THEN [up EXCEPT ![s] = Append(@, wanted)] ELSE up

Subscribe(s) ==
    /\ Called
    /\ ~ subscribed[s]
    /\ subscribed' = [subscribed EXCEPT ![s] = TRUE]
    /\ Send(s, TRUE)
    /\ UNCHANGED <<client, cached, served, refused, down, trouble>>

Unsubscribe(s) ==
    /\ Called
    /\ subscribed[s]
    /\ subscribed' = [subscribed EXCEPT ![s] = FALSE]
    /\ cached' = [cached EXCEPT ![s] = FALSE]
    /\ Send(s, FALSE)
    /\ UNCHANGED <<client, served, refused, down, trouble>>

\* Mutant of Opened: the symbols are not subscribed again.
Opened_Fresh ==
    /\ conn = "connecting"
    /\ conn' = "open"
    /\ UNCHANGED <<alive, timer, subscribed, cached, wire, calls, trouble>>

\* The open event: everything wanted is subscribed to (again).
Opened ==
    /\ conn = "connecting"
    /\ conn' = "open"
    /\ up' = [s \in Symbols |-> IF subscribed[s] THEN <<TRUE>> ELSE <<>>]
    /\ UNCHANGED <<alive, timer, subscribed, cached, served, refused, down, calls, trouble>>

Lost ==
    /\ up' = Empty /\ served' = None /\ refused' = None
    /\ down' = [s \in Symbols |-> 0]

\* The connection, or the attempt to make one, breaks.
Breaks ==
    /\ conn \in {"connecting", "open"}
    /\ Trouble
    /\ conn' = "closing"
    /\ Lost
    /\ UNCHANGED <<alive, timer, subscribed, cached, calls>>

\* Mutant of Closed: it is left to the error event to reconnect.
Closed_Only ==
    /\ conn = "closing"
    /\ conn' = "closed"
    /\ Lost
    /\ UNCHANGED <<alive, timer, subscribed, cached, calls, trouble>>

\* The close event: scheduleReconnect, unless destroyed.
Closed ==
    /\ conn = "closing"
    /\ conn' = "closed"
    /\ timer' = alive
    /\ Lost
    /\ UNCHANGED <<alive, subscribed, cached, calls, trouble>>

\* The timer fires: connect.
Reconnect ==
    /\ timer
    /\ timer' = FALSE
    /\ conn' = "connecting"
    /\ UNCHANGED <<alive, subscribed, cached, wire, calls, trouble>>

\* Mutant of Destroy: the timer is left running.
Destroy_KeepsTimer ==
    /\ alive
    /\ alive' = FALSE
    /\ conn' = IF conn = "closed" THEN conn ELSE "closing"
    /\ UNCHANGED <<timer, subscribed, cached, wire, calls, trouble>>

\* onModuleDestroy: the timer is cleared and the socket closed; what is on its
\* way may still arrive until the close event.
Destroy ==
    /\ alive
    /\ alive' = FALSE
    /\ timer' = FALSE
    /\ conn' = IF conn = "closed" THEN conn ELSE "closing"
    /\ UNCHANGED <<subscribed, cached, wire, calls, trouble>>

-----------------------------------------------------------------------------
(* Bitget: commands about a symbol are carried out in order, or refused    *)
(* with an error event, which the service ignores.                         *)

Serve(s) ==
    /\ conn = "open" /\ up[s] # <<>>
    /\ served' = [served EXCEPT ![s] = Head(up[s])]
    /\ up' = [up EXCEPT ![s] = Tail(@)]
    /\ UNCHANGED <<client, subscribed, cached, refused, down, calls, trouble>>

Refuse(s) ==
    /\ conn = "open" /\ up[s] # <<>>
    /\ Trouble
    /\ refused' = [refused EXCEPT ![s] = TRUE]
    /\ up' = [up EXCEPT ![s] = Tail(@)]
    /\ UNCHANGED <<client, subscribed, cached, served, down, calls>>

SendPrice(s) ==
    /\ conn = "open" /\ served[s]
    /\ down[s] < MaxFlight
    /\ down' = [down EXCEPT ![s] = @ + 1]
    /\ UNCHANGED <<client, subscribed, cached, up, served, refused, calls, trouble>>

\* onMarkPriceData: the price is cached and emitted, whoever still wants it; a
\* row without a price is skipped.
OnMarkPriceData(s) ==
    /\ conn \in {"open", "closing"} /\ down[s] > 0
    /\ down' = [down EXCEPT ![s] = @ - 1]
    /\ \E priced \in BOOLEAN : cached' = [cached EXCEPT ![s] = @ \/ priced]
    /\ UNCHANGED <<client, subscribed, up, served, refused, calls, trouble>>

Next ==
    \/ Opened \/ Breaks \/ Closed \/ Reconnect \/ Destroy
    \/ \E s \in Symbols :
          \/ Subscribe(s) \/ Unsubscribe(s)
          \/ Serve(s) \/ Refuse(s) \/ SendPrice(s) \/ OnMarkPriceData(s)

Spec == Init /\ [][Next]_vars

\* An attempt to connect ends, close events and timers come, Bitget answers.
Fairness ==
    /\ WF_vars(Opened) /\ WF_vars(Closed) /\ WF_vars(Reconnect)
    /\ \A s \in Symbols : WF_vars(Serve(s))

FairSpec == Spec /\ Fairness

-----------------------------------------------------------------------------

\* Type invariant; the timer waits only where a connection is missing.
TypeOK ==
    /\ alive \in BOOLEAN /\ timer \in BOOLEAN
    /\ conn \in {"connecting", "open", "closing", "closed"}
    /\ timer => alive /\ conn = "closed"
    /\ subscribed \in [Symbols -> BOOLEAN] /\ cached \in [Symbols -> BOOLEAN]
    /\ up \in [Symbols -> Seq(BOOLEAN)]
    /\ served \in [Symbols -> BOOLEAN] /\ refused \in [Symbols -> BOOLEAN]
    /\ down \in [Symbols -> Nat]
    /\ calls \in Nat /\ trouble \in Nat

LastWord(s) == IF up[s] = <<>> THEN served[s] ELSE Last(up[s])

(* The set, the commands on their way and Bitget's state never drift apart:  *)
(* on an open connection the last word about a symbol is what is wanted, in  *)
(* whatever order calls, breaks and reconnects come - unless Bitget refused  *)
(* a command, which nobody notices (subscribe, unsubscribe, the open event,  *)
(* bitget-markprice-ws.service.ts:56-95).                                    *)
ServedAsWanted ==
    conn = "open" => \A s \in Symbols : refused[s] \/ LastWord(s) = subscribed[s]

(* A symbol that stays wanted is served again after however many breaks, and *)
(* one that stays unwanted falls silent, unless a command about it was       *)
(* refused or the module is destroyed (scheduleReconnect).                   *)
FeedSettles ==
    \A s \in Symbols, wanted \in BOOLEAN :
        subscribed[s] = wanted ~>
            \/ subscribed[s] # wanted \/ ~ alive \/ refused[s]
            \/ conn = "open" /\ served[s] = wanted

==============================================================================
