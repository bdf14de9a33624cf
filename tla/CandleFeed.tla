------------------------------ MODULE CandleFeed ------------------------------
(***************************************************************************)
(* BitgetWsService: the WebSocket that turns Bitget's candle rows into     *)
(* candle.closed and candle.update events.  candle.closed makes every      *)
(* running session of the symbol trade (BotService.onCandleClosed), so     *)
(* this module is about which rows become one.                             *)
(*                                                                         *)
(* A candle is its number, counted from 1.  The exchange (external) is     *)
(* modelled from the comments of the service: on subscription it sends, in *)
(* any order over the symbols, a snapshot of all recent candles with       *)
(* confirm = 1, and from then on the symbol's live rows; the connection    *)
(* delivers in order and loses what is in flight when it drops.  A frame   *)
(* of several rows is a run of rows on the wire: the handler's loop has no *)
(* await, and cutting a frame short is a drop between two frames.          *)
(***************************************************************************)
EXTENDS Naturals, Sequences

CONSTANTS
    Symbols,     \* TRACKED_SYMBOLS
    MaxCandle,   \* bound: candles per symbol
    MaxWire,     \* bound: live rows join the wire while it is shorter than this
    MaxTrouble   \* bound: drops, failed connects and restarts

\* The value of endedBy while no row has ended the phase.
None == "none"

ASSUME FeedAssumption ==
    /\ None \notin Symbols
    /\ {MaxCandle, MaxWire, MaxTrouble} \subseteq Nat

VARIABLES
    alive,          \* FALSE after onModuleDestroy
    conn,           \* "connecting", "open", "closing" or "down"
    reconnectTimer, \* a reconnect is scheduled
    pingTimer,      \* the ping interval is running
    snapshotPhase,  \* the service is absorbing a snapshot
    lastClosed,     \* lastClosedTime, per symbol; 0 when it has no entry
    closed,         \* the exchange: candles closed so far
    snapDue,        \* the exchange: symbols whose snapshot is still to be sent
    wire,           \* rows in flight
    trouble,        \* drops, failed connects and restarts still to come
    \* History, read by no action:
    lastEmitted,    \* the candle emitted last as candle.closed since the start
    endedBy         \* the symbol whose row ended the phase on this connection

vars == <<alive, conn, reconnectTimer, pingTimer, snapshotPhase, lastClosed,
          closed, snapDue, wire, trouble, lastEmitted, endedBy>>
timers == <<reconnectTimer, pingTimer>>
client == <<snapshotPhase, lastClosed, lastEmitted, endedBy>>
server == <<closed, snapDue>>

Conns == {"connecting", "open", "closing", "down"}
Row(s, t, confirm, snap) == [sym |-> s, t |-> t, confirm |-> confirm, snap |-> snap]

Init ==
    /\ alive = TRUE
    /\ conn = "connecting"
    /\ reconnectTimer = FALSE
    /\ pingTimer = FALSE
    /\ snapshotPhase = TRUE
    /\ lastClosed = [s \in Symbols |-> 0]
    /\ closed = [s \in Symbols |-> 1]
    /\ snapDue = {}
    /\ wire = <<>>
    /\ trouble = MaxTrouble
    /\ lastEmitted = [s \in Symbols |-> 0]
    /\ endedBy = None

-----------------------------------------------------------------------------
(* The connection.                                                         *)

\* ws "open": absorb what comes first, subscribe to every symbol, ping.
Open ==
    /\ conn = "connecting"
    /\ conn' = "open"
    /\ snapshotPhase' = TRUE
    /\ snapDue' = Symbols
    /\ pingTimer' = TRUE
    /\ endedBy' = None
    /\ UNCHANGED <<alive, reconnectTimer, lastClosed, closed, wire, trouble, lastEmitted>>

\* Mutant of Closed: the close handler does not schedule a reconnect.
Closed_StaysDown ==
    /\ conn' = "down"
    /\ wire' = <<>>
    /\ snapDue' = {}
    /\ pingTimer' = FALSE
    /\ UNCHANGED reconnectTimer

\* ws "close": stop the ping and, unless the module is being destroyed, schedule
\* a reconnect.
Closed ==
    /\ conn' = "down"
    /\ wire' = <<>>
    /\ snapDue' = {}
    /\ pingTimer' = FALSE
    /\ reconnectTimer' = alive

\* The connection breaks, or could not be made.
Drop ==
    /\ conn \in {"connecting", "open"}
    /\ trouble > 0
    /\ trouble' = trouble - 1
    /\ Closed
    /\ UNCHANGED <<alive, closed, client>>

\* The close asked for by onModuleDestroy completes.
CloseCompletes ==
    /\ conn = "closing"
    /\ Closed
    /\ UNCHANGED <<alive, closed, trouble, client>>

Reconnect ==
    /\ reconnectTimer
    /\ reconnectTimer' = FALSE
    /\ conn' = IF alive THEN "connecting" ELSE conn
    /\ UNCHANGED <<alive, pingTimer, wire, trouble, client, server>>

\* onModuleDestroy
Destroy ==
    /\ alive
    /\ alive' = FALSE
    /\ reconnectTimer' = FALSE
    /\ pingTimer' = FALSE
    /\ conn' = IF conn = "down" THEN "down" ELSE "closing"
    /\ UNCHANGED <<wire, trouble, client, server>>

\* Mutant of Restart: a symbol without an entry does not count as 0.
Restart_EmptyMap ==
    /\ trouble > 0
    /\ trouble' = trouble - 1
    /\ alive' = TRUE
    /\ conn' = "connecting"
    /\ lastClosed' = <<>>
    /\ UNCHANGED <<timers, snapshotPhase, lastEmitted, endedBy, server, wire>>

\* The process dies and comes back: the maps start empty.
Restart ==
    /\ trouble > 0
    /\ trouble' = trouble - 1
    /\ alive' = TRUE
    /\ conn' = "connecting"
    /\ reconnectTimer' = FALSE
    /\ pingTimer' = FALSE
    /\ snapshotPhase' = TRUE
    /\ lastClosed' = [s \in Symbols |-> 0]
    /\ lastEmitted' = [s \in Symbols |-> 0]
    /\ endedBy' = None
    /\ snapDue' = {}
    /\ wire' = <<>>
    /\ UNCHANGED closed

-----------------------------------------------------------------------------
(* The exchange.                                                           *)

SendSnapshot(s) ==
    /\ conn = "open"
    /\ s \in snapDue
    /\ wire' = wire \o [t \in 1..closed[s] |-> Row(s, t, TRUE, TRUE)]
    /\ snapDue' = snapDue \ {s}
    /\ UNCHANGED <<alive, conn, timers, closed, trouble, client>>

Subscribed(s) == conn = "open" /\ s \notin snapDue

SendUpdate(s) ==
    /\ Subscribed(s)
    /\ Len(wire) < MaxWire
    /\ wire' = Append(wire, Row(s, closed[s] + 1, FALSE, FALSE))
    /\ UNCHANGED <<alive, conn, timers, trouble, client, server>>

\* A candle of s closes, and is sent if the subscription is live.
CandleEnds(s) ==
    /\ closed[s] < MaxCandle
    /\ Len(wire) < MaxWire
    /\ closed' = [closed EXCEPT ![s] = @ + 1]
    /\ wire' = IF Subscribed(s) THEN Append(wire, Row(s, closed[s] + 1, TRUE, FALSE))
               ELSE wire
    /\ UNCHANGED <<alive, conn, timers, snapDue, trouble, client>>

-----------------------------------------------------------------------------
(* onCandleData, one row.                                                  *)

\* Mutant of Emits: the phase alone decides.
Emits_Duplicates(row) == row.confirm /\ ~ snapshotPhase

\* Mutant of Emits: rows in progress are emitted like closed ones.
Emits_InProgress(row) == ~ snapshotPhase /\ row.t > lastClosed[row.sym]

\* Mutant of Emits: the phase is not looked at.
Emits_Snapshot(row) == row.confirm /\ row.t > lastClosed[row.sym]

\* Mutant of Emits: lastTs is read after the map has been updated.
Emits_ReadsLate(row) ==
    LET lastTs == IF row.t > lastClosed[row.sym] THEN row.t ELSE lastClosed[row.sym]
    IN  row.confirm /\ ~ snapshotPhase /\ row.t > lastTs

\* The row becomes candle.closed; every other row becomes candle.update.
Emits(row) == row.confirm /\ ~ snapshotPhase /\ row.t > lastClosed[row.sym]

Receive ==
    LET row == Head(wire) IN
    /\ conn \in {"open", "closing"}
    /\ wire # <<>>
    /\ wire' = Tail(wire)
    /\ snapshotPhase' = (snapshotPhase /\ row.confirm)
    /\ endedBy' = IF snapshotPhase /\ ~ row.confirm THEN row.sym ELSE endedBy
    /\ lastClosed' = IF row.confirm /\ row.t > lastClosed[row.sym]
                     THEN [lastClosed EXCEPT ![row.sym] = row.t] ELSE lastClosed
    /\ lastEmitted' = IF Emits(row) THEN [lastEmitted EXCEPT ![row.sym] = row.t]
                      ELSE lastEmitted
    /\ UNCHANGED <<alive, conn, timers, trouble, server>>

Next ==
    \/ Open \/ Drop \/ CloseCompletes \/ Reconnect \/ Destroy \/ Restart
    \/ \E s \in Symbols : SendSnapshot(s) \/ SendUpdate(s) \/ CandleEnds(s)
    \/ Receive

Spec == Init /\ [][Next]_vars

(* Timers fire, a connection attempt ends (in Open or in Drop, of which    *)
(* there are finitely many), the exchange answers a subscription, and the  *)
(* event loop handles what has arrived.                                    *)
Fairness ==
    /\ WF_vars(Open) /\ WF_vars(Reconnect) /\ WF_vars(CloseCompletes)
    /\ WF_vars(Receive)
    /\ \A s \in Symbols : WF_vars(SendSnapshot(s))

FairSpec == Spec /\ Fairness

-----------------------------------------------------------------------------

\* Type invariant of the service, the exchange and the wire.
TypeOK ==
    /\ alive \in BOOLEAN
    /\ conn \in Conns
    /\ reconnectTimer \in BOOLEAN /\ pingTimer \in BOOLEAN
    /\ snapshotPhase \in BOOLEAN
    /\ lastClosed \in [Symbols -> Nat]
    /\ closed \in [Symbols -> Nat]
    /\ snapDue \subseteq Symbols
    /\ wire \in Seq([sym: Symbols, t: Nat, confirm: BOOLEAN, snap: BOOLEAN])
    /\ trouble \in Nat
    /\ lastEmitted \in [Symbols -> Nat]
    /\ endedBy \in Symbols \cup {None}

(* The service never runs ahead of the market: what it emitted it had       *)
(* recorded as closed, and what it recorded had closed on the exchange,     *)
(* across drops, late snapshots and restarts (onCandleData 149-166).        *)
EmitsOnlyClosed ==
    \A s \in Symbols : lastEmitted[s] <= lastClosed[s] /\ lastClosed[s] <= closed[s]

(* Between two starts of the process a candle is emitted as closed at most  *)
(* once and candles are emitted in order, although every reconnect sends    *)
(* the recent ones again: "Without this guard, we'd emit 500 candle.closed  *)
(* events" (bitget-ws.service.ts:43).                                       *)
EmitsInOrder ==
    [][Receive => \A s \in Symbols :
          lastEmitted'[s] # lastEmitted[s] \/ (Emits(Head(wire)) /\ Head(wire).sym = s)
              => lastEmitted'[s] > lastEmitted[s]]_vars

(* A connection is being made or is up, or a reconnect is scheduled, or the *)
(* module is gone; never two of them, and a destroyed module leaves no      *)
(* timer behind that would bring the socket back (63-66, 98-102, 185-190).  *)
OneWayBack ==
    /\ reconnectTimer <=> (alive /\ conn = "down")
    /\ pingTimer <=> (alive /\ conn = "open")

(* A snapshot row triggers sessions only when another symbol's live row     *)
(* ended the phase before: a symbol's own rows never do, on whatever        *)
(* connection they arrive.                                                  *)
LeakNeedsAnotherSymbol ==
    [][Receive /\ Head(wire).snap /\ Emits(Head(wire))
          => endedBy \notin {None, Head(wire).sym}]_vars

(* The feed always comes back to a connection with every symbol subscribed, *)
(* unless the module is destroyed.                                          *)
FeedComesBack == []<>(~ alive \/ (conn = "open" /\ snapDue = {}))

(* No live candle is swallowed: once the phase is over on a connection,     *)
(* every closed candle the exchange sends live triggers the sessions,       *)
(* whatever snapshots and reconnects came before (152-165).                 *)
LiveCandlesTrigger ==
    [][Receive /\ ~ Head(wire).snap /\ Head(wire).confirm /\ endedBy # None
          => Emits(Head(wire))]_vars

==============================================================================
