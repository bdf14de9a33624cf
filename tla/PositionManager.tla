---------------------------- MODULE PositionManager ----------------------------
(***************************************************************************)
(* PositionManagerService: on every mark price, sell the targets it has    *)
(* reached of the open real positions of its symbol.  The events are       *)
(* handled by async functions that run side by side, each on the rows it   *)
(* has loaded; the only thing they share in memory is the set `executing'. *)
(* Every await is a boundary between two actions.                          *)
(*                                                                         *)
(* One symbol and long positions of a running session with credentials, on *)
(* accounts of their own (a short mirrors a long).  Prices are compared    *)
(* with targets only, so they are numbered upwards; quantities are in the  *)
(* unit of the table, and SizeStep of them is the smallest size of an order.   *)
(* External: an order larger than what the account holds is refused, and   *)
(* Bitget's own stop and target orders close what they like.               *)
(***************************************************************************)
EXTENDS Naturals, Sequences, FiniteSets

CONSTANTS
    Positions,   \* the open rows of the symbol
    Handlers,    \* bound: mark prices handled side by side
    TotalQty,    \* the quantity of every row
    Prices,      \* the mark prices that may arrive
    TargetPrice, \* price of each target, in sortOrder
    TargetQty,   \* targetQty of each
    SizeStep,    \* size step of truncateSize
    MaxRetry,    \* MAX_RETRY, 5 in the code
    MaxEvents,   \* bound: mark prices and closures from outside
    MaxFaults,   \* bound: faults injected
    FaultKinds   \* of "api", "lost", "db" and "crash"

\* PositionTpTarget: every position has the same targets, known by sortOrder.
Targets == DOMAIN TargetPrice

\* Position: safe stands for a break-even sl, the other columns decide nothing.
Rows == [qty: Nat, closed: BOOLEAN, safe: BOOLEAN]

ASSUME ManagerAssumption ==
    /\ TargetPrice \in Seq(Nat) /\ TargetQty \in [Targets -> Nat]
    /\ Prices \subseteq Nat
    /\ {TotalQty, MaxEvents, MaxFaults} \subseteq Nat
    /\ {SizeStep, MaxRetry} \subseteq Nat \ {0}
    /\ FaultKinds \subseteq {"api", "lost", "db", "crash"}

VARIABLES
    rows,       \* the positions table: qty, isClosed, whether sl is break-even
    hit,        \* the targets marked as hit
    exchange,   \* what Bitget holds for each position
    breakEven,  \* positions with a break-even stop on Bitget
    executing,  \* the lock: positions with a target under way
    handler,    \* the running event handlers
    subscribed, \* the symbol's mark prices are subscribed to
    events,     \* mark prices and closures still to come
    faults,     \* faults still to come
    \* History, read by no action:
    sold,       \* how often an order for a target was executed
    cut,        \* targets whose execution a failure cut short
    dust        \* what truncation kept back from the orders acknowledged

vars == <<rows, hit, exchange, breakEven, executing, handler, subscribed,
          events, faults, sold, cut, dust>>
tables == <<rows, hit>>
account == <<exchange, breakEven, sold, cut, dust>>
budget == <<events, faults>>

Idle == [pc |-> "idle", price |-> 0, todo |-> <<>>, pos |-> "none", qty |-> 0,
         list |-> {}, attempt |-> 0]

Truncate(q) == q - (q % SizeStep)
\* Loaded targets are taken in sortOrder.
First(list) == CHOOSE t \in list : \A u \in list : t <= u
Rest(list) == list \ {First(list)}
\* The target a handler has marked or is about to mark.
Current(h) == <<handler[h].pos, First(handler[h].list)>>
Open == {p \in Positions : ~ rows[p].closed}

Init ==
    /\ rows = [p \in Positions |-> [qty |-> TotalQty, closed |-> FALSE, safe |-> FALSE]]
    /\ hit = [p \in Positions |-> {}]
    /\ exchange = [p \in Positions |-> Truncate(TotalQty)]
    /\ breakEven = {}
    /\ executing = {}
    /\ handler = [h \in Handlers |-> Idle]
    /\ subscribed = TRUE
    /\ events = MaxEvents
    /\ faults = MaxFaults
    /\ sold = [p \in Positions |-> [t \in Targets |-> 0]]
    /\ cut = {}
    /\ dust = [p \in Positions |-> 0]

Pcs == {"idle", "find", "position", "query", "target", "mark", "send", "stop",
        "stopRow", "write", "revert", "safety", "close", "count", "recount",
        "unsubscribe"}
Inside == {"mark", "send", "stop", "stopRow", "write", "revert", "safety",
           "close", "count", "recount", "unsubscribe"}

At(h, pc) == handler[h].pc = pc
Goto(h, pc) == handler' = [handler EXCEPT ![h].pc = pc]

\* executePartialClose returns: the lock goes, the loop takes the next target.
Return(h) ==
    /\ executing' = executing \ {handler[h].pos}
    /\ handler' = [handler EXCEPT ![h].pc = "target", ![h].list = Rest(@)]

-----------------------------------------------------------------------------
(* onMarkPriceUpdate and checkTpTargets.                                   *)

\* A mark price arrives.
OnMarkPriceUpdate(h) ==
    /\ At(h, "idle")
    /\ subscribed
    /\ events > 0
    /\ events' = events - 1
    /\ \E price \in Prices :
          handler' = [handler EXCEPT ![h] = [Idle EXCEPT !.pc = "find", !.price = price]]
    /\ UNCHANGED <<tables, account, executing, subscribed, faults>>

\* The open rows are loaded, quantities included.
FindPositions(h) ==
    /\ At(h, "find")
    /\ handler' = [handler EXCEPT ![h].pc = "position",
                                  ![h].todo = [p \in Open |-> rows[p].qty]]
    /\ UNCHANGED <<tables, account, executing, subscribed, budget>>

\* On to a loaded row that is not being executed, if there is one left.
NextPosition(h) ==
    /\ At(h, "position")
    /\ LET todo == handler[h].todo
           free == DOMAIN todo \ executing
       IN  IF free = {} THEN handler' = [handler EXCEPT ![h] = Idle]
           ELSE \E p \in free : \E skipped \in SUBSET (DOMAIN todo \cap executing) :
                   handler' = [handler EXCEPT
                       ![h].pc = "query", ![h].pos = p, ![h].qty = todo[p],
                       ![h].todo = [q \in DOMAIN todo \ ({p} \cup skipped) |-> todo[q]]]
    /\ UNCHANGED <<tables, account, executing, subscribed, budget>>

\* The targets not marked yet.
FindTargets(h) ==
    /\ At(h, "query")
    /\ handler' = [handler EXCEPT
          ![h].pc = "target",
          ![h].list = Targets \ hit[handler[h].pos]]
    /\ UNCHANGED <<tables, account, executing, subscribed, budget>>

\* checkTpTargets returns to the loop over the positions.
LeaveTargets(h) ==
    handler' = [handler EXCEPT ![h] = [Idle EXCEPT !.pc = "position",
                                                   !.price = handler[h].price,
                                                   !.todo = handler[h].todo]]

\* Mutant of NextTarget: the lock is taken without looking.
NextTarget_NoLook(h) ==
    LET list == handler[h].list IN
    /\ At(h, "target")
    /\ IF list = {} \/ handler[h].price < TargetPrice[First(list)]
       THEN LeaveTargets(h) /\ UNCHANGED executing
       ELSE Goto(h, "mark") /\ executing' = executing \cup {handler[h].pos}
    /\ UNCHANGED <<tables, account, subscribed, budget>>

\* One turn of the loop of checkTpTargets: it ends at the first target out of
\* reach; executePartialClose returns at once if the position is locked.
NextTarget(h) ==
    LET list == handler[h].list IN
    /\ At(h, "target")
    /\ IF list = {} \/ handler[h].price < TargetPrice[First(list)]
       THEN LeaveTargets(h) /\ UNCHANGED executing
       ELSE IF handler[h].pos \in executing
       THEN handler' = [handler EXCEPT ![h].list = Rest(@)] /\ UNCHANGED executing
       ELSE Goto(h, "mark") /\ executing' = executing \cup {handler[h].pos}
    /\ UNCHANGED <<tables, account, subscribed, budget>>

-----------------------------------------------------------------------------
(* executePartialClose, while the position is locked.                      *)

\* Marked as hit before anything is sent.
MarkHit(h) ==
    LET p == handler[h].pos  t == First(handler[h].list) IN
    /\ At(h, "mark")
    /\ hit' = [hit EXCEPT ![p] = @ \cup {t}]
    /\ handler' = [handler EXCEPT ![h].pc = "send", ![h].attempt = 1]
    /\ UNCHANGED <<rows, account, executing, subscribed, budget>>

\* Bitget executes an order of this size.
Fits(p, size) == 0 < size /\ size <= exchange[p]
Execute(p, size) == exchange' = [exchange EXCEPT ![p] = @ - size]

\* The order is acknowledged; after the first target the stop is moved.
SendPartialClose(h) ==
    LET p == handler[h].pos  t == First(handler[h].list)  size == Truncate(TargetQty[t]) IN
    /\ At(h, "send")
    /\ Fits(p, size)
    /\ Execute(p, size)
    /\ sold' = [sold EXCEPT ![p][t] = @ + 1]
    /\ dust' = [dust EXCEPT ![p] = @ + (TargetQty[t] - size)]
    /\ handler' = [handler EXCEPT ![h].pc = IF t = 1 THEN "stop" ELSE "write",
                                  ![h].attempt = 0]
    /\ UNCHANGED <<tables, breakEven, cut, executing, subscribed, budget>>

\* Mutant of AttemptFails: one attempt more than MAX_RETRY.
AttemptFails_OneMore(h) ==
    LET p == handler[h].pos  t == First(handler[h].list)  size == Truncate(TargetQty[t]) IN
    /\ At(h, "send")
    /\ \/ ~ Fits(p, size) /\ UNCHANGED <<exchange, sold, faults>>
       \/ /\ faults > 0 /\ faults' = faults - 1
          /\ \/ "api" \in FaultKinds /\ UNCHANGED <<exchange, sold>>
             \/ /\ "lost" \in FaultKinds /\ Fits(p, size)
                /\ Execute(p, size)
                /\ sold' = [sold EXCEPT ![p][t] = @ + 1]
    /\ handler' = [handler EXCEPT
          ![h].pc = IF handler[h].attempt <= MaxRetry THEN "send" ELSE "revert",
          ![h].attempt = IF @ <= MaxRetry THEN @ + 1 ELSE 0]
    /\ UNCHANGED <<tables, breakEven, cut, dust, executing, subscribed, events>>

\* The attempt throws: the order is refused, or ("api") it never arrives, or
\* ("lost") it is executed and the answer does not come back.
AttemptFails(h) ==
    LET p == handler[h].pos  t == First(handler[h].list)  size == Truncate(TargetQty[t]) IN
    /\ At(h, "send")
    /\ \/ ~ Fits(p, size) /\ UNCHANGED <<exchange, sold, faults>>
       \/ /\ faults > 0 /\ faults' = faults - 1
          /\ \/ "api" \in FaultKinds /\ UNCHANGED <<exchange, sold>>
             \/ /\ "lost" \in FaultKinds /\ Fits(p, size)
                /\ Execute(p, size)
                /\ sold' = [sold EXCEPT ![p][t] = @ + 1]
    /\ handler' = [handler EXCEPT
          ![h].pc = IF handler[h].attempt < MaxRetry THEN "send" ELSE "revert",
          ![h].attempt = IF @ < MaxRetry THEN @ + 1 ELSE 0]
    /\ UNCHANGED <<tables, breakEven, cut, dust, executing, subscribed, events>>

\* updateSL: a further stop order, or the error is thrown on.
UpdateSL(p) == breakEven' = breakEven \cup {p}

\* moveSLToBreakeven: on Bitget, then in the row; an error is only logged.
MoveStop(h) ==
    /\ At(h, "stop")
    /\ UpdateSL(handler[h].pos)
    /\ Goto(h, "stopRow")
    /\ UNCHANGED <<tables, exchange, sold, cut, dust, executing, subscribed, budget>>

WriteStop(h) ==
    /\ At(h, "stopRow")
    /\ rows' = [rows EXCEPT ![handler[h].pos].safe = TRUE]
    /\ Goto(h, "write")
    /\ UNCHANGED <<hit, account, executing, subscribed, budget>>

StopFails(h) ==
    /\ \/ At(h, "stop") /\ "api" \in FaultKinds
       \/ At(h, "stopRow") /\ "db" \in FaultKinds
    /\ faults > 0 /\ faults' = faults - 1
    /\ Goto(h, "write")
    /\ UNCHANGED <<tables, account, executing, subscribed, events>>

\* Mutant of WriteQty: the quantity sold is subtracted twice.
WriteQty_Twice(h) ==
    LET p    == handler[h].pos
        q    == 2 * TargetQty[First(handler[h].list)]
        left == IF q < handler[h].qty THEN handler[h].qty - q ELSE 0
    IN
    /\ At(h, "write")
    /\ rows' = [rows EXCEPT ![p].qty = left, ![p].closed = (left = 0)]
    /\ IF left = 0 THEN Goto(h, "count") /\ UNCHANGED executing ELSE Return(h)
    /\ UNCHANGED <<hit, account, subscribed, budget>>

\* The quantity loaded with the row, less the target's, goes to the row.
WriteQty(h) ==
    LET p    == handler[h].pos
        q    == TargetQty[First(handler[h].list)]
        left == IF q < handler[h].qty THEN handler[h].qty - q ELSE 0
    IN
    /\ At(h, "write")
    /\ rows' = [rows EXCEPT ![p].qty = left, ![p].closed = (left = 0)]
    /\ IF left = 0 THEN Goto(h, "count") /\ UNCHANGED executing ELSE Return(h)
    /\ UNCHANGED <<hit, account, subscribed, budget>>

\* Mutant of RevertHit: the mark stays.
RevertHit_KeepsMark(h) ==
    /\ At(h, "revert")
    /\ Goto(h, "safety")
    /\ UNCHANGED <<tables, account, executing, subscribed, budget>>

\* All attempts failed: the mark is taken back and the position closed in full.
RevertHit(h) ==
    LET p == handler[h].pos  t == First(handler[h].list) IN
    /\ At(h, "revert")
    /\ hit' = [hit EXCEPT ![p] = @ \ {t}]
    /\ Goto(h, "safety")
    /\ UNCHANGED <<rows, account, executing, subscribed, budget>>

\* closeFullPositionSafety: the quantity loaded with the row is sold.
SafetyClose(h) ==
    LET p == handler[h].pos  size == Truncate(handler[h].qty) IN
    /\ At(h, "safety")
    /\ Fits(p, size)
    /\ Execute(p, size)
    /\ dust' = [dust EXCEPT ![p] = @ + (handler[h].qty - size)]
    /\ Goto(h, "close")
    /\ UNCHANGED <<tables, breakEven, sold, cut, executing, subscribed, budget>>

WriteClosed(h) ==
    /\ At(h, "close")
    /\ rows' = [rows EXCEPT ![handler[h].pos].closed = TRUE, ![handler[h].pos].qty = 0]
    /\ Goto(h, "recount")
    /\ UNCHANGED <<hit, account, executing, subscribed, budget>>

\* Mutants of SafetyFails: the row is closed although the order was refused; the
\* error leaves executePartialClose without its finally.
SafetyFails_ClosesRow(h) ==
    LET p == handler[h].pos  size == Truncate(handler[h].qty) IN
    /\ At(h, "safety") /\ ~ Fits(p, size)
    /\ Goto(h, "close")
    /\ UNCHANGED <<tables, account, executing, subscribed, budget>>

SafetyFails_KeepsLock(h) ==
    LET p == handler[h].pos  size == Truncate(handler[h].qty) IN
    /\ At(h, "safety") /\ ~ Fits(p, size)
    /\ handler' = [handler EXCEPT ![h] = Idle]
    /\ UNCHANGED <<tables, account, executing, subscribed, budget>>

\* The error is logged and executePartialClose returns: the order was refused,
\* never arrived or was executed unnoticed, or the database failed after it.
SafetyFails(h) ==
    LET p == handler[h].pos  size == Truncate(handler[h].qty) IN
    /\ \/ At(h, "safety") /\ ~ Fits(p, size) /\ UNCHANGED <<exchange, faults>>
       \/ /\ faults > 0 /\ faults' = faults - 1
          /\ \/ At(h, "safety") /\ "api" \in FaultKinds /\ UNCHANGED exchange
             \/ /\ At(h, "safety") /\ "lost" \in FaultKinds /\ Fits(p, size)
                /\ Execute(p, size)
             \/ (At(h, "close") \/ At(h, "recount")) /\ "db" \in FaultKinds
                /\ UNCHANGED exchange
    /\ Return(h)
    /\ UNCHANGED <<tables, breakEven, sold, cut, dust, subscribed, events>>

\* Mutant of CountOpen: only the position just closed is looked at.
CountOpen_Own(h) ==
    /\ At(h, "count") \/ At(h, "recount")
    /\ IF rows[handler[h].pos].closed THEN Goto(h, "unsubscribe") /\ UNCHANGED executing
       ELSE Return(h)
    /\ UNCHANGED <<tables, account, subscribed, budget>>

\* maybeUnsubscribe: the open rows of the symbol are counted, from
\* executePartialClose or from the try block of the safety close.
CountOpen(h) ==
    /\ At(h, "count") \/ At(h, "recount")
    /\ IF Open = {} THEN Goto(h, "unsubscribe") /\ UNCHANGED executing ELSE Return(h)
    /\ UNCHANGED <<tables, account, subscribed, budget>>

Unsubscribe(h) ==
    /\ At(h, "unsubscribe")
    /\ subscribed' = FALSE
    /\ Return(h)
    /\ UNCHANGED <<tables, account, budget>>

-----------------------------------------------------------------------------
(* The world.                                                              *)

\* A database call rejects: the handler ends, and its lock goes with it.
DbFails(h) ==
    /\ "db" \in FaultKinds /\ faults > 0
    /\ handler[h].pc \in {"find", "query", "mark", "write", "revert", "count"}
    /\ faults' = faults - 1
    /\ executing' = IF handler[h].pc \in Inside THEN executing \ {handler[h].pos}
                    ELSE executing
    /\ cut' = IF handler[h].pc \in Inside THEN cut \cup {Current(h)} ELSE cut
    /\ handler' = [handler EXCEPT ![h] = Idle]
    /\ UNCHANGED <<tables, exchange, breakEven, sold, dust, subscribed, events>>

\* The process dies and comes back: onModuleInit subscribes for the open rows.
Restart ==
    /\ "crash" \in FaultKinds /\ faults > 0
    /\ faults' = faults - 1
    /\ handler' = [h \in Handlers |-> Idle]
    /\ executing' = {}
    /\ subscribed' = (Open # {})
    /\ cut' = cut \cup {Current(h) : h \in {g \in Handlers : handler[g].pc \in Inside}}
    /\ UNCHANGED <<tables, exchange, breakEven, sold, dust, events>>

\* Bitget's own stop and target orders, or the user, close part of a position.
ExchangeCloses(p) ==
    /\ \E left \in 0..exchange[p] :
          /\ left < exchange[p] /\ Truncate(left) = left
          /\ exchange' = [exchange EXCEPT ![p] = left]
    /\ events > 0 /\ events' = events - 1
    /\ UNCHANGED <<tables, breakEven, sold, cut, dust, executing, handler, subscribed, faults>>

HandlerStep(h) ==
    \/ FindPositions(h) \/ NextPosition(h) \/ FindTargets(h) \/ NextTarget(h)
    \/ MarkHit(h) \/ SendPartialClose(h) \/ AttemptFails(h)
    \/ MoveStop(h) \/ WriteStop(h) \/ StopFails(h) \/ WriteQty(h)
    \/ RevertHit(h) \/ SafetyClose(h) \/ WriteClosed(h) \/ SafetyFails(h)
    \/ CountOpen(h) \/ Unsubscribe(h)

Next ==
    \/ \E h \in Handlers : OnMarkPriceUpdate(h) \/ HandlerStep(h) \/ DbFails(h)
    \/ Restart
    \/ \E p \in Positions : ExchangeCloses(p)

Spec == Init /\ [][Next]_vars

(* Every call a handler awaits returns or throws; mark prices, the exchange *)
(* and faults owe nothing.                                                  *)
Fairness == \A h \in Handlers : WF_vars(HandlerStep(h))

FairSpec == Spec /\ Fairness

-----------------------------------------------------------------------------

\* Type invariant of the tables, the exchange and the handlers.
TypeOK ==
    /\ rows \in [Positions -> Rows]
    /\ hit \in [Positions -> SUBSET Targets]
    /\ exchange \in [Positions -> Nat]
    /\ breakEven \subseteq Positions /\ executing \subseteq Positions
    /\ \A h \in Handlers :
          /\ handler[h].pc \in Pcs /\ handler[h].price \in Nat
          /\ DOMAIN handler[h].todo \subseteq Positions
          /\ handler[h].pos \in Positions \cup {"none"} /\ handler[h].qty \in Nat
          /\ handler[h].list \subseteq Targets /\ handler[h].attempt \in 0..MaxRetry
          /\ handler[h].pc \in Inside => handler[h].list # {}
    /\ subscribed \in BOOLEAN /\ events \in Nat /\ faults \in Nat
    /\ sold \in [Positions -> [Targets -> Nat]]
    /\ cut \subseteq Positions \X Targets
    /\ dust \in [Positions -> Nat]

(* "Lock per positionId to avoid concurrent TP execution" (28): a position is *)
(* locked exactly while one handler, and never two, executes a target of it,  *)
(* whichever awaits fail in between.                                          *)
OneExecutor ==
    \A p \in Positions :
       Cardinality({h \in Handlers : handler[h].pc \in Inside /\ handler[h].pos = p})
          = IF p \in executing THEN 1 ELSE 0

(* The table never shows less than Bitget holds, but for what truncation kept *)
(* back: although every quantity is written from a row loaded long before, no *)
(* position is closed in the table that is still exposed (188-194, 303-313).  *)
TableBoundsExchange ==
    \A p \in Positions : exchange[p] <= rows[p].qty + dust[p]

\* Truncation kept back less than what the exchange would still sell.
LittleDust(p) == dust[p] < SizeStep

(* A row that was closed stays closed although WriteQty writes isClosed with  *)
(* every target, from a row loaded before it was closed: a sale that is       *)
(* acknowledged means the position was not closed (189-194).  Once truncated  *)
(* orders have left a whole size step behind, a late sale does reopen it.     *)
ClosedStaysClosed ==
    [][\A p \in Positions : rows[p].closed /\ LittleDust(p) => rows'[p].closed]_vars

(* A target that stays marked as hit was sold: the mark is set before the     *)
(* order and taken back if all attempts fail (157-178); only where the        *)
(* process or the database failed in between may a mark be left behind.       *)
HitMeansSold ==
    \A p \in Positions \ executing : \A t \in hit[p] :
        sold[p][t] >= 1 \/ <<p, t>> \in cut

(* An open row's symbol is subscribed: a position is never left without the   *)
(* prices that would reach its targets, although the open rows are counted an *)
(* await before the unsubscription (76-84); unless a row was reopened.        *)
OpenIsWatched ==
    (\E p \in Positions : ~ rows[p].closed) /\ (\A p \in Positions : LittleDust(p))
    => subscribed

(* No position stays locked: attempts are bounded and every way out of        *)
(* executePartialClose gives the lock back (148-206).                         *)
LocksAreReleased == \A p \in Positions : []<>(p \notin executing)

================================================================================
