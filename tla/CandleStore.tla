----------------------------- MODULE CandleStore -----------------------------
(***************************************************************************)
(* The candles table and the two handlers of BotService that write it, for *)
(* one symbol.  Every row the feed passes on, in progress or closed, is    *)
(* upserted by a handler of its own, and the handlers run side by side on  *)
(* a connection pool: the table may see them in any order.  A closed       *)
(* candle then takes the symbol's lock, or is skipped, and every running   *)
(* session of the symbol is evaluated on the bars the table then holds.    *)
(*                                                                         *)
(* Candles are numbered from 1; open and volume are left out.  The feed is *)
(* what CandleFeed shows of it: rows of any candle may come again after a  *)
(* reconnect, and candle.closed is emitted in order.  processSession is    *)
(* its loadBars here; TradingSession has the rest of it.                   *)
(***************************************************************************)
EXTENDS Naturals, FiniteSets

CONSTANTS
    Prices,      \* the prices of trades
    Sessions,    \* the running sessions of the symbol
    MinBars,     \* bars below which processSession returns, 50 in the code
    MaxCandle,   \* bound: candles
    MaxRows,     \* bound: rows Bitget sends
    MaxTrouble   \* bound: rows lost or sent again, failed awaits, restarts

ASSUME StoreAssumption ==
    /\ Prices \subseteq Nat /\ Prices # {}
    /\ {MinBars, MaxCandle, MaxRows, MaxTrouble} \subseteq Nat

VARIABLES
    now,        \* external: the candle in progress
    market,     \* external: the candles so far, this one included
    table,      \* the candles table: the rows it has
    storing,    \* rows whose upsert is under way
    checking,   \* closed candles that are stored and come to the lock
    processing, \* the symbol is in the set `processing'
    workers,    \* the handlers inside the lock: candle, sessions still to do
    emitted,    \* the candle emitted last as candle.closed
    rows,       \* rows still to come
    trouble,    \* losses, failures and restarts still to come
    \* History, read by no action:
    final,      \* candles whose closed row has reached the table
    seen        \* the last bar each session was evaluated on

vars == <<now, market, table, storing, checking, processing, workers, emitted, rows,
          trouble, final, seen>>
lock == <<processing, workers>>
feed == <<now, market, emitted, rows>>
store == <<table, final>>

Bar == [high: Nat, low: Nat, close: Nat]
Flat(p) == [high |-> p, low |-> p, close |-> p]
Higher(a, b) == IF a > b THEN a ELSE b
Lower(a, b) == IF a < b THEN a ELSE b

\* The row of candle t as it stands; kind is the event it becomes.
Row(t, kind) == [n |-> rows, t |-> t, bar |-> market[t], closed |-> t < now, kind |-> kind]

Init ==
    /\ now = 1
    /\ \E p \in Prices : market = [t \in {1} |-> Flat(p)]
    /\ table = [t \in {} |-> Flat(0)]
    /\ storing = {} /\ checking = {} /\ workers = {}
    /\ processing = FALSE
    /\ emitted = 0
    /\ rows = MaxRows
    /\ trouble = MaxTrouble
    /\ final = {}
    /\ seen = [s \in Sessions |-> 0]

-----------------------------------------------------------------------------
(* The market and the feed (external).                                     *)

Arrives(row) == rows > 0 /\ rows' = rows - 1 /\ storing' = storing \cup {row}
Trouble == trouble > 0 /\ trouble' = trouble - 1

\* A trade in the current candle.
Trade(p) ==
    /\ market' = [market EXCEPT ![now] =
          [high |-> Higher(@.high, p), low |-> Lower(@.low, p), close |-> p]]
    /\ p # market[now].close
    /\ rows > 0
    /\ UNCHANGED <<now, store, storing, checking, lock, emitted, rows, trouble, seen>>

\* The current candle is sent as it stands.
Update ==
    /\ Arrives(Row(now, "update"))
    /\ UNCHANGED <<store, now, market, checking, lock, emitted, trouble, seen>>

\* The current candle closes and the next one opens; the closed row is sent, or
\* lost with the connection.
CandleEnds(p) ==
    /\ now < MaxCandle
    /\ now' = now + 1
    /\ market' = [t \in 1..now' |-> IF t = now' THEN Flat(p) ELSE market[t]]
    /\ \/ /\ Arrives([Row(now, "closed") EXCEPT !.closed = TRUE])
          /\ emitted' = now
          /\ UNCHANGED trouble
       \/ Trouble /\ UNCHANGED <<storing, emitted, rows>>
    /\ UNCHANGED <<store, checking, lock, seen>>

\* A snapshot after a reconnect has a closed candle again; candle.closed is
\* emitted for it at most if no later or equal one was.
Resend(t) ==
    /\ t < now
    /\ Trouble
    /\ \/ Arrives(Row(t, "update")) /\ UNCHANGED emitted
       \/ t > emitted /\ Arrives(Row(t, "closed")) /\ emitted' = t
    /\ UNCHANGED <<store, now, market, checking, lock, seen>>

-----------------------------------------------------------------------------
(* storeCandle.                                                            *)

\* Mutant of Merged: the row in progress knows the extremes.
Merged_Excluded(old, new) == new

\* ON CONFLICT DO UPDATE
Merged(old, new) == [high |-> Higher(old.high, new.high), low |-> Lower(old.low, new.low),
                     close |-> new.close]

Upsert(row) ==
    /\ table' = [t \in DOMAIN table \cup {row.t} |->
                    IF t # row.t THEN table[t]
                    ELSE IF t \in DOMAIN table THEN Merged(table[t], row.bar) ELSE row.bar]
    /\ final' = IF row.closed THEN final \cup {row.t} ELSE final

\* Mutant of StoreCandle: only the candle of the newest row is kept.
StoreCandle_Moves(row) ==
    /\ row \in storing
    /\ table' = [t \in {row.t} |-> row.bar]
    /\ final' = IF row.closed THEN final \cup {row.t} ELSE final
    /\ storing' = storing \ {row}
    /\ checking' = IF row.kind = "closed" THEN checking \cup {row.t} ELSE checking
    /\ UNCHANGED <<feed, lock, trouble, seen>>

\* The upsert is done and, for candle.closed, the row read back.
StoreCandle(row) ==
    /\ row \in storing
    /\ Upsert(row)
    /\ storing' = storing \ {row}
    /\ checking' = IF row.kind = "closed" THEN checking \cup {row.t} ELSE checking
    /\ UNCHANGED <<feed, lock, trouble, seen>>

\* Mutant of StoreFails: the error is logged and the handler goes on.
StoreFails_GoesOn(row) ==
    /\ row \in storing
    /\ Trouble
    /\ Upsert(row) \/ UNCHANGED store
    /\ storing' = storing \ {row}
    /\ checking' = IF row.kind = "closed" THEN checking \cup {row.t} ELSE checking
    /\ UNCHANGED <<feed, lock, seen>>

\* The await throws, before or after the upsert took effect.
StoreFails(row) ==
    /\ row \in storing
    /\ Trouble
    /\ Upsert(row) \/ UNCHANGED store
    /\ storing' = storing \ {row}
    /\ UNCHANGED <<feed, checking, lock, seen>>

-----------------------------------------------------------------------------
(* onCandleClosed, once the candle is stored.                              *)

\* Another candle of the symbol is being processed.
Skip(t) ==
    /\ t \in checking
    /\ processing
    /\ checking' = checking \ {t}
    /\ UNCHANGED <<feed, store, storing, lock, trouble, seen>>

Begin(t) ==
    /\ t \in checking
    /\ ~ processing
    /\ checking' = checking \ {t}
    /\ processing' = TRUE
    /\ workers' = workers \cup {[t |-> t, todo |-> Sessions]}
    /\ UNCHANGED <<feed, store, storing, trouble, seen>>

Done(w, s) == workers' = (workers \ {w}) \cup {[w EXCEPT !.todo = @ \ {s}]}

\* loadBars: the last bar is the newest candle of the table, in progress or not.
LastBar(w) == CHOOSE t \in DOMAIN table : \A u \in DOMAIN table : u <= t

\* processSession of one session, on the bars of this moment.
Evaluate(w, s) ==
    /\ w \in workers /\ s \in w.todo
    /\ Cardinality(DOMAIN table) >= MinBars
    /\ Done(w, s)
    /\ seen' = [seen EXCEPT ![s] = LastBar(w)]
    /\ UNCHANGED <<feed, store, storing, checking, processing, trouble>>

\* It returns early for want of bars, or throws.
GiveUp(w, s) ==
    /\ w \in workers /\ s \in w.todo
    /\ \/ Cardinality(DOMAIN table) < MinBars /\ UNCHANGED trouble
       \/ Trouble
    /\ Done(w, s)
    /\ UNCHANGED <<feed, store, storing, checking, processing, seen>>

\* Mutant of Release: no finally around the query of the sessions.
Release_NoFinally(w) ==
    /\ w \in workers
    /\ \/ w.todo = {} /\ processing' = FALSE /\ UNCHANGED trouble
       \/ w.todo = Sessions /\ Trouble /\ UNCHANGED processing
    /\ workers' = workers \ {w}
    /\ UNCHANGED <<feed, store, storing, checking, seen>>

\* finally: after the loop, or when the sessions could not be loaded.
Release(w) ==
    /\ w \in workers
    /\ \/ w.todo = {} /\ UNCHANGED trouble
       \/ w.todo = Sessions /\ Trouble
    /\ workers' = workers \ {w}
    /\ processing' = FALSE
    /\ UNCHANGED <<feed, store, storing, checking, seen>>

\* The process dies and comes back with empty maps.
Restart ==
    /\ Trouble
    /\ storing' = {} /\ checking' = {} /\ workers' = {}
    /\ processing' = FALSE
    /\ emitted' = 0
    /\ UNCHANGED <<store, now, market, rows, seen>>

WorkerStep == \E w \in workers : Release(w) \/ \E s \in Sessions : Evaluate(w, s) \/ GiveUp(w, s)

Next ==
    \/ \E p \in Prices : Trade(p) \/ CandleEnds(p)
    \/ Update
    \/ \E t \in DOMAIN market : Resend(t)
    \/ \E row \in storing : StoreCandle(row) \/ StoreFails(row)
    \/ \E t \in checking : Skip(t) \/ Begin(t)
    \/ WorkerStep
    \/ Restart

Spec == Init /\ [][Next]_vars

(* What a handler inside the lock awaits returns or throws.                *)
FairSpec == Spec /\ WF_vars(WorkerStep)

-----------------------------------------------------------------------------

\* Type invariant of the table, the handlers and the feed; one handler at most is
\* inside the lock.
TypeOK ==
    /\ now \in Nat /\ market \in [1..now -> Bar]
    /\ DOMAIN table \subseteq 1..now /\ table \in [DOMAIN table -> Bar]
    /\ storing \subseteq [n: Nat, t: 1..now, bar: Bar, closed: BOOLEAN,
                          kind: {"update", "closed"}]
    /\ checking \subseteq DOMAIN table /\ final \subseteq DOMAIN table
    /\ workers \subseteq [t: DOMAIN table, todo: SUBSET Sessions]
    /\ Cardinality(workers) = IF processing THEN 1 ELSE 0
    /\ emitted \in Nat /\ rows \in Nat /\ trouble \in Nat
    /\ seen \in [Sessions -> Nat]

(* In whatever order the rows of a candle reach the table, repeated, late or *)
(* lost ones included, its high and low never leave the candle's range, and  *)
(* they are exact from the moment its closed row is stored (81-92).          *)
ExtremesExact ==
    \A t \in DOMAIN table :
        /\ market[t].low <= table[t].low /\ table[t].high <= market[t].high
        /\ t \in final => /\ table[t].low = market[t].low
                          /\ table[t].high = market[t].high

(* A session is only evaluated on bars that hold the closed candle it is     *)
(* evaluated for, with its final range, although other handlers store rows   *)
(* and fail all the while (56, 64-66, 108).                                  *)
EvaluatesItsCandle ==
    [][\A w \in workers, s \in Sessions : Evaluate(w, s) =>
          /\ w.t \in DOMAIN table /\ w.t <= seen'[s]
          /\ table[w.t].low = market[w.t].low /\ table[w.t].high = market[w.t].high]_vars

(* The lock is always given back: a session that throws does not keep it.    *)
LockIsReleased == []<>(~ processing)

==============================================================================
