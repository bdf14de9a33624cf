--------------------------- MODULE CandleStoreProofs ---------------------------
(***************************************************************************)
(* Theorems about CandleStore, for any prices and sessions and any number  *)
(* of candles, rows and troubles.                                          *)
(***************************************************************************)
EXTENDS CandleStore, FiniteSetTheorems, WellFoundedInduction, TLAPS

\* One handler is inside the lock while it is taken, none while it is free.
OneInLock == IF processing THEN \E w : workers = {w} ELSE workers = {}

\* A row never leaves the range its candle has, and a closed one has all of it.
RowFits(row) ==
    /\ market[row.t].low <= row.bar.low /\ row.bar.high <= market[row.t].high
    /\ row.closed => /\ row.t < now
                     /\ row.bar.low = market[row.t].low /\ row.bar.high = market[row.t].high
    /\ row.kind = "closed" => row.closed

RowsFit == \A row \in storing : RowFits(row)

\* Only what has closed is final, and only what is final comes to the lock.
FinalFirst ==
    /\ \A t \in final : t < now
    /\ checking \subseteq final
    /\ \A w \in workers : w.t \in final

\* The first candle is there from the start.
StartedAtOne == now >= 1

IInv == TypeOK /\ StartedAtOne /\ OneInLock /\ RowsFit /\ FinalFirst /\ ExtremesExact

RowType == [n: Nat, t: 1..now, bar: Bar, closed: BOOLEAN, kind: {"update", "closed"}]

-----------------------------------------------------------------------------

(* The candles table has a newest row, once it has one. *)
LEMMA NewestExists ==
  ASSUME NEW m \in Nat, NEW S, S \subseteq 1..m, S # {}
  PROVE  \E t \in S : \A u \in S : u <= t
<1> DEFINE T == {m - t : t \in S}
           R == OpToRel(<, Nat)
<1>1. T \subseteq Nat /\ T # {}
  <2>1. \A t \in S : t \in 1..m /\ m - t \in Nat
    OBVIOUS
  <2>2. PICK t \in S : TRUE
    OBVIOUS
  <2>3. m - t \in T
    BY <2>2
  <2> QED
    BY <2>1, <2>3
<1>2. \A x, y \in Nat : x < y => <<x, y>> \in R
  BY DEF OpToRel
<1>3. \E x \in T : \A y \in T : ~ (<<y, x>> \in R)
  <2> HIDE DEF T
  <2> QED
    BY <1>1, NatLessThanWellFounded, WFMin, Zenon
<1>4. PICK x \in T : \A y \in T : ~ (<<y, x>> \in R)
  BY <1>3
<1>5. PICK t \in S : x = m - t
  BY <1>4
<1>6. ASSUME NEW u \in S PROVE u <= t
  <2>1. m - u \in T /\ m - u \in Nat /\ x \in Nat
    BY <1>4, <1>1
  <2>2. ~ (m - u < x)
    BY <2>1, <1>2, <1>4
  <2> QED
    BY <2>1, <2>2, <1>5
<1> QED
  BY <1>6

(* What loadBars returns last is a row of the table, and none is newer. *)
LEMMA LastBarIsNewest ==
  ASSUME TypeOK, DOMAIN table # {}, NEW w
  PROVE  LastBar(w) \in DOMAIN table /\ \A u \in DOMAIN table : u <= LastBar(w)
<1>1. \E t \in DOMAIN table : \A u \in DOMAIN table : u <= t
  BY NewestExists DEF TypeOK
<1> QED
  BY <1>1, Zenon DEF LastBar

(* Of two prices, the higher and the lower are prices that bound both. *)
LEMMA HigherLower ==
  ASSUME NEW a \in Nat, NEW b \in Nat
  PROVE  /\ Higher(a, b) \in Nat /\ a <= Higher(a, b) /\ b <= Higher(a, b)
         /\ Lower(a, b) \in Nat /\ Lower(a, b) <= a /\ Lower(a, b) <= b
         /\ Higher(a, b) \in {a, b} /\ Lower(a, b) \in {a, b}
BY DEF Higher, Lower

(* A bar is its three prices. *)
LEMMA BarFields ==
  ASSUME NEW b \in Bar
  PROVE  b.high \in Nat /\ b.low \in Nat /\ b.close \in Nat
BY DEF Bar

(* The upsert of a row makes the range of its candle the union of both, and   *)
(* leaves the other candles alone.                                            *)
LEMMA UpsertEffect ==
  ASSUME TypeOK, NEW row \in RowType, Upsert(row)
  PROVE  /\ DOMAIN table' = DOMAIN table \cup {row.t}
         /\ table' \in [DOMAIN table' -> Bar]
         /\ \A t \in DOMAIN table : t # row.t => table'[t] = table[t]
         /\ row.t \notin DOMAIN table => table'[row.t] = row.bar
         /\ row.t \in DOMAIN table =>
               /\ table'[row.t].high = Higher(table[row.t].high, row.bar.high)
               /\ table'[row.t].low = Lower(table[row.t].low, row.bar.low)
<1> DEFINE D == DOMAIN table \cup {row.t}
           G(t) == IF t # row.t THEN table[t]
                   ELSE IF t \in DOMAIN table THEN Merged(table[t], row.bar) ELSE row.bar
<1>1. table' = [t \in D |-> G(t)]
  BY DEF Upsert
<1>2. row.bar \in Bar /\ \A t \in DOMAIN table : table[t] \in Bar
  BY DEF RowType, TypeOK
<1>3. \A t \in D : G(t) \in Bar
  <2>1. ASSUME NEW t \in DOMAIN table PROVE Merged(table[t], row.bar) \in Bar
    BY <1>2, BarFields, HigherLower DEF Merged, Bar
  <2> QED
    BY <1>2, <2>1
<1>4. DOMAIN table' = D
  BY <1>1
<1>5. \A t \in D : table'[t] = G(t)
  BY <1>1
<1>6. table' \in [D -> Bar]
  <2> HIDE DEF G
  <2> QED
    BY <1>1, <1>3
<1>7. ASSUME row.t \in DOMAIN table
      PROVE  /\ table'[row.t].high = Higher(table[row.t].high, row.bar.high)
             /\ table'[row.t].low = Lower(table[row.t].low, row.bar.low)
  <2>1. table'[row.t] = Merged(table[row.t], row.bar)
    BY <1>5, <1>7
  <2> QED
    BY <2>1 DEF Merged
<1>8. ASSUME row.t \notin DOMAIN table PROVE table'[row.t] = row.bar
  BY <1>5, <1>8
<1>9. \A t \in DOMAIN table : t # row.t => table'[t] = table[t]
  BY <1>5
<1> QED
  BY <1>4, <1>6, <1>7, <1>8, <1>9

(* The process as it starts has one candle in progress and no rows. *)
LEMMA InitInv == Init => IInv
<1> SUFFICES ASSUME Init PROVE IInv
  OBVIOUS
<1>1. TypeOK
  <2>1. PICK p \in Prices : market = [t \in {1} |-> Flat(p)]
    BY DEF Init
  <2>2. p \in Nat /\ Flat(p) \in Bar /\ 1..1 = {1}
    BY <2>1, StoreAssumption DEF StoreAssumption, Flat, Bar
  <2>3. now = 1 /\ market \in [1..now -> Bar]
    BY <2>1, <2>2 DEF Init
  <2>4. DOMAIN table = {} /\ table \in [DOMAIN table -> Bar]
    BY DEF Init
  <2>5. Cardinality(workers) = 0
    BY FS_EmptySet DEF Init
  <2> QED
    BY <2>3, <2>4, <2>5, StoreAssumption DEF Init, TypeOK, StoreAssumption
<1>2. StartedAtOne /\ OneInLock /\ RowsFit /\ FinalFirst /\ ExtremesExact
  BY DEF Init, StartedAtOne, OneInLock, RowsFit, FinalFirst, ExtremesExact
<1> QED
  BY <1>1, <1>2 DEF IInv

-----------------------------------------------------------------------------
(* The market and the feed.                                                *)

(* A trade only widens the range of a candle that is not final. *)
LEMMA TradeStep ==
  ASSUME IInv, NEW p \in Prices, Trade(p)
  PROVE  IInv'
<1> USE DEF IInv, store, lock
<1>1. /\ now \in 1..now /\ p \in Nat
      /\ \A t \in 1..now : /\ market[t] \in Bar
                           /\ market[t].high \in Nat /\ market[t].low \in Nat
  BY StoreAssumption, BarFields DEF StoreAssumption, TypeOK, StartedAtOne
<1>2. /\ market' \in [1..now -> Bar]
      /\ \A t \in 1..now : t # now => market'[t] = market[t]
      /\ market'[now].high = Higher(market[now].high, p)
      /\ market'[now].low = Lower(market[now].low, p)
  <2> DEFINE b == [high |-> Higher(market[now].high, p), low |-> Lower(market[now].low, p),
                   close |-> p]
  <2>1. b \in Bar
    BY <1>1, HigherLower DEF Bar
  <2>2. market' = [market EXCEPT ![now] = b]
    BY DEF Trade
  <2> QED
    BY <1>1, <2>1, <2>2 DEF TypeOK
<1>3. \A t \in 1..now : /\ market'[t].low <= market[t].low /\ market[t].high <= market'[t].high
                        /\ market'[t].low \in Nat /\ market'[t].high \in Nat
  <2>1. ASSUME NEW a \in Nat
        PROVE  /\ Higher(a, p) \in Nat /\ a <= Higher(a, p)
               /\ Lower(a, p) \in Nat /\ Lower(a, p) <= a
    BY <1>1, HigherLower
  <2>2. /\ market'[now].low <= market[now].low /\ market[now].high <= market'[now].high
        /\ market'[now].low \in Nat /\ market'[now].high \in Nat
    BY <1>1, <1>2, <2>1
  <2>3. ASSUME NEW t \in 1..now, t # now
        PROVE  market'[t] = market[t] /\ market[t].low \in Nat /\ market[t].high \in Nat
    BY <1>1, <1>2, <2>3
  <2>4. \A n \in Nat : n <= n
    OBVIOUS
  <2> QED
    BY <2>2, <2>3, <2>4
<1>4. TypeOK'
  BY <1>2 DEF Trade, TypeOK
<1>5. StartedAtOne' /\ OneInLock' /\ FinalFirst'
  BY DEF Trade, StartedAtOne, OneInLock, FinalFirst
<1>6. RowsFit'
  <2> SUFFICES ASSUME NEW row \in storing PROVE RowFits(row)'
    BY DEF Trade, RowsFit
  <2>1. row.t \in 1..now /\ row.bar.low \in Nat /\ row.bar.high \in Nat
    BY BarFields DEF TypeOK
  <2>2. RowFits(row)
    BY DEF RowsFit
  <2> QED
    BY <1>1, <1>2, <1>3, <2>1, <2>2 DEF RowFits, Trade
<1>7. ExtremesExact'
  <2> SUFFICES ASSUME NEW t \in DOMAIN table
               PROVE  /\ market'[t].low <= table[t].low /\ table[t].high <= market'[t].high
                      /\ t \in final => /\ table[t].low = market'[t].low
                                        /\ table[t].high = market'[t].high
    BY DEF Trade, ExtremesExact
  <2>1. t \in 1..now /\ table[t].low \in Nat /\ table[t].high \in Nat
    BY BarFields DEF TypeOK
  <2>2. t \in final => t # now
    BY <2>1 DEF FinalFirst, TypeOK
  <2> QED
    BY <1>1, <1>2, <1>3, <2>1, <2>2 DEF ExtremesExact
<1> QED
  BY <1>4, <1>5, <1>6, <1>7

(* A row that is sent has its candle as it stands. *)
LEMMA RowIsFit ==
  ASSUME IInv, NEW t \in 1..now, NEW kind \in {"update", "closed"}, kind = "closed" => t < now,
         rows \in Nat
  PROVE  Row(t, kind) \in RowType /\ RowFits(Row(t, kind))
<1>1. market[t] \in Bar /\ market[t].low \in Nat /\ market[t].high \in Nat
  BY BarFields DEF IInv, TypeOK
<1>2. Row(t, kind) \in RowType
  BY <1>1 DEF Row, RowType
<1>3. /\ Row(t, kind).t = t /\ Row(t, kind).bar = market[t]
      /\ Row(t, kind).kind = kind
  BY DEF Row
<1>4. Row(t, kind).closed <=> t < now
  BY DEF Row
<1>5. /\ market[t].low <= market[t].low /\ market[t].high <= market[t].high
  BY <1>1
<1>6. RowFits(Row(t, kind))
  BY <1>3, <1>4, <1>5, Zenon DEF RowFits
<1> QED
  BY <1>2, <1>6

(* One more row of a candle on its way disturbs nothing. *)
LEMMA SendStep ==
  ASSUME IInv, NEW row \in RowType, RowFits(row), Arrives(row),
         UNCHANGED <<store, now, market, checking, lock, seen>>,
         emitted' \in Nat, trouble' \in Nat
  PROVE  IInv'
<1> USE DEF IInv, store, lock
<1>1. TypeOK'
  BY DEF TypeOK, Arrives, RowType
<1>2. StartedAtOne' /\ OneInLock' /\ FinalFirst' /\ ExtremesExact'
  BY DEF StartedAtOne, OneInLock, FinalFirst, ExtremesExact
<1>3. RowsFit'
  BY DEF RowsFit, RowFits, Arrives
<1> QED
  BY <1>1, <1>2, <1>3

(* The row of a candle in progress, and one that a snapshot repeats. *)
LEMMA UpdateStep ==
  ASSUME IInv, Update
  PROVE  IInv'
<1>1. now \in 1..now
  <2>1. now \in Nat /\ DOMAIN market = 1..now
    BY DEF IInv, TypeOK
  <2> QED
    BY <2>1 DEF IInv, StartedAtOne
<1> QED
  BY <1>1, RowIsFit, SendStep DEF Update, IInv, TypeOK

LEMMA ResendStep ==
  ASSUME IInv, NEW t \in DOMAIN market, Resend(t)
  PROVE  IInv'
<1>1. t \in 1..now /\ t < now /\ t \in Nat
  BY DEF IInv, TypeOK, Resend
<1>2. trouble' \in Nat /\ emitted' \in Nat /\ rows \in Nat
  BY <1>1 DEF IInv, TypeOK, Resend, Trouble
<1>3. PICK kind \in {"update", "closed"} : Arrives(Row(t, kind))
  BY DEF Resend
<1> QED
  BY <1>1, <1>2, <1>3, RowIsFit, SendStep DEF Resend

(* A candle closes as it stands, and the next one has no rows yet. *)
LEMMA CandleEndsStep ==
  ASSUME IInv, NEW p \in Prices, CandleEnds(p)
  PROVE  IInv'
<1> USE DEF IInv, store, lock
<1>1. now \in Nat /\ now >= 1 /\ now' = now + 1 /\ Flat(p) \in Bar
  BY StoreAssumption DEF StoreAssumption, CandleEnds, TypeOK, StartedAtOne, Flat, Bar
<1>2. market' \in [1..now' -> Bar] /\ \A t \in 1..now : market'[t] = market[t]
  <2>1. market' = [t \in 1..now' |-> IF t = now' THEN Flat(p) ELSE market[t]]
    BY DEF CandleEnds
  <2>2. \A t \in 1..now' : t # now' => t \in 1..now
    BY <1>1
  <2>3. \A t \in 1..now : t \in 1..now' /\ t # now'
    BY <1>1
  <2> QED
    BY <1>1, <2>1, <2>2, <2>3 DEF TypeOK
<1> DEFINE r == [Row(now, "closed") EXCEPT !.closed = TRUE]
<1>3. /\ r.t = now /\ r.bar = market[now] /\ r.kind = "closed" /\ r.closed = TRUE
      /\ rows \in Nat => r \in RowType
  <2>1. now \in 1..now /\ market[now] \in Bar
    BY <1>1 DEF TypeOK
  <2> QED
    BY <2>1 DEF Row, RowType
<1>4. /\ storing' \subseteq storing \cup {r}
      /\ rows' \in Nat /\ emitted' \in Nat /\ trouble' \in Nat
  BY <1>1 DEF CandleEnds, Arrives, Trouble, TypeOK
<1>5. storing' \subseteq RowType'
  <2>1. \A t \in 1..now : t \in 1..now'
    BY <1>1
  <2> QED
    BY <1>3, <1>4, <2>1 DEF TypeOK, RowType
<1>6. TypeOK'
  <2>1. DOMAIN table' \subseteq 1..now'
    BY <1>1 DEF TypeOK, CandleEnds
  <2> QED
    BY <1>1, <1>2, <1>4, <1>5, <2>1 DEF TypeOK, CandleEnds, RowType
<1>7. StartedAtOne' /\ OneInLock'
  <2>1. UNCHANGED <<processing, workers>> /\ now' >= 1
    BY <1>1 DEF CandleEnds
  <2> QED
    BY <2>1 DEF StartedAtOne, OneInLock
<1>8. FinalFirst'
  <2>1. \A t \in final : t \in Nat
    BY DEF TypeOK
  <2> QED
    BY <1>1, <2>1 DEF CandleEnds, FinalFirst
<1>9. RowsFit'
  <2> SUFFICES ASSUME NEW row \in storing' PROVE RowFits(row)'
    BY DEF RowsFit
  <2>1. CASE row \in storing
    <3>1. row.t \in 1..now
      BY <2>1 DEF TypeOK
    <3> QED
      BY <1>1, <1>2, <2>1, <3>1 DEF RowsFit, RowFits
  <2>2. CASE row = r
    <3>1. now \in 1..now /\ market'[now] = market[now] /\ market[now] \in Bar
      BY <1>1, <1>2 DEF TypeOK
    <3>2. market[now].low \in Nat /\ market[now].high \in Nat
      BY <3>1, BarFields
    <3>3. /\ row.t = now /\ row.bar = market[now] /\ row.kind = "closed"
          /\ row.closed = TRUE
      BY <1>3, <2>2
    <3> HIDE DEF r
    <3> QED
      BY <1>1, <3>1, <3>2, <3>3 DEF RowFits
  <2> QED
    BY <1>4, <2>1, <2>2
<1>10. ExtremesExact'
  <2> SUFFICES ASSUME NEW t \in DOMAIN table
               PROVE  /\ market'[t].low <= table[t].low /\ table[t].high <= market'[t].high
                      /\ t \in final => /\ table[t].low = market'[t].low
                                        /\ table[t].high = market'[t].high
    BY DEF CandleEnds, ExtremesExact
  <2>1. market'[t] = market[t]
    BY <1>2 DEF TypeOK
  <2> QED
    BY <2>1 DEF ExtremesExact
<1> QED
  BY <1>6, <1>7, <1>8, <1>9, <1>10

-----------------------------------------------------------------------------
(* The handlers.                                                           *)

(* The upsert of a row that fits keeps the table exact, whatever its order. *)
LEMMA UpsertKeeps ==
  ASSUME IInv, NEW row \in storing, Upsert(row), UNCHANGED <<now, market>>
  PROVE  /\ DOMAIN table \subseteq DOMAIN table' /\ DOMAIN table' \subseteq 1..now
         /\ table' \in [DOMAIN table' -> Bar]
         /\ final \subseteq final' /\ final' \subseteq DOMAIN table'
         /\ \A t \in final' : t < now
         /\ row.closed => row.t \in final'
         /\ row.t \in DOMAIN table'
         /\ ExtremesExact'
<1> USE DEF IInv
<1>1. row \in RowType /\ row.t \in 1..now /\ RowFits(row) /\ row.bar \in Bar
  BY DEF TypeOK, RowType, RowsFit
<1>2. /\ DOMAIN table' = DOMAIN table \cup {row.t}
      /\ table' \in [DOMAIN table' -> Bar]
      /\ \A t \in DOMAIN table : t # row.t => table'[t] = table[t]
      /\ row.t \notin DOMAIN table => table'[row.t] = row.bar
      /\ row.t \in DOMAIN table =>
            /\ table'[row.t].high = Higher(table[row.t].high, row.bar.high)
            /\ table'[row.t].low = Lower(table[row.t].low, row.bar.low)
  BY <1>1, UpsertEffect
<1>3. final' = IF row.closed THEN final \cup {row.t} ELSE final
  BY DEF Upsert
<1>4. /\ \A t \in final' : t < now
      /\ row.closed => row.t \in final'
      /\ final \subseteq final'
  BY <1>1, <1>3 DEF FinalFirst, RowFits
<1>5. DOMAIN table' \subseteq 1..now /\ final' \subseteq DOMAIN table'
  BY <1>1, <1>2, <1>3 DEF TypeOK
<1>6. ASSUME NEW t \in DOMAIN table'
      PROVE  /\ market[t].low <= table'[t].low /\ table'[t].high <= market[t].high
             /\ t \in final' => /\ table'[t].low = market[t].low
                                /\ table'[t].high = market[t].high
  <2>1. CASE t # row.t
    BY <1>2, <1>3, <2>1 DEF ExtremesExact
  <2>2. CASE t = row.t /\ t \notin DOMAIN table
    <3>1. t \notin final
      BY <2>2 DEF TypeOK
    <3> QED
      BY <1>1, <1>2, <1>3, <2>2, <3>1 DEF RowFits
  <2>3. CASE t = row.t /\ t \in DOMAIN table
    <3>1. /\ market[t].low \in Nat /\ market[t].high \in Nat
          /\ table[t].low \in Nat /\ table[t].high \in Nat
          /\ row.bar.low \in Nat /\ row.bar.high \in Nat
      BY <1>1, <2>3, BarFields DEF TypeOK
    <3>2. /\ market[t].low <= table[t].low /\ table[t].high <= market[t].high
          /\ t \in final => /\ table[t].low = market[t].low
                            /\ table[t].high = market[t].high
      BY <2>3 DEF ExtremesExact
    <3>3. /\ market[t].low <= row.bar.low /\ row.bar.high <= market[t].high
          /\ row.closed => /\ row.bar.low = market[t].low
                           /\ row.bar.high = market[t].high
      BY <1>1, <2>3 DEF RowFits
    <3>4. /\ table'[t].high = Higher(table[t].high, row.bar.high)
          /\ table'[t].low = Lower(table[t].low, row.bar.low)
      BY <1>2, <2>3
    <3>5. t \in final' => row.closed \/ t \in final
      BY <1>3
    <3> QED
      BY <3>1, <3>2, <3>3, <3>4, <3>5 DEF Higher, Lower
  <2> QED
    BY <2>1, <2>2, <2>3
<1>7. ExtremesExact'
  BY <1>6 DEF ExtremesExact
<1> QED
  BY <1>1, <1>2, <1>4, <1>5, <1>7

(* A row is stored, and a closed one comes to the lock; or its await throws. *)
LEMMA StoreStep ==
  ASSUME IInv, NEW row \in storing, StoreCandle(row) \/ StoreFails(row)
  PROVE  IInv'
<1> USE DEF IInv, feed, store, lock
<1>1. /\ UNCHANGED <<now, market, emitted, rows, processing, workers, seen>>
      /\ storing' = storing \ {row}
      /\ trouble' \in Nat
      /\ Upsert(row) \/ UNCHANGED <<table, final>>
  BY DEF StoreCandle, StoreFails, Trouble, TypeOK
<1>2. /\ DOMAIN table \subseteq DOMAIN table' /\ DOMAIN table' \subseteq 1..now
      /\ table' \in [DOMAIN table' -> Bar]
      /\ final \subseteq final' /\ final' \subseteq DOMAIN table'
      /\ \A t \in final' : t < now
      /\ ExtremesExact'
  <2>1. CASE Upsert(row)
    BY <1>1, <2>1, UpsertKeeps
  <2>2. CASE UNCHANGED <<table, final>>
    BY <1>1, <2>2 DEF TypeOK, FinalFirst, ExtremesExact
  <2> QED
    BY <1>1, <2>1, <2>2
<1>3. checking' \subseteq final'
  <2>1. CASE StoreCandle(row)
    <3>1. checking' = IF row.kind = "closed" THEN checking \cup {row.t} ELSE checking
      BY <2>1 DEF StoreCandle
    <3>2. row.kind = "closed" => row.t \in final'
      BY <1>1, <2>1, UpsertKeeps DEF StoreCandle, RowsFit, RowFits
    <3> QED
      BY <1>2, <3>1, <3>2 DEF FinalFirst
  <2>2. CASE StoreFails(row)
    BY <1>2, <2>2 DEF StoreFails, FinalFirst
  <2> QED
    BY <2>1, <2>2
<1>4. workers' \subseteq [t: DOMAIN table', todo: SUBSET Sessions]
  BY <1>1, <1>2 DEF TypeOK
<1>5. checking' \subseteq DOMAIN table'
  BY <1>2, <1>3
<1>6. TypeOK'
  BY <1>1, <1>2, <1>4, <1>5 DEF TypeOK
<1>7. StartedAtOne' /\ OneInLock' /\ FinalFirst'
  BY <1>1, <1>2, <1>3 DEF StartedAtOne, OneInLock, FinalFirst
<1>8. RowsFit'
  BY <1>1 DEF RowsFit, RowFits
<1> QED
  BY <1>2, <1>6, <1>7, <1>8

(* The conjuncts that follow from what the lock, the handlers and the table   *)
(* look like, when a step leaves the market, the table and the rows alone.    *)
LEMMA LockStep ==
  ASSUME IInv, UNCHANGED <<now, market, table, storing, final, emitted, rows>>,
         checking' \subseteq checking, processing' \in BOOLEAN, OneInLock',
         trouble' \in Nat, seen' \in [Sessions -> Nat],
         workers' \subseteq [t: DOMAIN table, todo: SUBSET Sessions],
         \A w \in workers' : w.t \in final
  PROVE  IInv'
<1> USE DEF IInv
<1>1. Cardinality(workers') = IF processing' THEN 1 ELSE 0
  BY FS_EmptySet, FS_Singleton DEF OneInLock
<1>2. TypeOK'
  BY <1>1 DEF TypeOK
<1>3. StartedAtOne' /\ FinalFirst'
  BY DEF StartedAtOne, FinalFirst
<1>4. RowsFit' /\ ExtremesExact'
  BY DEF RowsFit, RowFits, ExtremesExact
<1> QED
  BY <1>2, <1>3, <1>4

(* A closed candle finds the lock taken, or takes it. *)
LEMMA TakeLockStep ==
  ASSUME IInv, NEW t \in checking, Skip(t) \/ Begin(t)
  PROVE  IInv'
<1> USE DEF IInv, feed, store, lock
<1>1. CASE Skip(t)
  BY <1>1, LockStep DEF Skip, TypeOK, OneInLock, FinalFirst
<1>2. CASE Begin(t)
  <2>1. workers = {} /\ workers' = {[t |-> t, todo |-> Sessions]} /\ processing' = TRUE
    BY <1>2 DEF Begin, OneInLock
  <2>2. OneInLock'
    BY <2>1 DEF OneInLock
  <2>3. t \in final /\ t \in DOMAIN table
    BY DEF FinalFirst, TypeOK
  <2> QED
    BY <1>2, <2>1, <2>2, <2>3, LockStep DEF Begin, TypeOK
<1> QED
  BY <1>1, <1>2

(* A session is evaluated or given up: the handler stays inside the lock. *)
LEMMA SessionStep ==
  ASSUME IInv, NEW w \in workers, NEW s \in Sessions, Evaluate(w, s) \/ GiveUp(w, s)
  PROVE  IInv'
<1> USE DEF IInv, feed, store, lock
<1>1. workers = {w} /\ processing
  BY DEF OneInLock
<1>2. workers' = {[w EXCEPT !.todo = @ \ {s}]}
  BY <1>1 DEF Evaluate, GiveUp, Done
<1>3. UNCHANGED <<processing, checking, now, market, table, storing, final, emitted, rows>>
  BY DEF Evaluate, GiveUp
<1>4. w.t \in final /\ w.t \in DOMAIN table /\ w \in [t: DOMAIN table, todo: SUBSET Sessions]
  BY DEF TypeOK, FinalFirst
<1>5. trouble' \in Nat /\ seen' \in [Sessions -> Nat]
  <2>1. CASE Evaluate(w, s)
    <3>1. LastBar(w) \in Nat
      BY <1>4, LastBarIsNewest DEF TypeOK
    <3> QED
      BY <2>1, <3>1 DEF Evaluate, TypeOK
  <2>2. CASE GiveUp(w, s)
    BY <2>2 DEF GiveUp, Trouble, TypeOK
  <2> QED
    BY <2>1, <2>2
<1>6. OneInLock'
  BY <1>1, <1>2, <1>3 DEF OneInLock
<1>7. [w EXCEPT !.todo = @ \ {s}] \in [t: DOMAIN table, todo: SUBSET Sessions]
      /\ [w EXCEPT !.todo = @ \ {s}].t = w.t
  BY <1>4
<1>8. processing' \in BOOLEAN
  BY <1>1, <1>3
<1> QED
  BY <1>2, <1>3, <1>4, <1>5, <1>6, <1>7, <1>8, LockStep

(* The handler leaves the lock. *)
LEMMA ReleaseStep ==
  ASSUME IInv, NEW w \in workers, Release(w)
  PROVE  IInv'
<1> USE DEF IInv, feed, store, lock
<1>1. workers' = {} /\ processing' = FALSE
  BY DEF OneInLock, Release
<1>2. trouble' \in Nat
  BY DEF Release, Trouble, TypeOK
<1> QED
  BY <1>1, <1>2, LockStep DEF Release, OneInLock, TypeOK

(* A restart forgets the rows on their way and the lock, and keeps the table. *)
LEMMA RestartStep ==
  ASSUME IInv, Restart
  PROVE  IInv'
<1> USE DEF IInv, store
<1>1. TypeOK'
  BY FS_EmptySet DEF Restart, Trouble, TypeOK
<1>2. StartedAtOne' /\ OneInLock' /\ RowsFit' /\ FinalFirst' /\ ExtremesExact'
  BY DEF Restart, StartedAtOne, OneInLock, RowsFit, FinalFirst, ExtremesExact
<1> QED
  BY <1>1, <1>2

-----------------------------------------------------------------------------

(* Every step keeps the invariant. *)
LEMMA InductionStep == IInv /\ [Next]_vars => IInv'
<1> SUFFICES ASSUME IInv, [Next]_vars PROVE IInv'
  OBVIOUS
<1>1. ASSUME NEW p \in Prices, Trade(p) \/ CandleEnds(p) PROVE IInv'
  BY <1>1, TradeStep, CandleEndsStep
<1>2. CASE Update
  BY <1>2, UpdateStep
<1>3. ASSUME NEW t \in DOMAIN market, Resend(t) PROVE IInv'
  BY <1>3, ResendStep
<1>4. ASSUME NEW row \in storing, StoreCandle(row) \/ StoreFails(row) PROVE IInv'
  BY <1>4, StoreStep
<1>5. ASSUME NEW t \in checking, Skip(t) \/ Begin(t) PROVE IInv'
  BY <1>5, TakeLockStep
<1>6. CASE WorkerStep
  BY <1>6, ReleaseStep, SessionStep DEF WorkerStep
<1>7. CASE Restart
  BY <1>7, RestartStep
<1>8. CASE UNCHANGED vars
  BY <1>8 DEF vars, IInv, TypeOK, StartedAtOne, OneInLock, RowsFit, RowFits, FinalFirst,
              ExtremesExact
<1> QED
  BY <1>1, <1>2, <1>3, <1>4, <1>5, <1>6, <1>7, <1>8 DEF Next

(* The invariant holds in every reachable state. *)
LEMMA Invariance == Spec => []IInv
BY InitInv, InductionStep, PTL DEF Spec

(* The table, the handlers and the feed are well typed, and `processing' and  *)
(* its finally keep all handlers but one out of the lock (onCandleClosed).    *)
THEOREM StoreTypes == Spec => []TypeOK
<1>1. IInv => TypeOK
  BY DEF IInv
<1> QED
  BY <1>1, Invariance, PTL

(* However many rows of however many candles overtake each other, repeat or   *)
(* are lost on their way to storeCandle's upsert, a stored range is never     *)
(* wider than the candle's, and exact once the candle is final.               *)
THEOREM StoredRangesAreExact == Spec => []ExtremesExact
<1>1. IInv => ExtremesExact
  BY DEF IInv
<1> QED
  BY <1>1, Invariance, PTL

(* A session is only evaluated on bars that hold the closed candle it is      *)
(* evaluated for, with its final range (onCandleClosed, loadBars).            *)
THEOREM SessionsSeeTheirCandle == Spec => EvaluatesItsCandle
<1>1. ASSUME IInv, NEW w \in workers, NEW s \in Sessions, Evaluate(w, s)
      PROVE  /\ w.t \in DOMAIN table /\ w.t <= seen'[s]
             /\ table[w.t].low = market[w.t].low /\ table[w.t].high = market[w.t].high
  <2>1. w.t \in final /\ w.t \in DOMAIN table
    BY <1>1 DEF IInv, FinalFirst, TypeOK
  <2>2. seen'[s] = LastBar(w)
    BY <1>1 DEF Evaluate, IInv, TypeOK
  <2>3. w.t <= LastBar(w)
    BY <1>1, <2>1, LastBarIsNewest DEF IInv
  <2> QED
    BY <1>1, <2>1, <2>2, <2>3 DEF IInv, ExtremesExact
<1>2. IInv /\ [Next]_vars =>
         [\A w \in workers, s \in Sessions : Evaluate(w, s) =>
             /\ w.t \in DOMAIN table /\ w.t <= seen'[s]
             /\ table[w.t].low = market[w.t].low /\ table[w.t].high = market[w.t].high]_vars
  BY <1>1
<1> QED
  BY <1>2, Invariance, PTL DEF Spec, EvaluatesItsCandle
==============================================================================
