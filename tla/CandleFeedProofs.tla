--------------------------- MODULE CandleFeedProofs ---------------------------
(***************************************************************************)
(* The safety properties of CandleFeed.tla for any set of symbols and any  *)
(* bounds.  What the service does with a row depends on the rows still in  *)
(* flight, so the inductive invariant is mostly about the wire: a symbol's *)
(* snapshot precedes its live rows, live closed rows are news in ascending *)
(* order, and a symbol that ended the phase has no snapshot row left.      *)
(***************************************************************************)
EXTENDS CandleFeed, SequenceTheorems, TLAPS

WireRow == [sym: Symbols, t: Nat, confirm: BOOLEAN, snap: BOOLEAN]

\* A row in flight, by itself, given what the exchange has closed and is still
\* to send, what the service has recorded and who ended the phase.
RowFits(row, cl, due, last, ended) ==
    /\ row.confirm => row.t <= cl[row.sym]
    /\ row.snap => row.confirm /\ row.sym # ended
    /\ row.sym \notin due
    /\ row.confirm /\ ~ row.snap => row.t > last[row.sym]

\* Two rows in flight of one symbol, in this order.
RowsFollow(first, second) ==
    first.sym = second.sym =>
        /\ second.snap => first.snap
        /\ first.confirm /\ second.confirm /\ ~ second.snap => first.t < second.t

WireFits(w, cl, due, last, ended) ==
    /\ \A i \in 1..Len(w) : RowFits(w[i], cl, due, last, ended)
    /\ \A i, j \in 1..Len(w) : i < j => RowsFollow(w[i], w[j])

\* The connection and what it implies.
ConnFits ==
    /\ conn \in {"connecting", "open"} => alive
    /\ conn \in {"connecting", "down"} => wire = <<>> /\ snapDue = {}
    /\ snapshotPhase <=> endedBy = None
    /\ endedBy \notin snapDue

IInv == TypeOK /\ OneWayBack /\ EmitsOnlyClosed /\ ConnFits
        /\ WireFits(wire, closed, snapDue, lastClosed, endedBy)

-----------------------------------------------------------------------------
(* The three ways the wire changes besides being cut.                      *)

(* A row appended to a fitting wire leaves it fitting if it fits itself and *)
(* follows every row of its symbol.                                         *)
LEMMA AppendRow ==
    ASSUME NEW w \in Seq(WireRow), NEW row \in WireRow
    PROVE  /\ Append(w, row) \in Seq(WireRow)
           /\ Len(Append(w, row)) = Len(w) + 1
           /\ \A i \in 1..Len(w) : Append(w, row)[i] = w[i]
           /\ Append(w, row)[Len(w) + 1] = row
  OBVIOUS

(* Taking the head off shifts the rows by one.                             *)
LEMMA TakeRow ==
    ASSUME NEW w \in Seq(WireRow), w # <<>>
    PROVE  /\ Head(w) \in WireRow
           /\ Head(w) = w[1]
           /\ Len(w) \in Nat /\ Len(w) >= 1
           /\ Tail(w) \in Seq(WireRow)
           /\ Len(Tail(w)) = Len(w) - 1
           /\ \A i \in 1..Len(Tail(w)) : Tail(w)[i] = w[i + 1]
  OBVIOUS

(* A function on 1..n is a sequence.                                        *)
LEMMA FunctionIsSeq ==
    ASSUME NEW S, NEW n \in Nat, NEW f \in [1..n -> S]
    PROVE  f \in Seq(S) /\ Len(f) = n
  OBVIOUS

(* A snapshot of n rows goes after what is in flight.                      *)
LEMMA AppendSnapshot ==
    ASSUME NEW w \in Seq(WireRow), NEW s \in Symbols, NEW n \in Nat
    PROVE  LET snap == [t \in 1..n |-> Row(s, t, TRUE, TRUE)] IN
           /\ w \o snap \in Seq(WireRow)
           /\ Len(w \o snap) = Len(w) + n
           /\ \A i \in 1..Len(w) : (w \o snap)[i] = w[i]
           /\ \A i \in 1..(Len(w) + n) :
                 i > Len(w) => (w \o snap)[i] = Row(s, i - Len(w), TRUE, TRUE)
<1> DEFINE snap == [t \in 1..n |-> Row(s, t, TRUE, TRUE)]
<1>1. snap \in [1..n -> WireRow]
  BY DEF Row, WireRow
<1>2. \A i \in 1..n : snap[i] = Row(s, i, TRUE, TRUE)
  OBVIOUS
<1> HIDE DEF snap
<1>3. snap \in Seq(WireRow) /\ Len(snap) = n
  BY <1>1, FunctionIsSeq
<1>4. Len(w) \in Nat
  OBVIOUS
<1>5. /\ w \o snap \in Seq(WireRow)
      /\ Len(w \o snap) = Len(w) + n
      /\ \A i \in 1..Len(w) : (w \o snap)[i] = w[i]
      /\ \A i \in 1..(Len(w) + n) : i > Len(w) => (w \o snap)[i] = snap[i - Len(w)]
  BY <1>3, <1>4, ConcatProperties, SMTT(30)
<1>6. ASSUME NEW i \in 1..(Len(w) + n), i > Len(w)
      PROVE  (w \o snap)[i] = Row(s, i - Len(w), TRUE, TRUE)
  <2>1. i - Len(w) \in 1..n
    BY <1>4, <1>6
  <2>2. (w \o snap)[i] = snap[i - Len(w)]
    BY <1>5, <1>6
  <2>3. snap[i - Len(w)] = Row(s, i - Len(w), TRUE, TRUE)
    BY <1>2, <2>1
  <2> QED  BY <2>2, <2>3
<1>7. LET r == [t \in 1..n |-> Row(s, t, TRUE, TRUE)] IN snap = r
  BY DEF snap
<1> QED  BY <1>5, <1>6, <1>7, Zenon

-----------------------------------------------------------------------------
(* The inductive invariant.                                                *)

LEMMA InitIInv == Init => IInv
<1> SUFFICES ASSUME Init PROVE IInv
  OBVIOUS
<1> USE DEF Init
<1>0. <<>> \in Seq(WireRow) /\ MaxTrouble \in Nat
  BY EmptySeq, FeedAssumption
<1>1. TypeOK
  BY <1>0 DEF TypeOK, Conns, WireRow
<1>2. OneWayBack /\ ConnFits
  <2>1. OneWayBack
    BY DEF OneWayBack
  <2>2. ConnFits
    BY DEF ConnFits
  <2> QED  BY <2>1, <2>2
<1>3. EmitsOnlyClosed
  <2> SUFFICES ASSUME NEW s \in Symbols
               PROVE  lastEmitted[s] <= lastClosed[s] /\ lastClosed[s] <= closed[s]
    BY DEF EmitsOnlyClosed
  <2>1. lastEmitted[s] = 0 /\ lastClosed[s] = 0 /\ closed[s] = 1
    OBVIOUS
  <2> QED  BY <2>1
<1>4. WireFits(wire, closed, snapDue, lastClosed, endedBy)
  BY DEF WireFits
<1> QED  BY <1>1, <1>2, <1>3, <1>4 DEF IInv

(* Every action keeps the types.                                           *)
LEMMA TypeStep == TypeOK /\ [Next]_vars => TypeOK'
<1> SUFFICES ASSUME TypeOK, [Next]_vars PROVE TypeOK'
  OBVIOUS
<1> USE DEF TypeOK, Conns, timers, client, server, WireRow
<1>0. <<>> \in Seq(WireRow)
  BY EmptySeq
<1>1. CASE Open  BY <1>0, <1>1 DEF Open
<1>2. CASE Drop
  <2>1. trouble' \in Nat
    BY <1>2 DEF Drop
  <2>2. /\ conn' = "down" /\ pingTimer' = FALSE /\ reconnectTimer' = alive
        /\ wire' = <<>> /\ snapDue' = {}
        /\ UNCHANGED <<alive, closed, client>>
    BY <1>2 DEF Drop, Closed
  <2> QED  BY <1>0, <2>1, <2>2
<1>3. CASE CloseCompletes  BY <1>0, <1>3 DEF CloseCompletes, Closed
<1>4. CASE Reconnect  BY <1>4 DEF Reconnect
<1>5. CASE Destroy  BY <1>5 DEF Destroy
<1>6. CASE Restart
  <2>1. trouble' \in Nat
    BY <1>6 DEF Restart
  <2>2. lastClosed' \in [Symbols -> Nat] /\ lastEmitted' \in [Symbols -> Nat]
    BY <1>6 DEF Restart
  <2>3. /\ alive' = TRUE /\ conn' = "connecting"
        /\ reconnectTimer' = FALSE /\ pingTimer' = FALSE /\ snapshotPhase' = TRUE
        /\ endedBy' = None /\ snapDue' = {} /\ wire' = <<>> /\ UNCHANGED closed
    BY <1>6 DEF Restart
  <2> QED  BY <1>0, <2>1, <2>2, <2>3
<1>7. ASSUME NEW s \in Symbols, SendSnapshot(s) PROVE TypeOK'
  <2>1. wire' \in Seq(WireRow)
    BY <1>7, AppendSnapshot DEF SendSnapshot, WireRow
  <2> QED  BY <1>7, <2>1 DEF SendSnapshot, WireRow
<1>8. ASSUME NEW s \in Symbols, SendUpdate(s) PROVE TypeOK'
  <2>1. Row(s, closed[s] + 1, FALSE, FALSE) \in WireRow
    BY DEF Row, WireRow
  <2>2. wire' \in Seq(WireRow)
    BY <1>8, <2>1, AppendRow DEF SendUpdate, WireRow
  <2> QED  BY <1>8, <2>2 DEF SendUpdate, WireRow
<1>9. ASSUME NEW s \in Symbols, CandleEnds(s) PROVE TypeOK'
  <2>1. Row(s, closed[s] + 1, TRUE, FALSE) \in WireRow
    BY DEF Row, WireRow
  <2>2. wire' \in Seq(WireRow)
    BY <1>9, <2>1, AppendRow DEF CandleEnds, WireRow
  <2>3. closed' \in [Symbols -> Nat]
    BY <1>9 DEF CandleEnds
  <2> QED  BY <1>9, <2>2, <2>3 DEF CandleEnds, WireRow
<1>10. CASE Receive
  <2>1. wire # <<>> /\ wire \in Seq(WireRow)
    BY <1>10 DEF Receive, WireRow
  <2>2. Head(wire) \in WireRow /\ Tail(wire) \in Seq(WireRow)
    BY <2>1, TakeRow
  <2>3. Head(wire).sym \in Symbols /\ Head(wire).t \in Nat /\ Head(wire).confirm \in BOOLEAN
    BY <2>2 DEF WireRow
  <2>4. wire' \in Seq(WireRow)
    BY <1>10, <2>2 DEF Receive
  <2>5. lastClosed' \in [Symbols -> Nat] /\ lastEmitted' \in [Symbols -> Nat]
    BY <1>10, <2>3 DEF Receive
  <2>6. snapshotPhase' \in BOOLEAN /\ endedBy' \in Symbols \cup {None}
    BY <1>10, <2>3 DEF Receive
  <2> QED  BY <1>10, <2>4, <2>5, <2>6 DEF Receive, WireRow
<1>11. CASE UNCHANGED vars  BY <1>11 DEF vars
<1> QED  BY <1>1, <1>2, <1>3, <1>4, <1>5, <1>6, <1>7, <1>8, <1>9, <1>10, <1>11 DEF Next

(* The connection's part of the invariant is kept.                         *)
LEMMA ConnStep == IInv /\ [Next]_vars => OneWayBack' /\ ConnFits'
<1> SUFFICES ASSUME IInv, [Next]_vars PROVE OneWayBack' /\ ConnFits'
  OBVIOUS
<1>0. None \notin Symbols
  BY FeedAssumption
<1>a. /\ OneWayBack /\ ConnFits
      /\ alive \in BOOLEAN /\ snapshotPhase \in BOOLEAN /\ conn \in Conns
      /\ reconnectTimer \in BOOLEAN /\ pingTimer \in BOOLEAN
      /\ endedBy \in Symbols \cup {None} /\ snapDue \subseteq Symbols
  BY DEF IInv, TypeOK
<1> USE <1>0, <1>a DEF OneWayBack, ConnFits, Conns, timers, client, server
<1>1. CASE Open  BY <1>1 DEF Open
<1>2. CASE Drop  BY <1>2 DEF Drop, Closed
<1>3. CASE CloseCompletes  BY <1>3 DEF CloseCompletes, Closed
<1>4. CASE Reconnect  BY <1>4 DEF Reconnect
<1>5. CASE Destroy  BY <1>5 DEF Destroy
<1>6. CASE Restart  BY <1>6 DEF Restart
<1>7. ASSUME NEW s \in Symbols, SendSnapshot(s) PROVE OneWayBack' /\ ConnFits'
  BY <1>7 DEF SendSnapshot
<1>8. ASSUME NEW s \in Symbols, SendUpdate(s) PROVE OneWayBack' /\ ConnFits'
  BY <1>8 DEF SendUpdate, Subscribed
<1>9. ASSUME NEW s \in Symbols, CandleEnds(s) PROVE OneWayBack' /\ ConnFits'
  BY <1>9 DEF CandleEnds, Subscribed
<1>10. CASE Receive
  <2>1. wire # <<>> /\ wire \in Seq(WireRow)
    BY <1>10 DEF Receive, IInv, TypeOK, WireRow
  <2>2. /\ Head(wire) \in WireRow /\ Head(wire) = wire[1] /\ Len(wire) \in Nat /\ Len(wire) >= 1
    BY <2>1, TakeRow
  <2>3. RowFits(wire[1], closed, snapDue, lastClosed, endedBy)
    BY <2>2 DEF IInv, WireFits
  <2>4. Head(wire).sym \notin snapDue /\ Head(wire).sym \in Symbols /\ Head(wire).confirm \in BOOLEAN
    BY <2>2, <2>3 DEF RowFits, WireRow
  <2> QED  BY <1>10, <2>1, <2>4 DEF Receive
<1>11. CASE UNCHANGED vars  BY <1>11 DEF vars
<1> QED  BY <1>1, <1>2, <1>3, <1>4, <1>5, <1>6, <1>7, <1>8, <1>9, <1>10, <1>11 DEF Next

(* What is emitted is recorded, and what is recorded has closed: the head   *)
(* of the wire has closed on the exchange whenever it is confirmed.         *)
LEMMA ClosedStep == IInv /\ [Next]_vars => EmitsOnlyClosed'
<1> SUFFICES ASSUME IInv, [Next]_vars, NEW s \in Symbols
             PROVE  lastEmitted'[s] <= lastClosed'[s] /\ lastClosed'[s] <= closed'[s]
  BY DEF EmitsOnlyClosed
<1>a. /\ lastEmitted[s] <= lastClosed[s] /\ lastClosed[s] <= closed[s]
      /\ lastEmitted[s] \in Nat /\ lastClosed[s] \in Nat /\ closed[s] \in Nat
      /\ closed \in [Symbols -> Nat]
      /\ lastClosed \in [Symbols -> Nat] /\ lastEmitted \in [Symbols -> Nat]
  BY DEF IInv, TypeOK, EmitsOnlyClosed
<1>1. CASE UNCHANGED <<closed, lastClosed, lastEmitted>>
  BY <1>1, <1>a
<1>2. CASE Restart
  <2>1. lastEmitted'[s] = 0 /\ lastClosed'[s] = 0 /\ closed' = closed
    BY <1>2 DEF Restart
  <2> QED  BY <2>1, <1>a
<1>3. ASSUME NEW c \in Symbols, CandleEnds(c)
      PROVE  lastEmitted'[s] <= lastClosed'[s] /\ lastClosed'[s] <= closed'[s]
  <2>1. closed'[s] >= closed[s] /\ closed'[s] \in Nat
    BY <1>3, <1>a DEF CandleEnds
  <2>2. lastEmitted' = lastEmitted /\ lastClosed' = lastClosed
    BY <1>3 DEF CandleEnds, client
  <2> QED  BY <2>1, <2>2, <1>a
<1>4. CASE Receive
  <2> DEFINE row == Head(wire)
  <2>1. wire # <<>> /\ wire \in Seq(WireRow)
    BY <1>4 DEF Receive, IInv, TypeOK, WireRow
  <2>2. row \in WireRow /\ row = wire[1] /\ Len(wire) \in Nat /\ Len(wire) >= 1
    BY <2>1, TakeRow
  <2>3. RowFits(row, closed, snapDue, lastClosed, endedBy)
    BY <2>2 DEF IInv, WireFits
  <2>4. row.sym \in Symbols /\ row.t \in Nat /\ (row.confirm => row.t <= closed[row.sym])
    BY <2>2, <2>3 DEF RowFits, WireRow
  <2>5. /\ closed' = closed
        /\ lastClosed' = IF row.confirm /\ row.t > lastClosed[row.sym]
                         THEN [lastClosed EXCEPT ![row.sym] = row.t] ELSE lastClosed
        /\ lastEmitted' = IF row.confirm /\ ~ snapshotPhase /\ row.t > lastClosed[row.sym]
                          THEN [lastEmitted EXCEPT ![row.sym] = row.t] ELSE lastEmitted
    BY <1>4 DEF Receive, server, Emits
  <2> HIDE DEF row
  <2>6. CASE row.sym # s \/ ~ (row.confirm /\ row.t > lastClosed[row.sym])
    <3>1. lastEmitted'[s] = lastEmitted[s] /\ lastClosed'[s] = lastClosed[s]
      BY <2>4, <2>5, <2>6, <1>a
    <3> QED  BY <3>1, <2>5, <1>a
  <2>7. CASE row.sym = s /\ row.confirm /\ row.t > lastClosed[row.sym]
    <3>1. lastClosed'[s] = row.t /\ lastEmitted'[s] \in {row.t, lastEmitted[s]}
      BY <2>4, <2>5, <2>7, <1>a
    <3> QED  BY <3>1, <2>4, <2>5, <2>7, <1>a
  <2> QED  BY <2>6, <2>7
<1>5. (\E c \in Symbols : CandleEnds(c)) \/ Restart \/ Receive
        \/ UNCHANGED <<closed, lastClosed, lastEmitted>>
  BY DEF Next, vars, Open, Drop, CloseCompletes, Reconnect, Destroy, SendSnapshot,
         SendUpdate, client, server
<1> QED  BY <1>1, <1>2, <1>3, <1>4, <1>5

-----------------------------------------------------------------------------
(* What keeps the wire fitting, for any values of the state it depends on.  *)

(* An empty wire fits.                                                      *)
LEMMA EmptyFits ==
    ASSUME NEW cl, NEW due, NEW last, NEW ended
    PROVE  WireFits(<<>>, cl, due, last, ended)
  BY DEF WireFits

(* A row that fits and that follows every row in flight of its symbol may   *)
(* be appended.                                                             *)
LEMMA AppendFits ==
    ASSUME NEW w \in Seq(WireRow), NEW row \in WireRow,
           NEW cl, NEW due, NEW last, NEW ended,
           WireFits(w, cl, due, last, ended), RowFits(row, cl, due, last, ended),
           \A i \in 1..Len(w) : RowsFollow(w[i], row)
    PROVE  WireFits(Append(w, row), cl, due, last, ended)
<1> DEFINE w2 == Append(w, row)
<1>1. /\ Len(w2) = Len(w) + 1
      /\ \A i \in 1..Len(w) : w2[i] = w[i]
      /\ w2[Len(w) + 1] = row
      /\ Len(w) \in Nat
  BY AppendRow
<1> HIDE DEF w2
<1>2. ASSUME NEW i \in 1..Len(w2) PROVE RowFits(w2[i], cl, due, last, ended)
  <2>1. CASE i \in 1..Len(w)
    BY <2>1, <1>1 DEF WireFits
  <2>2. CASE i = Len(w) + 1
    BY <2>2, <1>1
  <2> QED  BY <1>1, <2>1, <2>2
<1>3. ASSUME NEW i \in 1..Len(w2), NEW j \in 1..Len(w2), i < j
      PROVE  RowsFollow(w2[i], w2[j])
  <2>1. i \in 1..Len(w) /\ (j \in 1..Len(w) \/ j = Len(w) + 1)
    BY <1>1, <1>3
  <2>2. CASE j \in 1..Len(w)
    BY <1>1, <1>3, <2>1, <2>2 DEF WireFits
  <2>3. CASE j = Len(w) + 1
    BY <1>1, <2>1, <2>3
  <2> QED  BY <2>1, <2>2, <2>3
<1>4. WireFits(w2, cl, due, last, ended)
  BY <1>2, <1>3 DEF WireFits
<1> QED  BY <1>4 DEF w2

(* So may the snapshot of a symbol that is still due: it has nothing in     *)
(* flight.                                                                  *)
LEMMA SnapshotFits ==
    ASSUME NEW w \in Seq(WireRow), NEW s \in Symbols,
           NEW cl \in [Symbols -> Nat], NEW due, NEW last, NEW ended,
           WireFits(w, cl, due, last, ended), s \in due, s # ended
    PROVE  WireFits(w \o [t \in 1..cl[s] |-> Row(s, t, TRUE, TRUE)],
                    cl, due \ {s}, last, ended)
<1> DEFINE n == cl[s]
           w2 == w \o [t \in 1..n |-> Row(s, t, TRUE, TRUE)]
<1>0. n \in Nat /\ Len(w) \in Nat
  OBVIOUS
<1>1. /\ Len(w2) = Len(w) + n
      /\ \A i \in 1..Len(w) : w2[i] = w[i]
      /\ \A i \in 1..(Len(w) + n) : i > Len(w) => w2[i] = Row(s, i - Len(w), TRUE, TRUE)
  BY <1>0, AppendSnapshot
<1>2. n = cl[s]
  OBVIOUS
<1> HIDE DEF w2, n
<1>3. ASSUME NEW i \in 1..Len(w) PROVE w[i].sym # s
  BY DEF WireFits, RowFits
<1>4. ASSUME NEW i \in 1..Len(w2), i > Len(w)
      PROVE  w2[i].sym = s /\ w2[i].t <= n /\ w2[i].confirm /\ w2[i].snap
  <2>1. i \in 1..(Len(w) + n) /\ i - Len(w) <= n
    BY <1>0, <1>1
  <2>2. w2[i] = Row(s, i - Len(w), TRUE, TRUE)
    BY <1>1, <1>4, <2>1
  <2>3. w2[i].sym = s /\ w2[i].t = i - Len(w) /\ w2[i].confirm /\ w2[i].snap
    BY <2>2 DEF Row
  <2> QED  BY <2>1, <2>3
<1>5. ASSUME NEW i \in 1..Len(w2) PROVE RowFits(w2[i], cl, due \ {s}, last, ended)
  <2>1. CASE i \in 1..Len(w)
    BY <2>1, <1>1 DEF WireFits, RowFits
  <2>2. CASE i > Len(w)
    BY <2>2, <1>2, <1>4 DEF RowFits
  <2> QED  BY <1>0, <1>1, <2>1, <2>2
<1>6. ASSUME NEW i \in 1..Len(w2), NEW j \in 1..Len(w2), i < j
      PROVE  RowsFollow(w2[i], w2[j])
  <2>1. CASE j \in 1..Len(w)
    <3>1. i \in 1..Len(w)
      BY <1>0, <1>6, <2>1
    <3> QED  BY <1>1, <1>6, <2>1, <3>1 DEF WireFits
  <2>2. CASE i \in 1..Len(w) /\ j > Len(w)
    BY <1>1, <1>3, <1>4, <2>2 DEF RowsFollow
  <2>3. CASE i > Len(w) /\ j > Len(w)
    BY <1>4, <2>3 DEF RowsFollow
  <2> QED  BY <1>0, <1>1, <1>6, <2>1, <2>2, <2>3
<1>7. WireFits(w2, cl, due \ {s}, last, ended)
  BY <1>5, <1>6 DEF WireFits
<1> QED  BY <1>7 DEF w2, n

(* The rest of the wire fits what onCandleData makes of its head: the       *)
(* recorded candle may rise to the head's, and the head may end the phase   *)
(* if it is a live row.                                                     *)
LEMMA TakeFits ==
    ASSUME NEW w \in Seq(WireRow), w # <<>>,
           NEW cl, NEW due, NEW last \in [Symbols -> Nat], NEW last2 \in [Symbols -> Nat],
           NEW ended, NEW ended2,
           WireFits(w, cl, due, last, ended),
           \/ last2 = last
           \/ Head(w).confirm /\ last2 = [last EXCEPT ![Head(w).sym] = Head(w).t],
           ended2 = ended \/ (~ Head(w).confirm /\ ended2 = Head(w).sym)
    PROVE  WireFits(Tail(w), cl, due, last2, ended2)
<1> DEFINE w2 == Tail(w)
           h == Head(w)
<1>1. /\ h \in WireRow /\ h = w[1] /\ Len(w) \in Nat /\ Len(w) >= 1
      /\ w2 \in Seq(WireRow) /\ Len(w2) = Len(w) - 1
      /\ \A i \in 1..Len(w2) : w2[i] = w[i + 1]
  BY TakeRow
<1>2. /\ last2 = last \/ (h.confirm /\ last2 = [last EXCEPT ![h.sym] = h.t])
      /\ ended2 = ended \/ (~ h.confirm /\ ended2 = h.sym)
  OBVIOUS
<1> HIDE DEF w2, h
<1>3. ASSUME NEW i \in 1..Len(w2)
      PROVE  i + 1 \in 1..Len(w) /\ w2[i] = w[i + 1] /\ w2[i] \in WireRow
  BY <1>1
<1>4. ASSUME NEW i \in 1..Len(w2) PROVE RowFits(w2[i], cl, due, last2, ended2)
  <2>1. RowFits(w2[i], cl, due, last, ended)
    BY <1>3 DEF WireFits
  <2>2. RowsFollow(h, w2[i])
    <3>1. 1 \in 1..Len(w) /\ 1 < i + 1
      BY <1>1
    <3> QED  BY <1>1, <1>3, <3>1 DEF WireFits
  <2>3. RowFits(h, cl, due, last, ended)
    <3>1. 1 \in 1..Len(w)
      BY <1>1
    <3> QED  BY <1>1, <3>1 DEF WireFits
  <2>4. w2[i].confirm /\ ~ w2[i].snap => w2[i].t > last2[w2[i].sym]
    BY <1>1, <1>2, <1>3, <2>1, <2>2 DEF RowFits, RowsFollow, WireRow
  <2>5. w2[i].snap => w2[i].sym # ended2
    BY <1>2, <2>1, <2>2, <2>3 DEF RowFits, RowsFollow
  <2> QED  BY <2>1, <2>4, <2>5 DEF RowFits
<1>5. ASSUME NEW i \in 1..Len(w2), NEW j \in 1..Len(w2), i < j
      PROVE  RowsFollow(w2[i], w2[j])
  <2>1. i + 1 < j + 1
    BY <1>1, <1>5
  <2> QED  BY <1>3, <2>1 DEF WireFits
<1>6. WireFits(w2, cl, due, last2, ended2)
  BY <1>4, <1>5 DEF WireFits
<1> QED  BY <1>6 DEF w2

-----------------------------------------------------------------------------
(* The theorems.                                                            *)

(* Every action keeps the wire fitting.                                     *)
LEMMA WireStep ==
    IInv /\ [Next]_vars => WireFits(wire, closed, snapDue, lastClosed, endedBy)'
<1> DEFINE Fits == WireFits(wire, closed, snapDue, lastClosed, endedBy)
<1> SUFFICES ASSUME IInv, [Next]_vars
             PROVE  WireFits(wire', closed', snapDue', lastClosed', endedBy')
  OBVIOUS
<1>a. /\ Fits /\ wire \in Seq(WireRow)
      /\ closed \in [Symbols -> Nat] /\ lastClosed \in [Symbols -> Nat]
      /\ lastClosed' \in [Symbols -> Nat]
      /\ \A s \in Symbols : lastClosed[s] <= closed[s]
      /\ endedBy \notin snapDue
  BY TypeStep DEF IInv, TypeOK, WireRow, EmitsOnlyClosed, ConnFits
<1>1. CASE wire' = <<>>
  BY <1>1, EmptyFits
<1>2. CASE UNCHANGED <<wire, closed, snapDue, lastClosed, endedBy>>
  BY <1>2, <1>a
<1>3. ASSUME NEW s \in Symbols, SendSnapshot(s)
      PROVE  WireFits(wire', closed', snapDue', lastClosed', endedBy')
  <2>1. s \in snapDue /\ s # endedBy
    BY <1>3, <1>a DEF SendSnapshot
  <2>2. /\ wire' = wire \o [t \in 1..closed[s] |-> Row(s, t, TRUE, TRUE)]
        /\ snapDue' = snapDue \ {s}
        /\ UNCHANGED <<closed, lastClosed, endedBy>>
    BY <1>3 DEF SendSnapshot, client
  <2>3. WireFits(wire \o [t \in 1..closed[s] |-> Row(s, t, TRUE, TRUE)],
                 closed, snapDue \ {s}, lastClosed, endedBy)
    BY <2>1, <1>a, SnapshotFits
  <2> QED  BY <2>2, <2>3
<1>4. ASSUME NEW s \in Symbols, SendUpdate(s)
      PROVE  WireFits(wire', closed', snapDue', lastClosed', endedBy')
  <2> DEFINE row == Row(s, closed[s] + 1, FALSE, FALSE)
  <2>1. /\ s \notin snapDue /\ wire' = Append(wire, row)
        /\ UNCHANGED <<closed, snapDue, lastClosed, endedBy>>
    BY <1>4 DEF SendUpdate, Subscribed, client, server
  <2>2. row \in WireRow /\ row.sym = s /\ ~ row.confirm /\ ~ row.snap
    BY <1>a DEF Row, WireRow
  <2> HIDE DEF row
  <2>3. RowFits(row, closed, snapDue, lastClosed, endedBy)
    BY <2>1, <2>2 DEF RowFits
  <2>4. \A i \in 1..Len(wire) : RowsFollow(wire[i], row)
    BY <2>2 DEF RowsFollow
  <2>5. WireFits(Append(wire, row), closed, snapDue, lastClosed, endedBy)
    BY <2>2, <2>3, <2>4, <1>a, AppendFits
  <2> QED  BY <2>1, <2>5
<1>5. ASSUME NEW s \in Symbols, CandleEnds(s)
      PROVE  WireFits(wire', closed', snapDue', lastClosed', endedBy')
  <2> DEFINE row == Row(s, closed[s] + 1, TRUE, FALSE)
  <2>1. /\ closed' = [closed EXCEPT ![s] = closed[s] + 1]
        /\ UNCHANGED <<snapDue, lastClosed, endedBy>>
        /\ wire' = wire \/ (s \notin snapDue /\ wire' = Append(wire, row))
    BY <1>5 DEF CandleEnds, Subscribed, client
  <2>2. row \in WireRow /\ row.sym = s /\ row.t = closed[s] + 1 /\ row.confirm /\ ~ row.snap
    BY <1>a DEF Row, WireRow
  <2> HIDE DEF row
  <2>3. closed' \in [Symbols -> Nat] /\ closed'[s] = closed[s] + 1
          /\ \A c \in Symbols : closed'[c] >= closed[c]
    BY <2>1, <1>a
  <2>4. \A i \in 1..Len(wire) : wire[i] \in WireRow
    BY <1>a
  <2>5. WireFits(wire, closed', snapDue, lastClosed, endedBy)
    <3>1. ASSUME NEW i \in 1..Len(wire)
          PROVE  RowFits(wire[i], closed', snapDue, lastClosed, endedBy)
      <4>1. RowFits(wire[i], closed, snapDue, lastClosed, endedBy)
        BY <1>a DEF WireFits
      <4>2. wire[i].sym \in Symbols /\ wire[i].t \in Nat
        BY <2>4 DEF WireRow
      <4>3. wire[i].t <= closed[wire[i].sym] => wire[i].t <= closed'[wire[i].sym]
        BY <1>a, <2>3, <4>2
      <4> QED  BY <4>1, <4>3 DEF RowFits
    <3> QED  BY <1>a, <3>1 DEF WireFits
  <2>6. CASE wire' = wire
    BY <2>1, <2>5, <2>6
  <2>7. CASE s \notin snapDue /\ wire' = Append(wire, row)
    <3>1. RowFits(row, closed', snapDue, lastClosed, endedBy)
      BY <1>a, <2>2, <2>3, <2>7 DEF RowFits
    <3>2. ASSUME NEW i \in 1..Len(wire) PROVE RowsFollow(wire[i], row)
      <4>1. wire[i].confirm => wire[i].t <= closed[wire[i].sym]
        BY <1>a DEF WireFits, RowFits
      <4> QED  BY <1>a, <2>2, <2>4, <4>1 DEF RowsFollow, WireRow
    <3>3. WireFits(Append(wire, row), closed', snapDue, lastClosed, endedBy)
      BY <1>a, <2>2, <2>5, <3>1, <3>2, AppendFits
    <3> QED  BY <2>1, <2>7, <3>3
  <2> QED  BY <2>1, <2>6, <2>7
<1>6. CASE Receive
  <2>1. wire # <<>> /\ wire' = Tail(wire) /\ UNCHANGED <<closed, snapDue>>
    BY <1>6 DEF Receive, server
  <2>2. \/ lastClosed' = lastClosed
        \/ Head(wire).confirm
             /\ lastClosed' = [lastClosed EXCEPT ![Head(wire).sym] = Head(wire).t]
    BY <1>6 DEF Receive
  <2>3. endedBy' = endedBy \/ (~ Head(wire).confirm /\ endedBy' = Head(wire).sym)
    BY <1>6 DEF Receive
  <2>4. WireFits(Tail(wire), closed, snapDue, lastClosed', endedBy')
    BY <1>a, <2>1, <2>2, <2>3, TakeFits
  <2> QED  BY <2>1, <2>4
<1>7. CASE Open
  <2>1. wire = <<>> /\ wire' = wire
    BY <1>7 DEF Open, IInv, ConnFits
  <2> QED  BY <1>1, <2>1
<1>8. \/ Receive \/ Open \/ wire' = <<>>
      \/ UNCHANGED <<wire, closed, snapDue, lastClosed, endedBy>>
      \/ \E s \in Symbols : SendSnapshot(s) \/ SendUpdate(s) \/ CandleEnds(s)
  BY DEF Next, vars, Drop, Closed, CloseCompletes, Reconnect, Destroy, Restart, client, server
<1> QED  BY <1>1, <1>2, <1>3, <1>4, <1>5, <1>6, <1>7, <1>8

(* The inductive invariant holds in every reachable state.                  *)
THEOREM Invariance == Spec => []IInv
<1>1. IInv /\ [Next]_vars => IInv'
  BY TypeStep, ConnStep, ClosedStep, WireStep DEF IInv
<1> QED  BY InitIInv, <1>1, PTL DEF Spec

(* The service's state, the exchange's and the wire are well typed.          *)
THEOREM FeedTypes == Spec => []TypeOK
<1>1. IInv => TypeOK
  BY DEF IInv
<1> QED  BY Invariance, <1>1, PTL

(* The service never runs ahead of the market, for any number of symbols,    *)
(* candles, drops and restarts.                                              *)
THEOREM NeverAheadOfMarket == Spec => []EmitsOnlyClosed
<1>1. IInv => EmitsOnlyClosed
  BY DEF IInv
<1> QED  BY Invariance, <1>1, PTL

(* A live service has exactly one way to a connection, and a destroyed one   *)
(* has none.                                                                 *)
THEOREM TimersFollowConnection == Spec => []OneWayBack
<1>1. IInv => OneWayBack
  BY DEF IInv
<1> QED  BY Invariance, <1>1, PTL

(* The row being handled fits: what RowFits says of it, with its types.      *)
LEMMA HeadFits ==
    ASSUME IInv, Receive
    PROVE  /\ Head(wire) \in WireRow
           /\ RowFits(Head(wire), closed, snapDue, lastClosed, endedBy)
           /\ snapshotPhase <=> endedBy = None
<1>1. wire # <<>> /\ wire \in Seq(WireRow)
  BY DEF Receive, IInv, TypeOK, WireRow
<1>2. Head(wire) \in WireRow /\ Head(wire) = wire[1] /\ Len(wire) \in Nat /\ Len(wire) >= 1
  BY <1>1, TakeRow
<1>3. RowFits(wire[1], closed, snapDue, lastClosed, endedBy)
  BY <1>2 DEF IInv, WireFits
<1> QED  BY <1>2, <1>3 DEF IInv, ConnFits

(* Candles are emitted at most once and in order between two starts.         *)
THEOREM EmissionsAscend == Spec => EmitsInOrder
<1>1. IInv /\ [Next]_vars =>
        [Receive => \A s \in Symbols :
           lastEmitted'[s] # lastEmitted[s] \/ (Emits(Head(wire)) /\ Head(wire).sym = s)
               => lastEmitted'[s] > lastEmitted[s]]_vars
  <2> SUFFICES ASSUME IInv, Receive, NEW s \in Symbols,
                      lastEmitted'[s] # lastEmitted[s]
                        \/ (Emits(Head(wire)) /\ Head(wire).sym = s)
               PROVE  lastEmitted'[s] > lastEmitted[s]
    OBVIOUS
  <2> DEFINE row == Head(wire)
  <2>1. row \in WireRow /\ row.t \in Nat /\ row.sym \in Symbols
    BY HeadFits DEF WireRow
  <2>2. /\ lastEmitted \in [Symbols -> Nat] /\ lastClosed \in [Symbols -> Nat]
        /\ lastEmitted[s] <= lastClosed[s]
    BY DEF IInv, TypeOK, EmitsOnlyClosed
  <2>3. lastEmitted' = IF Emits(row) THEN [lastEmitted EXCEPT ![row.sym] = row.t]
                       ELSE lastEmitted
    BY DEF Receive
  <2>4. Emits(row) => row.t > lastClosed[row.sym]
    BY DEF Emits
  <2> HIDE DEF row
  <2>5. Emits(row) /\ row.sym = s
    BY <2>1, <2>2, <2>3 DEF row
  <2>6. lastEmitted'[s] = row.t
    BY <2>1, <2>2, <2>3, <2>5
  <2> QED  BY <2>1, <2>2, <2>4, <2>5, <2>6
<1> QED  BY Invariance, <1>1, PTL DEF Spec, EmitsInOrder

(* No live candle is swallowed once the phase is over on the connection.     *)
THEOREM LiveCandlesEmitted == Spec => LiveCandlesTrigger
<1>1. IInv /\ [Next]_vars =>
        [Receive /\ ~ Head(wire).snap /\ Head(wire).confirm /\ endedBy # None
           => Emits(Head(wire))]_vars
  BY HeadFits DEF RowFits, Emits
<1> QED  BY Invariance, <1>1, PTL DEF Spec, LiveCandlesTrigger

(* A snapshot row is emitted only after another symbol ended the phase.      *)
THEOREM OwnRowsNeverLeak == Spec => LeakNeedsAnotherSymbol
<1>1. IInv /\ [Next]_vars =>
        [Receive /\ Head(wire).snap /\ Emits(Head(wire))
           => endedBy \notin {None, Head(wire).sym}]_vars
  BY HeadFits DEF RowFits, Emits
<1> QED  BY Invariance, <1>1, PTL DEF Spec, LeakNeedsAnotherSymbol

==============================================================================
