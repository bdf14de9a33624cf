------------------------- MODULE PositionManagerProofs -------------------------
(***************************************************************************)
(* Theorems about PositionManager, for any positions, targets, prices and  *)
(* number of handlers, events, attempts and faults.                        *)
(***************************************************************************)
EXTENDS PositionManager, FiniteSetTheorems, WellFoundedInduction, TLAPS

Todos == UNION {[S -> Nat] : S \in SUBSET Positions}

HandlerType == [pc: Pcs, price: Nat, todo: Todos, pos: Positions \cup {"none"}, qty: Nat,
                list: SUBSET Targets, attempt: 0..MaxRetry]

\* Before these, a handler has not chosen a position.
Choosing == {"idle", "find", "position"}

HandlersTyped ==
    /\ handler \in [Handlers -> HandlerType]
    /\ \A h \in Handlers : handler[h].pc \notin Choosing => handler[h].pos \in Positions
    /\ \A h \in Handlers : handler[h].pc \in Inside => handler[h].list # {}

(***************************************************************************)
(* The parts of the invariant that are not types.                          *)
(***************************************************************************)

\* What of a handler's loaded quantity is sold and not written yet.
Pending(h) == IF handler[h].pc \in {"stop", "stopRow", "write"}
              THEN TargetQty[First(handler[h].list)] ELSE 0

\* Whatever a handler has loaded, however long ago, covers what Bitget holds.
LoadedCovers(h) ==
    /\ \A p \in DOMAIN handler[h].todo : exchange[p] <= handler[h].todo[p] + dust[p]
    /\ handler[h].pc \notin Choosing =>
          exchange[handler[h].pos] + Pending(h) <= handler[h].qty + dust[handler[h].pos]
    /\ handler[h].pc = "close" => exchange[handler[h].pos] <= dust[handler[h].pos]

\* Who executes holds the lock, alone, and nobody else does.
LockExact ==
    /\ \A h \in Handlers : handler[h].pc \in Inside => handler[h].pos \in executing
    /\ \A h, g \in Handlers :
          /\ handler[h].pc \in Inside /\ handler[g].pc \in Inside
          /\ handler[h].pos = handler[g].pos
          => h = g
    /\ \A p \in executing : \E h \in Handlers : handler[h].pc \in Inside /\ handler[h].pos = p

\* A mark without a sale belongs to an execution under way or cut short.
MarkIsBacked ==
    \A p \in Positions : \A t \in hit[p] :
        \/ sold[p][t] >= 1
        \/ <<p, t>> \in cut
        \/ \E h \in Handlers : handler[h].pc \in {"send", "revert"} /\ Current(h) = <<p, t>>

Covers == TableBoundsExchange /\ \A h \in Handlers : LoadedCovers(h)

IInv == TypeOK /\ HandlersTyped /\ Covers /\ LockExact /\ MarkIsBacked

-----------------------------------------------------------------------------
(* Helpers.                                                                *)

(* The targets are numbered from 1. *)
LEMMA TargetsAreNumbers == Targets \subseteq Nat /\ \A t \in Targets : TargetPrice[t] \in Nat
BY ManagerAssumption DEF ManagerAssumption, Targets

(* The first of the targets loaded is one of them. *)
LEMMA FirstIsOne ==
  ASSUME NEW S, S \subseteq Targets, S # {}
  PROVE  First(S) \in S /\ First(S) \in Targets
<1> DEFINE R == OpToRel(<, Nat)
<1>1. \A x, y \in Nat : x < y => <<x, y>> \in R
  BY DEF OpToRel
<1>2. S \subseteq Nat
  BY TargetsAreNumbers
<1>3. PICK x \in S : \A y \in S : ~ (<<y, x>> \in R)
  BY <1>2, NatLessThanWellFounded, WFMin, Zenon
<1>4. ASSUME NEW y \in S PROVE x <= y
  <2>1. ~ (y < x)
    BY <1>1, <1>2, <1>3
  <2> QED
    BY <1>2, <2>1
<1>5. \E t \in S : \A u \in S : t <= u
  BY <1>4
<1>6. First(S) \in S
  BY <1>5, Zenon DEF First
<1> QED
  BY <1>6

(* What an order loses to the size step is not more than the order. *)
LEMMA TruncateFits ==
  ASSUME NEW q \in Nat
  PROVE  Truncate(q) \in Nat /\ Truncate(q) <= q
<1>1. SizeStep \in Nat /\ SizeStep > 0
  BY ManagerAssumption DEF ManagerAssumption
<1>2. q % SizeStep \in 0..(SizeStep - 1)
  BY <1>1
<1>3. q % SizeStep <= q
  BY <1>1, <1>2
<1> QED
  BY <1>2, <1>3 DEF Truncate

(* The loaded rows are positions with quantities, whichever are left. *)
LEMMA NoTodo == <<>> \in Todos
<1>1. <<>> \in [{} -> Nat] /\ {} \in SUBSET Positions
  OBVIOUS
<1> QED
  BY <1>1 DEF Todos

LEMMA TodoRows ==
  ASSUME NEW todo \in Todos
  PROVE  /\ DOMAIN todo \subseteq Positions
         /\ \A p \in DOMAIN todo : todo[p] \in Nat
         /\ \A S \in SUBSET DOMAIN todo : [q \in S |-> todo[q]] \in Todos
<1>1. PICK D \in SUBSET Positions : todo \in [D -> Nat]
  BY DEF Todos
<1>2. DOMAIN todo = D /\ \A p \in D : todo[p] \in Nat
  BY <1>1
<1>3. ASSUME NEW S \in SUBSET D PROVE [q \in S |-> todo[q]] \in Todos
  <2>1. [q \in S |-> todo[q]] \in [S -> Nat] /\ S \in SUBSET Positions
    BY <1>2
  <2> QED
    BY <2>1 DEF Todos
<1> QED
  BY <1>2, <1>3

LEMMA LoadedRows ==
  ASSUME rows \in [Positions -> Rows]
  PROVE  [p \in Open |-> rows[p].qty] \in Todos
<1>1. Open \in SUBSET Positions /\ \A p \in Open : rows[p].qty \in Nat
  BY DEF Open, Rows
<1>2. [p \in Open |-> rows[p].qty] \in [Open -> Nat]
  BY <1>1
<1> QED
  BY <1>1, <1>2 DEF Todos

(* The handler that waits for an event. *)
LEMMA IdleTyped == Idle \in HandlerType /\ Idle.pc = "idle" /\ Idle.todo = <<>>
BY NoTodo, ManagerAssumption DEF Idle, HandlerType, Pcs, ManagerAssumption

(* A service that starts has loaded the truth. *)
LEMMA InitInv == Init => IInv
<1> SUFFICES ASSUME Init PROVE IInv
  OBVIOUS
<1>1. TotalQty \in Nat /\ MaxEvents \in Nat /\ MaxFaults \in Nat
  BY ManagerAssumption DEF ManagerAssumption
<1>2. Truncate(TotalQty) \in Nat /\ Truncate(TotalQty) <= TotalQty
  BY <1>1, TruncateFits
<1>3. handler = [h \in Handlers |-> Idle] /\ \A h \in Handlers : handler[h] = Idle
  BY DEF Init
<1>4. HandlersTyped
  BY <1>3, IdleTyped DEF HandlersTyped, Choosing, Inside
<1>5. TypeOK
  <2>1. ASSUME NEW h \in Handlers
        PROVE  /\ handler[h].pc \in Pcs /\ handler[h].price \in Nat
               /\ DOMAIN handler[h].todo \subseteq Positions
               /\ handler[h].pos \in Positions \cup {"none"} /\ handler[h].qty \in Nat
               /\ handler[h].list \subseteq Targets /\ handler[h].attempt \in 0..MaxRetry
               /\ handler[h].pc \in Inside => handler[h].list # {}
    <3>1. handler[h] \in HandlerType /\ handler[h].pc = "idle"
      BY <1>3, IdleTyped
    <3> QED
      BY <3>1, TodoRows DEF HandlerType, Inside
  <2>2. rows \in [Positions -> Rows]
    BY <1>1 DEF Init, Rows
  <2> QED
    BY <1>1, <1>2, <2>1, <2>2 DEF Init, TypeOK
<1>6. Covers
  <2>1. ASSUME NEW h \in Handlers PROVE LoadedCovers(h)
    <3>1. handler[h].pc = "idle" /\ DOMAIN handler[h].todo = {}
      BY <1>3, IdleTyped
    <3> QED
      BY <3>1 DEF LoadedCovers, Choosing
  <2>2. TableBoundsExchange
    BY <1>1, <1>2 DEF Init, TableBoundsExchange
  <2> QED
    BY <2>1, <2>2 DEF Covers
<1>7. LockExact
  BY <1>3, IdleTyped DEF Init, LockExact, Inside
<1>8. MarkIsBacked
  BY DEF Init, MarkIsBacked
<1> QED
  BY <1>4, <1>5, <1>6, <1>7, <1>8 DEF IInv

-----------------------------------------------------------------------------
(* Types.                                                                  *)

\* What a handler goes on with.
Continues(r) ==
    /\ r \in HandlerType
    /\ r.pc \notin Choosing => r.pos \in Positions
    /\ r.pc \in Inside => r.list # {}

(* One handler goes on and the others stay. *)
LEMMA OneContinues ==
  ASSUME HandlersTyped, NEW h \in Handlers, NEW r, Continues(r),
         handler' = [handler EXCEPT ![h] = r]
  PROVE  HandlersTyped'
BY DEF HandlersTyped, Continues

(* A handler at an await has what that await needs. *)
LEMMA ContinuesNow ==
  ASSUME HandlersTyped, NEW h \in Handlers
  PROVE  Continues(handler[h])
BY DEF HandlersTyped, Continues

(* The handler after each of its steps. *)
LEMMA HandlersStep ==
  ASSUME IInv, NEW h \in Handlers, OnMarkPriceUpdate(h) \/ HandlerStep(h) \/ DbFails(h)
  PROVE  HandlersTyped'
<1> USE DEF IInv, At, Goto, Return
<1> DEFINE r == handler[h]
<1>0. /\ Continues(r) /\ r \in HandlerType /\ handler \in [Handlers -> HandlerType]
      /\ HandlersTyped
  BY ContinuesNow DEF HandlersTyped
<1>1. ASSUME NEW n \in HandlerType, handler' = [handler EXCEPT ![h] = n], Continues(n)
      PROVE  HandlersTyped'
  BY <1>0, <1>1, OneContinues
<1>2. ASSUME NEW pc \in Pcs, handler' = [handler EXCEPT ![h].pc = pc],
             pc \notin Choosing => r.pos \in Positions, pc \in Inside => r.list # {}
      PROVE  HandlersTyped'
  <2>1. handler' = [handler EXCEPT ![h] = [r EXCEPT !.pc = pc]]
    BY <1>0, <1>2
  <2>2. [r EXCEPT !.pc = pc] \in HandlerType /\ Continues([r EXCEPT !.pc = pc])
    BY <1>0, <1>2 DEF HandlerType, Continues
  <2> QED
    BY <2>1, <2>2, <1>1
<1>3. ASSUME handler' = [handler EXCEPT ![h].pc = "target", ![h].list = Rest(@)],
             r.pos \in Positions
      PROVE  HandlersTyped'
  <2>1. handler' = [handler EXCEPT ![h] = [r EXCEPT !.pc = "target", !.list = Rest(@)]]
    BY <1>0, <1>3
  <2>2. Continues([r EXCEPT !.pc = "target", !.list = Rest(@)])
    BY <1>0, <1>3 DEF HandlerType, Continues, Pcs, Inside, Rest
  <2> QED
    BY <2>1, <2>2, <1>1 DEF Continues
<1>4. ASSUME handler' = [handler EXCEPT ![h] = Idle] PROVE HandlersTyped'
  BY <1>1, <1>4, IdleTyped DEF Continues, Choosing, Inside
<1>5. CASE OnMarkPriceUpdate(h)
  <2>1. PICK price \in Prices :
          handler' = [handler EXCEPT ![h] = [Idle EXCEPT !.pc = "find", !.price = price]]
    BY <1>5 DEF OnMarkPriceUpdate
  <2>2. price \in Nat
    BY ManagerAssumption DEF ManagerAssumption
  <2>3. Continues([Idle EXCEPT !.pc = "find", !.price = price])
    BY <2>2, IdleTyped DEF Continues, HandlerType, Pcs, Choosing, Inside
  <2> QED
    BY <2>1, <2>3, <1>1 DEF Continues
<1>6. CASE FindPositions(h)
  <2> DEFINE n == [r EXCEPT !.pc = "position", !.todo = [p \in Open |-> rows[p].qty]]
  <2>1. handler' = [handler EXCEPT ![h] = n]
    BY <1>0, <1>6 DEF FindPositions
  <2>2. [p \in Open |-> rows[p].qty] \in Todos
    BY LoadedRows DEF TypeOK
  <2>3. Continues(n)
    <3> HIDE DEF Todos
    <3> QED
      BY <1>0, <2>2 DEF HandlerType, Continues, Pcs, Choosing, Inside
  <2> QED
    BY <2>1, <2>3, <1>1 DEF Continues
<1>7. CASE NextPosition(h)
  <2> DEFINE todo == r.todo
             free == DOMAIN todo \ executing
  <2>1. todo \in Todos
    BY <1>0 DEF HandlerType
  <2>2. ASSUME NEW p \in free, NEW skipped \in SUBSET (DOMAIN todo \cap executing),
               handler' = [handler EXCEPT
                  ![h].pc = "query", ![h].pos = p, ![h].qty = todo[p],
                  ![h].todo = [q \in DOMAIN todo \ ({p} \cup skipped) |-> todo[q]]]
        PROVE  HandlersTyped'
    <3> DEFINE left == [q \in DOMAIN todo \ ({p} \cup skipped) |-> todo[q]]
               n == [r EXCEPT !.pc = "query", !.pos = p, !.qty = todo[p], !.todo = left]
    <3>1. p \in Positions /\ todo[p] \in Nat /\ left \in Todos
      BY <2>1, TodoRows
    <3>2. handler' = [handler EXCEPT ![h] = n]
      BY <1>0, <2>2
    <3>3. Continues(n)
      <4> HIDE DEF left
      <4> QED
        BY <1>0, <3>1 DEF HandlerType, Continues, Pcs, Inside
    <3> QED
      BY <3>2, <3>3, <1>1 DEF Continues
  <2>3. free = {} => handler' = [handler EXCEPT ![h] = Idle]
    BY <1>7 DEF NextPosition
  <2>4. free # {} => \E p \in free : \E skipped \in SUBSET (DOMAIN todo \cap executing) :
               handler' = [handler EXCEPT
                  ![h].pc = "query", ![h].pos = p, ![h].qty = todo[p],
                  ![h].todo = [q \in DOMAIN todo \ ({p} \cup skipped) |-> todo[q]]]
    BY <1>7 DEF NextPosition
  <2> HIDE DEF free, todo
  <2> QED
    BY <2>2, <2>3, <2>4, <1>4
<1>8. CASE FindTargets(h)
  <2> DEFINE n == [r EXCEPT !.pc = "target", !.list = Targets \ hit[r.pos]]
  <2>1. handler' = [handler EXCEPT ![h] = n]
    BY <1>0, <1>8 DEF FindTargets
  <2>2. r.pos \in Positions
    BY <1>0, <1>8 DEF FindTargets, Continues, Choosing
  <2>3. Continues(n)
    BY <1>0, <2>2 DEF HandlerType, Continues, Pcs, Inside
  <2> QED
    BY <2>1, <2>3, <1>1 DEF Continues
<1>9. CASE NextTarget(h)
  <2> DEFINE n == [Idle EXCEPT !.pc = "position", !.price = r.price, !.todo = r.todo]
  <2>1. Continues(n)
    BY <1>0, IdleTyped DEF HandlerType, Continues, Pcs, Choosing, Inside
  <2>2. LeaveTargets(h) => HandlersTyped'
    BY <2>1, <1>1 DEF LeaveTargets, Continues
  <2>3. r.pos \in Positions
    BY <1>0, <1>9 DEF NextTarget, Continues, Choosing
  <2>4. ASSUME handler' = [handler EXCEPT ![h].list = Rest(@)] PROVE HandlersTyped'
    <3>1. handler' = [handler EXCEPT ![h].pc = "target", ![h].list = Rest(@)]
      BY <1>0, <1>9, <2>4 DEF NextTarget, HandlerType
    <3> QED
      BY <3>1, <2>3, <1>3
  <2>5. r.list # {} /\ Goto(h, "mark") => HandlersTyped'
    BY <1>0, <2>3, <1>2 DEF Pcs
  <2> QED
    BY <1>9, <2>2, <2>4, <2>5 DEF NextTarget
<1>10. CASE MarkHit(h)
  <2> DEFINE n == [r EXCEPT !.pc = "send", !.attempt = 1]
  <2>1. handler' = [handler EXCEPT ![h] = n]
    BY <1>0, <1>10 DEF MarkHit
  <2>2. 1 \in 0..MaxRetry /\ r.pc = "mark"
    BY <1>10, ManagerAssumption DEF ManagerAssumption, MarkHit
  <2>3. Continues(n)
    BY <1>0, <2>2 DEF HandlerType, Continues, Pcs, Choosing, Inside
  <2> QED
    BY <2>1, <2>3, <1>1 DEF Continues
<1>11. CASE SendPartialClose(h)
  <2> DEFINE n == [r EXCEPT !.pc = IF First(r.list) = 1 THEN "stop" ELSE "write", !.attempt = 0]
  <2>1. handler' = [handler EXCEPT ![h] = n]
    BY <1>0, <1>11 DEF SendPartialClose
  <2>2. 0 \in 0..MaxRetry /\ r.pc = "send"
    BY <1>11, ManagerAssumption DEF ManagerAssumption, SendPartialClose
  <2>3. Continues(n)
    BY <1>0, <2>2 DEF HandlerType, Continues, Pcs, Choosing, Inside
  <2> QED
    BY <2>1, <2>3, <1>1 DEF Continues
<1>12. CASE AttemptFails(h)
  <2> DEFINE pc == IF r.attempt < MaxRetry THEN "send" ELSE "revert"
             k == IF r.attempt < MaxRetry THEN r.attempt + 1 ELSE 0
             n == [r EXCEPT !.pc = pc, !.attempt = k]
  <2>1. handler' = [handler EXCEPT ![h] = n]
    BY <1>0, <1>12 DEF AttemptFails
  <2>2. r.pc = "send" /\ pc \in {"send", "revert"} /\ k \in 0..MaxRetry
    BY <1>0, <1>12, ManagerAssumption DEF ManagerAssumption, AttemptFails, HandlerType
  <2>3. Continues(n)
    <3> HIDE DEF pc, k
    <3> QED
      BY <1>0, <2>2 DEF HandlerType, Continues, Pcs, Choosing, Inside
  <2> HIDE DEF n
  <2> QED
    BY <2>1, <2>3, <1>1 DEF Continues
<1>13. CASE \/ MoveStop(h) \/ WriteStop(h) \/ StopFails(h) \/ RevertHit(h) \/ SafetyClose(h)
            \/ WriteClosed(h)
  <2>1. r.pos \in Positions /\ r.list # {}
    BY <1>0, <1>13 DEF MoveStop, WriteStop, StopFails, RevertHit, SafetyClose, WriteClosed,
                       Continues, Choosing, Inside
  <2>2. \E pc \in Pcs : handler' = [handler EXCEPT ![h].pc = pc]
    BY <1>13 DEF MoveStop, WriteStop, StopFails, RevertHit, SafetyClose, WriteClosed, Pcs
  <2> QED
    BY <2>1, <2>2, <1>2
<1>14. CASE WriteQty(h) \/ SafetyFails(h) \/ CountOpen(h) \/ Unsubscribe(h)
  <2>1. r.pos \in Positions /\ r.list # {}
    BY <1>0, <1>14 DEF WriteQty, SafetyFails, CountOpen, Unsubscribe,
                       Continues, Choosing, Inside
  <2>2. \/ handler' = [handler EXCEPT ![h].pc = "target", ![h].list = Rest(@)]
        \/ \E pc \in Pcs : handler' = [handler EXCEPT ![h].pc = pc]
    BY <1>14 DEF WriteQty, SafetyFails, CountOpen, Unsubscribe, Pcs
  <2> QED
    BY <2>1, <2>2, <1>2, <1>3
<1>15. CASE DbFails(h)
  BY <1>15, <1>4 DEF DbFails
<1> QED
  BY <1>5, <1>6, <1>7, <1>8, <1>9, <1>10, <1>11, <1>12, <1>13, <1>14, <1>15 DEF HandlerStep

(* What a handler has to send. *)
LEMMA CurrentTyped ==
  ASSUME HandlersTyped, NEW h \in Handlers, handler[h].pc \in Inside
  PROVE  /\ handler[h].pos \in Positions
         /\ First(handler[h].list) \in handler[h].list
         /\ First(handler[h].list) \in Targets
         /\ handler[h].qty \in Nat
         /\ TargetQty[First(handler[h].list)] \in Nat
<1>1. /\ handler[h] \in HandlerType /\ handler[h].list # {}
      /\ handler[h].pos \in Positions
  BY DEF HandlersTyped, Choosing, Inside
<1>2. handler[h].list \subseteq Targets /\ handler[h].qty \in Nat
  BY <1>1 DEF HandlerType
<1>3. First(handler[h].list) \in handler[h].list /\ First(handler[h].list) \in Targets
  BY <1>1, <1>2, FirstIsOne
<1> QED
  BY <1>1, <1>2, <1>3, ManagerAssumption DEF ManagerAssumption

(* The columns, the exchange and the history keep their types. *)
LEMMA TablesStep ==
  ASSUME IInv, [Next]_vars
  PROVE  /\ rows' \in [Positions -> Rows] /\ hit' \in [Positions -> SUBSET Targets]
         /\ exchange' \in [Positions -> Nat] /\ dust' \in [Positions -> Nat]
         /\ breakEven' \subseteq Positions /\ executing' \subseteq Positions
         /\ subscribed' \in BOOLEAN /\ events' \in Nat /\ faults' \in Nat
         /\ sold' \in [Positions -> [Targets -> Nat]]
         /\ cut' \subseteq Positions \X Targets
<1> USE DEF IInv, TypeOK, At, Goto, tables, account, budget
<1> DEFINE Good ==
      /\ rows' \in [Positions -> Rows] /\ hit' \in [Positions -> SUBSET Targets]
      /\ exchange' \in [Positions -> Nat] /\ dust' \in [Positions -> Nat]
      /\ breakEven' \subseteq Positions /\ executing' \subseteq Positions
      /\ subscribed' \in BOOLEAN /\ events' \in Nat /\ faults' \in Nat
      /\ sold' \in [Positions -> [Targets -> Nat]]
      /\ cut' \subseteq Positions \X Targets
<1>1. ASSUME NEW h \in Handlers,
             \/ OnMarkPriceUpdate(h) \/ FindPositions(h) \/ NextPosition(h)
             \/ FindTargets(h) \/ NextTarget(h) \/ StopFails(h)
             \/ CountOpen(h) \/ Unsubscribe(h)
      PROVE  Good
  <2>1. executing' \subseteq executing \cup {handler[h].pos}
    BY <1>1 DEF OnMarkPriceUpdate, FindPositions, NextPosition, FindTargets, NextTarget,
                StopFails, CountOpen, Unsubscribe, Return
  <2>2. executing' \subseteq Positions
    <3>1. CASE NextTarget(h)
      <4>1. handler[h].pos \in Positions
        BY <3>1 DEF NextTarget, HandlersTyped, Choosing
      <4> QED
        BY <2>1, <4>1
    <3>2. CASE ~ NextTarget(h)
      BY <1>1, <3>2 DEF OnMarkPriceUpdate, FindPositions, NextPosition, FindTargets,
                StopFails, CountOpen, Unsubscribe, Return
    <3> QED
      BY <3>1, <3>2
  <2>3. UNCHANGED <<rows, hit, exchange, breakEven, sold, cut, dust>>
    BY <1>1 DEF OnMarkPriceUpdate, FindPositions, NextPosition, FindTargets, NextTarget,
                StopFails, CountOpen, Unsubscribe
  <2>4. subscribed' \in BOOLEAN /\ events' \in Nat /\ faults' \in Nat
    <3>1. subscribed' = subscribed \/ subscribed' = FALSE
      BY <1>1 DEF OnMarkPriceUpdate, FindPositions, NextPosition, FindTargets, NextTarget,
                  StopFails, CountOpen, Unsubscribe
    <3>2. events' = events \/ (events > 0 /\ events' = events - 1)
      BY <1>1 DEF OnMarkPriceUpdate, FindPositions, NextPosition, FindTargets, NextTarget,
                  StopFails, CountOpen, Unsubscribe
    <3>3. faults' = faults \/ (faults > 0 /\ faults' = faults - 1)
      BY <1>1 DEF OnMarkPriceUpdate, FindPositions, NextPosition, FindTargets, NextTarget,
                  StopFails, CountOpen, Unsubscribe
    <3>4. subscribed \in BOOLEAN /\ events \in Nat /\ faults \in Nat
      OBVIOUS
    <3> HIDE DEF IInv, TypeOK
    <3>5. subscribed' \in BOOLEAN
      BY <3>1, <3>4
    <3>6. events' \in Nat
      BY <3>2, <3>4
    <3>7. faults' \in Nat
      BY <3>3, <3>4
    <3> QED
      BY <3>5, <3>6, <3>7
  <2> QED
    BY <2>2, <2>3, <2>4
<1>2. ASSUME NEW h \in Handlers, MarkHit(h) \/ RevertHit(h) PROVE Good
  <2>1. handler[h].pos \in Positions /\ First(handler[h].list) \in Targets
    BY <1>2, CurrentTyped DEF MarkHit, RevertHit, Inside
  <2> QED
    BY <1>2, <2>1 DEF MarkHit, RevertHit
<1>3. ASSUME NEW h \in Handlers, SendPartialClose(h) \/ AttemptFails(h) PROVE Good
  <2> DEFINE p == handler[h].pos
             t == First(handler[h].list)
             size == Truncate(TargetQty[t])
  <2>1. p \in Positions /\ t \in Targets /\ TargetQty[t] \in Nat
    BY <1>3, CurrentTyped DEF SendPartialClose, AttemptFails, Inside
  <2>2. size \in Nat /\ TargetQty[t] - size \in Nat
    BY <2>1, TruncateFits
  <2> HIDE DEF size
  <2>3. Fits(p, size) /\ Execute(p, size) => exchange' \in [Positions -> Nat]
    BY <2>1, <2>2 DEF Fits, Execute
  <2>4. sold' = [sold EXCEPT ![p][t] = @ + 1] => sold' \in [Positions -> [Targets -> Nat]]
    BY <2>1
  <2>5. CASE SendPartialClose(h)
    <3>1. /\ Fits(p, size) /\ Execute(p, size)
          /\ sold' = [sold EXCEPT ![p][t] = @ + 1]
          /\ dust' = [dust EXCEPT ![p] = @ + (TargetQty[t] - size)]
          /\ UNCHANGED <<rows, hit, breakEven, cut, executing, subscribed, events, faults>>
      BY <2>5 DEF SendPartialClose, size
    <3>2. dust' \in [Positions -> Nat]
      BY <2>1, <2>2, <3>1
    <3> QED
      BY <2>3, <2>4, <3>1, <3>2
  <2>6. CASE AttemptFails(h)
    <3>1. /\ \/ UNCHANGED <<exchange, sold>>
             \/ /\ Fits(p, size) /\ Execute(p, size)
                /\ sold' = [sold EXCEPT ![p][t] = @ + 1]
          /\ UNCHANGED <<rows, hit, breakEven, cut, dust, executing, subscribed, events>>
          /\ faults' \in Nat
      BY <2>6 DEF AttemptFails, size
    <3> QED
      BY <2>3, <2>4, <3>1
  <2> QED
    BY <1>3, <2>5, <2>6
<1>4. ASSUME NEW h \in Handlers, MoveStop(h) PROVE Good
  <2>1. handler[h].pos \in Positions
    BY <1>4, CurrentTyped DEF MoveStop, Inside
  <2> QED
    BY <1>4, <2>1 DEF MoveStop, UpdateSL
<1>5. ASSUME NEW h \in Handlers, WriteStop(h) \/ WriteQty(h) \/ WriteClosed(h) PROVE Good
  <2> DEFINE p == handler[h].pos
             q == TargetQty[First(handler[h].list)]
             left == IF q < handler[h].qty THEN handler[h].qty - q ELSE 0
  <2>1. p \in Positions /\ q \in Nat /\ handler[h].qty \in Nat
    BY <1>5, CurrentTyped DEF WriteStop, WriteQty, WriteClosed, Inside
  <2>2. rows' \in [Positions -> Rows]
    <3>1. ASSUME NEW r \in Rows, rows' = [rows EXCEPT ![p] = r]
          PROVE  rows' \in [Positions -> Rows]
      BY <2>1, <3>1
    <3>2. rows \in [Positions -> Rows] /\ rows[p] \in Rows
      BY <2>1
    <3>3. CASE WriteStop(h)
      <4>1. rows' = [rows EXCEPT ![p] = [rows[p] EXCEPT !.safe = TRUE]]
        BY <3>2, <3>3 DEF WriteStop
      <4>2. [rows[p] EXCEPT !.safe = TRUE] \in Rows
        BY <3>2 DEF Rows
      <4> QED
        BY <3>1, <4>1, <4>2
    <3>4. CASE WriteClosed(h)
      <4>1. rows' = [rows EXCEPT ![p] = [rows[p] EXCEPT !.closed = TRUE, !.qty = 0]]
        BY <3>2, <3>4 DEF WriteClosed
      <4>2. [rows[p] EXCEPT !.closed = TRUE, !.qty = 0] \in Rows
        BY <3>2 DEF Rows
      <4> QED
        BY <3>1, <4>1, <4>2
    <3>5. CASE WriteQty(h)
      <4>1. left \in Nat /\ (left = 0) \in BOOLEAN
        BY <2>1
      <4>2. rows' = [rows EXCEPT ![p] = [rows[p] EXCEPT !.qty = left, !.closed = (left = 0)]]
        BY <3>2, <3>5 DEF WriteQty
      <4> HIDE DEF left
      <4>3. [rows[p] EXCEPT !.qty = left, !.closed = (left = 0)] \in Rows
        BY <3>2, <4>1 DEF Rows
      <4> QED
        BY <3>1, <4>2, <4>3
    <3> QED
      BY <1>5, <3>3, <3>4, <3>5
  <2>3. executing' \subseteq executing
    BY <1>5 DEF WriteStop, WriteQty, WriteClosed, Return
  <2>4. UNCHANGED <<hit, exchange, breakEven, sold, cut, dust, subscribed, events, faults>>
    BY <1>5 DEF WriteStop, WriteQty, WriteClosed
  <2> QED
    BY <2>2, <2>3, <2>4
<1>6. ASSUME NEW h \in Handlers, SafetyClose(h) \/ SafetyFails(h) PROVE Good
  <2> DEFINE p == handler[h].pos
             size == Truncate(handler[h].qty)
  <2>1. p \in Positions /\ handler[h].qty \in Nat
    BY <1>6, CurrentTyped DEF SafetyClose, SafetyFails, Inside
  <2>2. size \in Nat /\ handler[h].qty - size \in Nat
    BY <2>1, TruncateFits
  <2> HIDE DEF size
  <2>3. Fits(p, size) /\ Execute(p, size) => exchange' \in [Positions -> Nat]
    BY <2>1, <2>2 DEF Fits, Execute
  <2>4. CASE SafetyClose(h)
    <3>1. /\ Fits(p, size) /\ Execute(p, size)
          /\ dust' = [dust EXCEPT ![p] = @ + (handler[h].qty - size)]
          /\ UNCHANGED <<rows, hit, breakEven, sold, cut, executing, subscribed, events, faults>>
      BY <2>4 DEF SafetyClose, size
    <3>2. dust' \in [Positions -> Nat]
      BY <2>1, <2>2, <3>1
    <3> QED
      BY <2>3, <3>1, <3>2
  <2>5. CASE SafetyFails(h)
    <3>1. /\ UNCHANGED exchange \/ (Fits(p, size) /\ Execute(p, size))
          /\ UNCHANGED <<rows, hit, breakEven, sold, cut, dust, subscribed, events>>
          /\ faults' \in Nat /\ executing' \subseteq executing
      BY <2>5 DEF SafetyFails, Return, size
    <3> QED
      BY <2>3, <3>1
  <2> QED
    BY <1>6, <2>4, <2>5
<1>7. ASSUME NEW h \in Handlers, DbFails(h) PROVE Good
  <2>1. handler[h].pc \in Inside => Current(h) \in Positions \X Targets
    BY CurrentTyped DEF Current
  <2> QED
    BY <1>7, <2>1 DEF DbFails
<1>8. ASSUME Restart PROVE Good
  <2>1. \A h \in Handlers : handler[h].pc \in Inside => Current(h) \in Positions \X Targets
    BY CurrentTyped DEF Current
  <2> QED
    BY <1>8, <2>1 DEF Restart
<1>9. ASSUME NEW p \in Positions, ExchangeCloses(p) PROVE Good
  <2>1. PICK left \in 0..exchange[p] : exchange' = [exchange EXCEPT ![p] = left]
    BY <1>9 DEF ExchangeCloses
  <2> QED
    BY <1>9, <2>1 DEF ExchangeCloses
<1>10. ASSUME UNCHANGED vars PROVE Good
  BY <1>10 DEF vars
<1> HIDE DEF Good, IInv, TypeOK, At, Goto, tables, account, budget
<1>11. Good
  <2>1. ASSUME NEW h \in Handlers, HandlerStep(h) PROVE Good
    BY <1>1, <1>2, <1>3, <1>4, <1>5, <1>6, <2>1 DEF HandlerStep
  <2>2. ASSUME NEW h \in Handlers, OnMarkPriceUpdate(h) PROVE Good
    BY <1>1, <2>2
  <2>3. Next => Good
    BY <1>7, <1>8, <1>9, <2>1, <2>2 DEF Next
  <2> QED
    BY <1>10, <2>3
<1> QED
  BY <1>11 DEF Good

(* Handlers of the right type are what the type invariant asks of them. *)
LEMMA HandlerColumns ==
  HandlersTyped => \A h \in Handlers :
         /\ handler[h].pc \in Pcs /\ handler[h].price \in Nat
         /\ DOMAIN handler[h].todo \subseteq Positions
         /\ handler[h].pos \in Positions \cup {"none"} /\ handler[h].qty \in Nat
         /\ handler[h].list \subseteq Targets /\ handler[h].attempt \in 0..MaxRetry
         /\ handler[h].pc \in Inside => handler[h].list # {}
<1> SUFFICES ASSUME HandlersTyped, NEW h \in Handlers
             PROVE  /\ handler[h].pc \in Pcs /\ handler[h].price \in Nat
                    /\ DOMAIN handler[h].todo \subseteq Positions
                    /\ handler[h].pos \in Positions \cup {"none"} /\ handler[h].qty \in Nat
                    /\ handler[h].list \subseteq Targets /\ handler[h].attempt \in 0..MaxRetry
                    /\ handler[h].pc \in Inside => handler[h].list # {}
  OBVIOUS
<1>1. handler[h] \in HandlerType /\ (handler[h].pc \in Inside => handler[h].list # {})
  BY DEF HandlersTyped
<1> QED
  BY <1>1, TodoRows DEF HandlerType

(* Every step keeps the types. *)
LEMMA TypeStep == IInv /\ [Next]_vars => TypeOK' /\ HandlersTyped'
<1> SUFFICES ASSUME IInv, [Next]_vars PROVE TypeOK' /\ HandlersTyped'
  OBVIOUS
<1>1. HandlersTyped'
  <2>1. CASE Restart
    <3>1. handler' = [h \in Handlers |-> Idle]
      BY <2>1 DEF Restart
    <3> QED
      BY <3>1, IdleTyped DEF HandlersTyped, Choosing, Inside
  <2>2. CASE UNCHANGED vars \/ \E p \in Positions : ExchangeCloses(p)
    BY <2>2 DEF vars, ExchangeCloses, IInv, HandlersTyped
  <2> QED
    BY <2>1, <2>2, HandlersStep DEF Next
<1>2. (HandlersTyped => \A h \in Handlers :
          /\ handler[h].pc \in Pcs /\ handler[h].price \in Nat
          /\ DOMAIN handler[h].todo \subseteq Positions
          /\ handler[h].pos \in Positions \cup {"none"} /\ handler[h].qty \in Nat
          /\ handler[h].list \subseteq Targets /\ handler[h].attempt \in 0..MaxRetry
          /\ handler[h].pc \in Inside => handler[h].list # {})'
  BY HandlerColumns, PTL
<1> QED
  BY <1>1, <1>2, TablesStep DEF TypeOK

-----------------------------------------------------------------------------
(* The table against the exchange.                                         *)

(* An order takes its size from the account, and what truncation kept back    *)
(* goes to the dust: what is held grows only smaller, the dust only larger.   *)
LEMMA ShrinkStep ==
  ASSUME IInv, [Next]_vars
  PROVE  \A p \in Positions : exchange'[p] <= exchange[p] /\ dust[p] <= dust'[p]
<1> USE DEF IInv, TypeOK, At, account
<1>1. ASSUME NEW h \in Handlers, SendPartialClose(h) \/ AttemptFails(h), NEW q \in Positions
      PROVE  exchange'[q] <= exchange[q] /\ dust[q] <= dust'[q]
  <2> DEFINE p == handler[h].pos
             t == First(handler[h].list)
             size == Truncate(TargetQty[t])
  <2>1. p \in Positions /\ TargetQty[t] \in Nat
    BY <1>1, CurrentTyped DEF SendPartialClose, AttemptFails, Inside
  <2>2. size \in Nat /\ TargetQty[t] - size \in Nat
    BY <2>1, TruncateFits
  <2>3. \/ UNCHANGED exchange
        \/ exchange' = [exchange EXCEPT ![p] = @ - size]
    BY <1>1 DEF SendPartialClose, AttemptFails, Execute, size
  <2>4. \/ UNCHANGED dust
        \/ dust' = [dust EXCEPT ![p] = @ + (TargetQty[t] - size)]
    BY <1>1 DEF SendPartialClose, AttemptFails, size
  <2> HIDE DEF size, p, t
  <2> QED
    BY <2>1, <2>2, <2>3, <2>4
<1>2. ASSUME NEW h \in Handlers, SafetyClose(h) \/ SafetyFails(h), NEW q \in Positions
      PROVE  exchange'[q] <= exchange[q] /\ dust[q] <= dust'[q]
  <2> DEFINE p == handler[h].pos
             size == Truncate(handler[h].qty)
  <2>1. p \in Positions /\ handler[h].qty \in Nat
    BY <1>2, CurrentTyped DEF SafetyClose, SafetyFails, Inside
  <2>2. size \in Nat /\ handler[h].qty - size \in Nat
    BY <2>1, TruncateFits
  <2>3. \/ UNCHANGED exchange
        \/ exchange' = [exchange EXCEPT ![p] = @ - size]
    BY <1>2 DEF SafetyClose, SafetyFails, Execute, size
  <2>4. \/ UNCHANGED dust
        \/ dust' = [dust EXCEPT ![p] = @ + (handler[h].qty - size)]
    BY <1>2 DEF SafetyClose, SafetyFails, size
  <2> HIDE DEF size, p
  <2> QED
    BY <2>1, <2>2, <2>3, <2>4
<1>3. ASSUME NEW p \in Positions, ExchangeCloses(p), NEW q \in Positions
      PROVE  exchange'[q] <= exchange[q] /\ dust[q] <= dust'[q]
  <2>1. PICK left \in 0..exchange[p] : exchange' = [exchange EXCEPT ![p] = left]
    BY <1>3 DEF ExchangeCloses
  <2>2. dust' = dust /\ exchange[p] \in Nat /\ exchange[q] \in Nat /\ dust[q] \in Nat
    BY <1>3 DEF ExchangeCloses
  <2>3. exchange'[q] = IF q = p THEN left ELSE exchange[q]
    BY <2>1
  <2> HIDE DEF IInv, TypeOK
  <2> QED
    BY <2>1, <2>2, <2>3
<1>4. ASSUME UNCHANGED <<exchange, dust>>, NEW q \in Positions
      PROVE  exchange'[q] <= exchange[q] /\ dust[q] <= dust'[q]
  BY <1>4
<1>5. \/ UNCHANGED <<exchange, dust>>
      \/ \E h \in Handlers : \/ SendPartialClose(h) \/ AttemptFails(h)
                             \/ SafetyClose(h) \/ SafetyFails(h)
      \/ \E p \in Positions : ExchangeCloses(p)
  <2> HIDE DEF IInv, TypeOK
  <2>1. ASSUME NEW h \in Handlers, OnMarkPriceUpdate(h) \/ HandlerStep(h) \/ DbFails(h)
        PROVE  \/ UNCHANGED <<exchange, dust>>
               \/ SendPartialClose(h) \/ AttemptFails(h)
               \/ SafetyClose(h) \/ SafetyFails(h)
    BY <2>1 DEF HandlerStep, OnMarkPriceUpdate, FindPositions, NextPosition, FindTargets,
                NextTarget, MarkHit, MoveStop, WriteStop, StopFails, WriteQty, RevertHit,
                WriteClosed, CountOpen, Unsubscribe, DbFails
  <2>2. Restart \/ UNCHANGED vars => UNCHANGED <<exchange, dust>>
    BY DEF Restart, vars
  <2> QED
    BY <2>1, <2>2 DEF Next
<1> QED
  BY <1>1, <1>2, <1>3, <1>4, <1>5

(* What a handler that does nothing has loaded covers what Bitget holds after *)
(* any step of the others.                                                    *)
LEMMA OthersCover ==
  ASSUME IInv, [Next]_vars, NEW g \in Handlers, handler'[g] = handler[g]
  PROVE  LoadedCovers(g)'
<1>1. \A p \in Positions : exchange'[p] <= exchange[p] /\ dust[p] <= dust'[p]
  BY ShrinkStep
<1>2. \A p \in Positions : /\ exchange[p] \in Nat /\ dust[p] \in Nat
                           /\ exchange'[p] \in Nat /\ dust'[p] \in Nat
  BY TablesStep DEF IInv, TypeOK
<1>3. /\ LoadedCovers(g) /\ handler[g] \in HandlerType
      /\ handler[g].pc \notin Choosing => handler[g].pos \in Positions
  BY DEF IInv, Covers, HandlersTyped
<1>4. ASSUME NEW p \in DOMAIN handler[g].todo
      PROVE  exchange'[p] <= handler[g].todo[p] + dust'[p]
  <2>1. p \in Positions /\ handler[g].todo[p] \in Nat
    BY <1>3, TodoRows DEF HandlerType
  <2>2. exchange[p] <= handler[g].todo[p] + dust[p]
    BY <1>3 DEF LoadedCovers
  <2> QED
    BY <1>1, <1>2, <2>1, <2>2
<1>5. ASSUME handler[g].pc \notin Choosing
      PROVE  exchange'[handler[g].pos] + Pending(g) <= handler[g].qty + dust'[handler[g].pos]
  <2>1. Pending(g) \in Nat
    <3>1. CASE handler[g].pc \in {"stop", "stopRow", "write"}
      BY <3>1, CurrentTyped DEF Pending, Inside, IInv
    <3> QED
      BY <3>1 DEF Pending
  <2>2. exchange[handler[g].pos] + Pending(g) <= handler[g].qty + dust[handler[g].pos]
    BY <1>3, <1>5 DEF LoadedCovers
  <2>3. handler[g].qty \in Nat
    BY <1>3 DEF HandlerType
  <2> QED
    BY <1>1, <1>2, <1>3, <1>5, <2>1, <2>2, <2>3
<1>6. ASSUME handler[g].pc = "close"
      PROVE  exchange'[handler[g].pos] <= dust'[handler[g].pos]
  <2>1. exchange[handler[g].pos] <= dust[handler[g].pos] /\ handler[g].pos \in Positions
    BY <1>3, <1>6 DEF LoadedCovers, Choosing
  <2> QED
    BY <1>1, <1>2, <2>1
<1> QED
  BY <1>4, <1>5, <1>6 DEF LoadedCovers, Pending

(* A handler that goes on with the row it has chosen, and with nothing sold   *)
(* that is not written.                                                       *)
LEMMA SameRowCovers ==
  ASSUME IInv, [Next]_vars, NEW h \in Handlers, handler[h].pc \notin Choosing,
         handler'[h].todo = handler[h].todo, handler'[h].pos = handler[h].pos,
         handler'[h].qty = handler[h].qty,
         handler'[h].pc \notin {"stop", "stopRow", "write", "close"}
  PROVE  LoadedCovers(h)'
<1> DEFINE p == handler[h].pos
<1>1. \A q \in Positions : /\ exchange'[q] <= exchange[q] /\ dust[q] <= dust'[q]
                           /\ exchange[q] \in Nat /\ dust[q] \in Nat
                           /\ exchange'[q] \in Nat /\ dust'[q] \in Nat
  BY ShrinkStep, TablesStep DEF IInv, TypeOK
<1>2. LoadedCovers(h) /\ handler[h] \in HandlerType /\ p \in Positions
  BY DEF IInv, Covers, HandlersTyped
<1>3. ASSUME NEW q \in DOMAIN handler[h].todo
      PROVE  exchange'[q] <= handler[h].todo[q] + dust'[q]
  <2>1. q \in Positions /\ handler[h].todo[q] \in Nat
    BY <1>2, TodoRows DEF HandlerType
  <2>2. exchange[q] <= handler[h].todo[q] + dust[q]
    BY <1>2 DEF LoadedCovers
  <2> QED
    BY <1>1, <2>1, <2>2
<1>4. Pending(h) \in Nat /\ handler[h].qty \in Nat
  <2>1. CASE handler[h].pc \in {"stop", "stopRow", "write"}
    BY <2>1, <1>2, CurrentTyped DEF Pending, Inside, IInv
  <2> QED
    BY <2>1, <1>2 DEF Pending, HandlerType
<1>5. exchange[p] + Pending(h) <= handler[h].qty + dust[p]
  BY <1>2 DEF LoadedCovers
<1>6. exchange'[p] + 0 <= handler[h].qty + dust'[p]
  BY <1>1, <1>2, <1>4, <1>5
<1> QED
  BY <1>3, <1>6 DEF LoadedCovers, Pending

(* A handler that has chosen no row yet. *)
LEMMA ChoosingCovers ==
  ASSUME IInv, [Next]_vars, NEW h \in Handlers, handler'[h].pc \in Choosing,
         \/ handler'[h].todo = handler[h].todo
         \/ handler'[h].todo = <<>>
  PROVE  LoadedCovers(h)'
<1>1. \A q \in Positions : /\ exchange'[q] <= exchange[q] /\ dust[q] <= dust'[q]
                           /\ exchange[q] \in Nat /\ dust[q] \in Nat
                           /\ exchange'[q] \in Nat /\ dust'[q] \in Nat
  BY ShrinkStep, TablesStep DEF IInv, TypeOK
<1>2. LoadedCovers(h) /\ handler[h] \in HandlerType
  BY DEF IInv, Covers, HandlersTyped
<1>3. ASSUME NEW q \in DOMAIN handler[h].todo
      PROVE  exchange'[q] <= handler[h].todo[q] + dust'[q]
  <2>1. q \in Positions /\ handler[h].todo[q] \in Nat
    BY <1>2, TodoRows DEF HandlerType
  <2>2. exchange[q] <= handler[h].todo[q] + dust[q]
    BY <1>2 DEF LoadedCovers
  <2> QED
    BY <1>1, <2>1, <2>2
<1>4. DOMAIN <<>> = {}
  OBVIOUS
<1>5. handler'[h].pc # "close"
  BY DEF Choosing
<1> QED
  BY <1>3, <1>4, <1>5 DEF LoadedCovers

\* The steps of a handler by what they do to what it has loaded.
Chooses(h) == OnMarkPriceUpdate(h) \/ FindPositions(h) \/ NextPosition(h) \/ DbFails(h)
KeepsRow(h) ==
    \/ FindTargets(h) \/ MarkHit(h) \/ AttemptFails(h) \/ WriteQty(h) \/ RevertHit(h)
    \/ WriteClosed(h) \/ SafetyFails(h) \/ CountOpen(h) \/ Unsubscribe(h)
KeepsSale(h) == MoveStop(h) \/ WriteStop(h) \/ StopFails(h)
ActsAs(h) ==
    \/ Chooses(h) \/ KeepsRow(h) \/ KeepsSale(h)
    \/ NextTarget(h) \/ SendPartialClose(h) \/ SafetyClose(h)

(* These are all steps of a handler. *)
LEMMA ActsOf ==
  ASSUME NEW h \in Handlers, OnMarkPriceUpdate(h) \/ HandlerStep(h) \/ DbFails(h)
  PROVE  ActsAs(h)
BY DEF HandlerStep, ActsAs, Chooses, KeepsRow, KeepsSale

(* A step of a handler leaves the others alone. *)
LEMMA OneActs ==
  ASSUME HandlersTyped, NEW h \in Handlers, ActsAs(h), NEW g \in Handlers, g # h
  PROVE  handler'[g] = handler[g]
<1>1. handler \in [Handlers -> HandlerType]
  BY DEF HandlersTyped
<1>2. CASE Chooses(h)
  BY <1>1, <1>2 DEF Chooses, OnMarkPriceUpdate, FindPositions, NextPosition, DbFails
<1>3. CASE KeepsRow(h)
  BY <1>1, <1>3 DEF KeepsRow, FindTargets, MarkHit, AttemptFails, WriteQty, RevertHit,
                    WriteClosed, SafetyFails, CountOpen, Unsubscribe, Goto, Return
<1>4. CASE KeepsSale(h)
  BY <1>1, <1>4 DEF KeepsSale, MoveStop, WriteStop, StopFails, Goto
<1>5. CASE NextTarget(h) \/ SendPartialClose(h) \/ SafetyClose(h)
  BY <1>1, <1>5 DEF NextTarget, SendPartialClose, SafetyClose, LeaveTargets, Goto
<1> QED
  BY <1>2, <1>3, <1>4, <1>5 DEF ActsAs

(* What the acting handler has loaded, or has just sold, covers what is held. *)
LEMMA ActingCovers ==
  ASSUME IInv, [Next]_vars, NEW h \in Handlers, ActsAs(h)
  PROVE  LoadedCovers(h)'
<1> DEFINE r == handler[h]
           p == handler[h].pos
           t == First(handler[h].list)
<1>1. /\ handler \in [Handlers -> HandlerType] /\ r \in HandlerType
      /\ r.pc \notin Choosing => p \in Positions
  BY DEF IInv, HandlersTyped
<1>2. \A q \in Positions : exchange[q] \in Nat /\ dust[q] \in Nat
  BY DEF IInv, TypeOK
<1>3. LoadedCovers(h)
  BY DEF IInv, Covers
<1>4. CASE OnMarkPriceUpdate(h) \/ DbFails(h)
  <2>1. handler'[h].todo = <<>> /\ handler'[h].pc \in Choosing
    BY <1>1, <1>4, IdleTyped DEF OnMarkPriceUpdate, DbFails, Choosing, HandlerType
  <2> QED
    BY <2>1, ChoosingCovers
<1>5. CASE FindPositions(h)
  <2>1. /\ handler'[h].todo = [q \in Open |-> rows[q].qty]
        /\ handler'[h].pc = "position"
        /\ UNCHANGED <<exchange, dust>>
    BY <1>1, <1>5 DEF FindPositions, HandlerType, account
  <2>2. \A q \in Open : exchange[q] <= rows[q].qty + dust[q]
    BY DEF Open, IInv, Covers, TableBoundsExchange
  <2> QED
    BY <2>1, <2>2 DEF LoadedCovers, Choosing
<1>6. CASE NextPosition(h)
  <2> DEFINE todo == r.todo
             free == DOMAIN todo \ executing
  <2>1. CASE free = {}
    <3>1. handler'[h] = Idle
      BY <1>1, <1>6, <2>1 DEF NextPosition
    <3> QED
      BY <3>1, IdleTyped, ChoosingCovers DEF Choosing
  <2>2. CASE free # {}
    <3>1. PICK n \in free, skipped \in SUBSET (DOMAIN todo \cap executing) :
             handler' = [handler EXCEPT
                ![h].pc = "query", ![h].pos = n, ![h].qty = todo[n],
                ![h].todo = [q \in DOMAIN todo \ ({n} \cup skipped) |-> todo[q]]]
      BY <1>6, <2>2 DEF NextPosition
    <3>2. /\ handler'[h].pc = "query" /\ handler'[h].pos = n /\ handler'[h].qty = todo[n]
          /\ handler'[h].todo = [q \in DOMAIN todo \ ({n} \cup skipped) |-> todo[q]]
      BY <1>1, <3>1 DEF HandlerType
    <3>3. /\ todo \in Todos /\ n \in Positions /\ todo[n] \in Nat
          /\ exchange[n] <= todo[n] + dust[n]
      BY <1>1, <1>3, TodoRows DEF HandlerType, LoadedCovers
    <3>4. UNCHANGED <<exchange, dust>>
      BY <1>6 DEF NextPosition, account
    <3>5. \A q \in DOMAIN handler'[h].todo :
             q \in DOMAIN todo /\ handler'[h].todo[q] = todo[q]
      BY <3>2
    <3>6. \A q \in DOMAIN handler'[h].todo : exchange[q] <= handler'[h].todo[q] + dust[q]
      BY <1>3, <3>5 DEF LoadedCovers
    <3>7. exchange[n] + 0 <= todo[n] + dust[n]
      BY <1>2, <3>3
    <3> QED
      BY <3>2, <3>4, <3>6, <3>7 DEF LoadedCovers, Pending
  <2> QED
    BY <2>1, <2>2
<1>7. CASE NextTarget(h)
  <2>1. CASE LeaveTargets(h)
    <3>1. handler'[h].todo = r.todo /\ handler'[h].pc \in Choosing
      BY <1>1, <2>1, IdleTyped DEF LeaveTargets, HandlerType, Choosing
    <3> QED
      BY <3>1, ChoosingCovers
  <2>2. CASE ~ LeaveTargets(h)
    <3>1. /\ handler'[h].todo = r.todo /\ handler'[h].pos = p /\ handler'[h].qty = r.qty
          /\ r.pc = "target" /\ handler'[h].pc \in {"mark", "target"}
      BY <1>1, <1>7, <2>2 DEF NextTarget, HandlerType, Goto, At
    <3> QED
      BY <3>1, SameRowCovers DEF Choosing
  <2> QED
    BY <2>1, <2>2
<1>8. CASE KeepsRow(h)
  <2>1. /\ handler'[h].todo = r.todo /\ handler'[h].pos = p /\ handler'[h].qty = r.qty
        /\ r.pc \notin Choosing
        /\ handler'[h].pc \notin {"stop", "stopRow", "write", "close"}
    BY <1>1, <1>8 DEF KeepsRow, FindTargets, MarkHit, AttemptFails, WriteQty, RevertHit,
                WriteClosed, SafetyFails, CountOpen, Unsubscribe, Goto, Return, At,
                HandlerType, Choosing
  <2> QED
    BY <2>1, SameRowCovers
<1>9. CASE KeepsSale(h)
  <2>1. /\ handler'[h].todo = r.todo /\ handler'[h].pos = p /\ handler'[h].qty = r.qty
        /\ handler'[h].list = r.list
        /\ r.pc \in {"stop", "stopRow"} /\ handler'[h].pc \in {"stopRow", "write"}
        /\ UNCHANGED <<exchange, dust>>
    BY <1>1, <1>9 DEF KeepsSale, MoveStop, WriteStop, StopFails, Goto, At, HandlerType, account
  <2>2. Pending(h)' = Pending(h)
    BY <2>1 DEF Pending
  <2> QED
    BY <1>3, <2>1, <2>2 DEF LoadedCovers, Choosing
<1>10. CASE SendPartialClose(h)
  <2> DEFINE size == Truncate(TargetQty[t])
  <2>1. /\ p \in Positions /\ TargetQty[t] \in Nat /\ r.qty \in Nat
    BY <1>10, CurrentTyped DEF SendPartialClose, At, Inside, IInv
  <2>2. size \in Nat /\ TargetQty[t] - size \in Nat
    BY <2>1, TruncateFits
  <2> HIDE DEF size
  <2>3. /\ exchange' = [exchange EXCEPT ![p] = @ - size]
        /\ dust' = [dust EXCEPT ![p] = @ + (TargetQty[t] - size)]
    BY <1>10 DEF SendPartialClose, Execute, size
  <2>4. exchange[p] + 0 <= r.qty + dust[p]
    BY <1>3, <1>10 DEF LoadedCovers, Pending, SendPartialClose, At, Choosing
  <2>5. exchange'[p] = exchange[p] - size /\ dust'[p] = dust[p] + (TargetQty[t] - size)
    BY <2>1, <2>3 DEF IInv, TypeOK
  <2>6. exchange'[p] + TargetQty[t] <= r.qty + dust'[p]
    BY <1>2, <2>1, <2>2, <2>4, <2>5
  <2>7. /\ handler'[h].todo = r.todo /\ handler'[h].pos = p /\ handler'[h].qty = r.qty
        /\ handler'[h].list = r.list /\ handler'[h].pc \in {"stop", "write"}
    BY <1>1, <1>10 DEF SendPartialClose, HandlerType
  <2>8. Pending(h)' = TargetQty[t]
    BY <2>7 DEF Pending
  <2>9. \A q \in DOMAIN r.todo : exchange'[q] <= r.todo[q] + dust'[q]
    <3> TAKE q \in DOMAIN r.todo
    <3>1. q \in Positions /\ r.todo[q] \in Nat /\ exchange[q] <= r.todo[q] + dust[q]
      BY <1>1, <1>3, TodoRows DEF HandlerType, LoadedCovers
    <3>2. /\ exchange'[q] <= exchange[q] /\ dust[q] <= dust'[q]
          /\ exchange'[q] \in Nat /\ dust'[q] \in Nat
      BY <3>1, ShrinkStep, TablesStep
    <3> QED
      BY <1>2, <3>1, <3>2
  <2> QED
    BY <2>6, <2>7, <2>8, <2>9 DEF LoadedCovers
<1>11. CASE SafetyClose(h)
  <2> DEFINE size == Truncate(r.qty)
  <2>1. p \in Positions /\ r.qty \in Nat
    BY <1>11, CurrentTyped DEF SafetyClose, At, Inside, IInv
  <2>2. size \in Nat /\ r.qty - size \in Nat
    BY <2>1, TruncateFits
  <2> HIDE DEF size
  <2>3. /\ exchange' = [exchange EXCEPT ![p] = @ - size]
        /\ dust' = [dust EXCEPT ![p] = @ + (r.qty - size)]
    BY <1>11 DEF SafetyClose, Execute, size
  <2>4. exchange[p] + 0 <= r.qty + dust[p]
    BY <1>3, <1>11 DEF LoadedCovers, Pending, SafetyClose, At, Choosing
  <2>5. exchange'[p] = exchange[p] - size /\ dust'[p] = dust[p] + (r.qty - size)
    BY <2>1, <2>3 DEF IInv, TypeOK
  <2>6. exchange'[p] <= dust'[p] /\ exchange'[p] + 0 <= r.qty + dust'[p]
    <3>1. exchange[p] \in Nat /\ dust[p] \in Nat
      BY <1>2, <2>1
    <3> HIDE DEF r, p
    <3> QED
      BY <2>1, <2>2, <2>4, <2>5, <3>1
  <2>7. /\ handler'[h].todo = r.todo /\ handler'[h].pos = p /\ handler'[h].qty = r.qty
        /\ handler'[h].pc = "close"
    BY <1>1, <1>11 DEF SafetyClose, HandlerType, Goto
  <2>8. Pending(h)' = 0
    BY <2>7 DEF Pending
  <2>9. \A q \in DOMAIN r.todo : exchange'[q] <= r.todo[q] + dust'[q]
    <3> TAKE q \in DOMAIN r.todo
    <3>1. q \in Positions /\ r.todo[q] \in Nat /\ exchange[q] <= r.todo[q] + dust[q]
      BY <1>1, <1>3, TodoRows DEF HandlerType, LoadedCovers
    <3>2. /\ exchange'[q] <= exchange[q] /\ dust[q] <= dust'[q]
          /\ exchange'[q] \in Nat /\ dust'[q] \in Nat
      BY <3>1, ShrinkStep, TablesStep
    <3> QED
      BY <1>2, <3>1, <3>2
  <2> QED
    BY <2>6, <2>7, <2>8, <2>9 DEF LoadedCovers
<1> QED
  BY <1>4, <1>5, <1>6, <1>7, <1>8, <1>9, <1>10, <1>11 DEF ActsAs, Chooses

(* A quantity is written from a loaded row less what was sold, so it covers.  *)
LEMMA TableStep == IInv /\ [Next]_vars => TableBoundsExchange'
<1> SUFFICES ASSUME IInv, [Next]_vars, NEW q \in Positions
             PROVE  exchange'[q] <= rows'[q].qty + dust'[q]
  BY DEF TableBoundsExchange
<1>1. /\ exchange'[q] <= exchange[q] /\ dust[q] <= dust'[q]
      /\ exchange[q] \in Nat /\ dust[q] \in Nat
      /\ exchange'[q] \in Nat /\ dust'[q] \in Nat
      /\ exchange[q] <= rows[q].qty + dust[q]
      /\ rows \in [Positions -> Rows] /\ rows[q] \in Rows /\ rows[q].qty \in Nat
  BY ShrinkStep, TablesStep DEF IInv, TypeOK, Covers, TableBoundsExchange, Rows
<1>2. ASSUME rows'[q].qty = rows[q].qty PROVE exchange'[q] <= rows'[q].qty + dust'[q]
  BY <1>1, <1>2
<1>3. ASSUME NEW h \in Handlers, WriteStop(h) PROVE rows'[q].qty = rows[q].qty
  BY <1>1, <1>3 DEF WriteStop, Rows
<1>4. ASSUME NEW h \in Handlers, WriteClosed(h)
      PROVE  exchange'[q] <= rows'[q].qty + dust'[q]
  <2> DEFINE p == handler[h].pos
  <2>1. p \in Positions /\ exchange[p] <= dust[p]
    BY <1>4 DEF WriteClosed, At, IInv, HandlersTyped, Covers, LoadedCovers, Choosing
  <2>2. UNCHANGED <<exchange, dust>>
    BY <1>4 DEF WriteClosed, account
  <2>3. CASE q = p
    <3>1. rows'[q].qty = 0
      BY <1>1, <1>4, <2>3 DEF WriteClosed, Rows
    <3> QED
      BY <1>1, <2>1, <2>2, <2>3, <3>1
  <2>4. CASE q # p
    <3>1. rows'[q] = rows[q]
      BY <1>1, <1>4, <2>4 DEF WriteClosed
    <3> QED
      BY <1>2, <3>1
  <2> QED
    BY <2>3, <2>4
<1>5. ASSUME NEW h \in Handlers, WriteQty(h)
      PROVE  exchange'[q] <= rows'[q].qty + dust'[q]
  <2> DEFINE p == handler[h].pos
             n == TargetQty[First(handler[h].list)]
             left == IF n < handler[h].qty THEN handler[h].qty - n ELSE 0
  <2>1. p \in Positions /\ n \in Nat /\ handler[h].qty \in Nat
    BY <1>5, CurrentTyped DEF WriteQty, At, Inside, IInv
  <2>2. exchange[p] + n <= handler[h].qty + dust[p]
    BY <1>5 DEF WriteQty, At, IInv, Covers, LoadedCovers, Choosing, Pending
  <2>3. UNCHANGED <<exchange, dust>>
    BY <1>5 DEF WriteQty, account
  <2>4. rows' = [rows EXCEPT ![p].qty = left, ![p].closed = (left = 0)]
    BY <1>5 DEF WriteQty
  <2>5. CASE q = p
    <3>1. rows'[q].qty = left
      <4> HIDE DEF left
      <4> QED
        BY <1>1, <2>4, <2>5 DEF Rows
    <3>2. exchange[p] \in Nat /\ dust[p] \in Nat
      BY <1>1, <2>5
    <3>3. exchange[p] <= left + dust[p]
      <4> HIDE DEF p, n
      <4> QED
        BY <2>1, <2>2, <3>2 DEF left
    <3> QED
      BY <2>3, <2>5, <3>1, <3>3
  <2>6. CASE q # p
    <3>1. rows'[q] = rows[q]
      BY <1>1, <2>4, <2>6
    <3> QED
      BY <1>2, <3>1
  <2> QED
    BY <2>5, <2>6
<1>6. \/ rows' = rows
      \/ \E h \in Handlers : WriteStop(h) \/ WriteClosed(h) \/ WriteQty(h)
  <2>1. ASSUME NEW h \in Handlers, ActsAs(h), rows' # rows
        PROVE  WriteStop(h) \/ WriteClosed(h) \/ WriteQty(h)
    BY <2>1 DEF ActsAs, Chooses, KeepsRow, KeepsSale, OnMarkPriceUpdate, FindPositions,
                NextPosition, DbFails, FindTargets, MarkHit, AttemptFails, RevertHit,
                SafetyFails, CountOpen, Unsubscribe, MoveStop, StopFails, NextTarget,
                SendPartialClose, SafetyClose, tables
  <2>2. Restart \/ UNCHANGED vars \/ (\E p \in Positions : ExchangeCloses(p)) => rows' = rows
    BY DEF Restart, vars, ExchangeCloses, tables
  <2> QED
    BY <2>1, <2>2, ActsOf DEF Next
<1> QED
  BY <1>2, <1>3, <1>4, <1>5, <1>6

(* Every step keeps the table and all that is loaded above the exchange. *)
LEMMA CoverStep == IInv /\ [Next]_vars => Covers'
<1> SUFFICES ASSUME IInv, [Next]_vars PROVE Covers'
  OBVIOUS
<1>1. TableBoundsExchange'
  BY TableStep
<1>2. ASSUME NEW g \in Handlers PROVE LoadedCovers(g)'
  <2>1. CASE \E h \in Handlers : ActsAs(h)
    <3>1. PICK h \in Handlers : ActsAs(h)
      BY <2>1
    <3>2. CASE g = h
      BY <3>1, <3>2, ActingCovers
    <3>3. CASE g # h
      <4>1. handler'[g] = handler[g]
        BY <3>1, <3>3, OneActs DEF IInv
      <4> QED
        BY <4>1, OthersCover
    <3> QED
      BY <3>2, <3>3
  <2>2. CASE Restart
    <3>1. handler'[g] = Idle
      BY <2>2 DEF Restart
    <3> QED
      BY <3>1, IdleTyped, ChoosingCovers DEF Choosing
  <2>3. CASE UNCHANGED vars \/ \E p \in Positions : ExchangeCloses(p)
    <3>1. handler'[g] = handler[g]
      BY <2>3 DEF vars, ExchangeCloses
    <3> QED
      BY <3>1, OthersCover
  <2> QED
    BY <2>1, <2>2, <2>3, ActsOf DEF Next
<1> QED
  BY <1>1, <1>2 DEF Covers

-----------------------------------------------------------------------------
(* The lock.                                                               *)

(* The ways a handler's step deals with the lock: it stays where it is, inside *)
(* or outside; it enters with a position nobody holds; or it leaves.           *)
LEMMA LockMoves ==
  ASSUME IInv, NEW h \in Handlers, ActsAs(h)
  PROVE  LET p == handler[h].pos IN
         \/ /\ handler[h].pc \in Inside <=> handler'[h].pc \in Inside
            /\ handler[h].pc \in Inside => handler'[h].pos = p
            /\ executing' = executing
         \/ /\ handler[h].pc \notin Inside /\ handler'[h].pc \in Inside
            /\ handler'[h].pos = p /\ p \notin executing
            /\ executing' = executing \cup {p}
         \/ /\ handler[h].pc \in Inside /\ handler'[h].pc \notin Inside
            /\ executing' = executing \ {p}
<1> DEFINE r == handler[h]
<1>1. handler \in [Handlers -> HandlerType] /\ r \in HandlerType
  BY DEF IInv, HandlersTyped
<1> USE DEF At, Goto, Return, HandlerType, Inside
<1>2. CASE OnMarkPriceUpdate(h)
  <2>1. r.pc = "idle" /\ handler'[h].pc = "find" /\ executing' = executing
    BY <1>1, <1>2, IdleTyped DEF OnMarkPriceUpdate
  <2> QED
    BY <2>1
<1>3. CASE FindPositions(h)
  <2>1. r.pc = "find" /\ handler'[h].pc = "position" /\ executing' = executing
    BY <1>1, <1>3 DEF FindPositions
  <2> QED
    BY <2>1
<1>4. CASE NextPosition(h)
  <2> DEFINE free == DOMAIN r.todo \ executing
  <2>1. r.pc = "position" /\ handler'[h].pc \in {"idle", "query"} /\ executing' = executing
    <3>1. CASE free = {}
      BY <1>1, <1>4, <3>1, IdleTyped DEF NextPosition
    <3>2. CASE free # {}
      <4>1. PICK n \in free, skipped \in SUBSET (DOMAIN r.todo \cap executing) :
               handler' = [handler EXCEPT
                  ![h].pc = "query", ![h].pos = n, ![h].qty = r.todo[n],
                  ![h].todo = [q \in DOMAIN r.todo \ ({n} \cup skipped) |-> r.todo[q]]]
        BY <1>4, <3>2 DEF NextPosition
      <4> QED
        BY <1>1, <1>4, <4>1 DEF NextPosition
    <3> QED
      BY <3>1, <3>2
  <2> QED
    BY <2>1
<1>5. CASE DbFails(h)
  <2>1. handler'[h].pc = "idle"
    BY <1>1, <1>5, IdleTyped DEF DbFails
  <2> QED
    BY <1>5, <2>1 DEF DbFails
<1>6. CASE FindTargets(h)
  <2>1. r.pc = "query" /\ handler'[h].pc = "target" /\ executing' = executing
    BY <1>1, <1>6 DEF FindTargets
  <2> QED
    BY <2>1
<1>7. CASE NextTarget(h)
  <2>1. CASE LeaveTargets(h) /\ UNCHANGED executing
    <3>1. r.pc = "target" /\ handler'[h].pc = "position" /\ executing' = executing
      BY <1>1, <1>7, <2>1, IdleTyped DEF NextTarget, LeaveTargets
    <3> QED
      BY <3>1
  <2>2. CASE handler' = [handler EXCEPT ![h].list = Rest(@)] /\ UNCHANGED executing
    <3>1. r.pc = "target" /\ handler'[h].pc = "target" /\ executing' = executing
      BY <1>1, <1>7, <2>2 DEF NextTarget
    <3> QED
      BY <3>1
  <2>3. CASE r.pos \notin executing /\ Goto(h, "mark") /\ executing' = executing \cup {r.pos}
    <3>1. r.pc = "target" /\ handler'[h].pc = "mark" /\ handler'[h].pos = r.pos
      BY <1>1, <1>7, <2>3 DEF NextTarget
    <3> QED
      BY <2>3, <3>1
  <2> QED
    BY <1>7, <2>1, <2>2, <2>3 DEF NextTarget
<1>8. CASE \/ MarkHit(h) \/ AttemptFails(h) \/ RevertHit(h) \/ WriteClosed(h)
           \/ KeepsSale(h) \/ SendPartialClose(h) \/ SafetyClose(h)
  <2>1. /\ r.pc \in Inside /\ handler'[h].pc \in Inside
        /\ handler'[h].pos = r.pos /\ executing' = executing
    BY <1>1, <1>8 DEF MarkHit, AttemptFails, RevertHit, WriteClosed, SendPartialClose,
                SafetyClose, KeepsSale, MoveStop, WriteStop, StopFails
  <2> QED
    BY <2>1
<1>9. CASE WriteQty(h) \/ SafetyFails(h) \/ CountOpen(h) \/ Unsubscribe(h)
  <2>1. r.pc \in Inside
    BY <1>9 DEF WriteQty, SafetyFails, CountOpen, Unsubscribe
  <2>2. \/ /\ handler'[h].pc \in Inside /\ handler'[h].pos = r.pos /\ executing' = executing
        \/ handler'[h].pc = "target" /\ executing' = executing \ {r.pos}
    BY <1>1, <1>9 DEF WriteQty, SafetyFails, CountOpen, Unsubscribe
  <2> QED
    BY <2>1, <2>2
<1> QED
  BY <1>2, <1>3, <1>4, <1>5, <1>6, <1>7, <1>8, <1>9 DEF ActsAs, Chooses, KeepsRow

(* Every step keeps the lock exact. *)
LEMMA LockStep == IInv /\ [Next]_vars => LockExact'
<1> SUFFICES ASSUME IInv, [Next]_vars PROVE LockExact'
  OBVIOUS
<1> DEFINE In(g) == handler[g].pc \in Inside
<1>1. LockExact
  BY DEF IInv
<1>2. CASE \E h \in Handlers : ActsAs(h)
  <2>1. PICK h \in Handlers : ActsAs(h)
    BY <1>2
  <2> DEFINE p == handler[h].pos
  <2>2. \A g \in Handlers : g # h => handler'[g] = handler[g]
    BY <2>1, OneActs DEF IInv
  <2>3. CASE /\ In(h) <=> handler'[h].pc \in Inside
             /\ In(h) => handler'[h].pos = p
             /\ executing' = executing
    BY <1>1, <2>2, <2>3 DEF LockExact
  <2>4. CASE /\ ~ In(h) /\ handler'[h].pc \in Inside
             /\ handler'[h].pos = p /\ p \notin executing
             /\ executing' = executing \cup {p}
    <3>1. \A g \in Handlers : In(g) => handler[g].pos # p
      BY <1>1, <2>4 DEF LockExact
    <3>2. \A g \in Handlers : handler'[g].pc \in Inside => handler'[g].pos \in executing'
      BY <1>1, <2>2, <2>4 DEF LockExact
    <3>3. \A g, k \in Handlers :
             /\ handler'[g].pc \in Inside /\ handler'[k].pc \in Inside
             /\ handler'[g].pos = handler'[k].pos
             => g = k
      BY <1>1, <2>2, <2>4, <3>1 DEF LockExact
    <3>4. \A q \in executing' : \E g \in Handlers :
             handler'[g].pc \in Inside /\ handler'[g].pos = q
      <4> TAKE q \in executing'
      <4>1. CASE q = p
        BY <2>4, <4>1
      <4>2. CASE q # p
        <5>1. PICK g \in Handlers : In(g) /\ handler[g].pos = q
          BY <1>1, <2>4, <4>2 DEF LockExact
        <5>2. g # h
          BY <2>4, <5>1
        <5> QED
          BY <2>2, <5>1, <5>2
      <4> QED
        BY <4>1, <4>2
    <3> QED
      BY <3>2, <3>3, <3>4 DEF LockExact
  <2>5. CASE /\ In(h) /\ handler'[h].pc \notin Inside
             /\ executing' = executing \ {p}
    <3>1. \A g \in Handlers : g # h /\ In(g) => handler[g].pos # p
      BY <1>1, <2>5 DEF LockExact
    <3>2. \A g \in Handlers : handler'[g].pc \in Inside => handler'[g].pos \in executing'
      BY <1>1, <2>2, <2>5, <3>1 DEF LockExact
    <3>3. \A g, k \in Handlers :
             /\ handler'[g].pc \in Inside /\ handler'[k].pc \in Inside
             /\ handler'[g].pos = handler'[k].pos
             => g = k
      BY <1>1, <2>2, <2>5 DEF LockExact
    <3>4. \A q \in executing' : \E g \in Handlers :
             handler'[g].pc \in Inside /\ handler'[g].pos = q
      <4> TAKE q \in executing'
      <4>1. PICK g \in Handlers : In(g) /\ handler[g].pos = q
        BY <1>1, <2>5 DEF LockExact
      <4>2. g # h
        BY <2>5, <4>1
      <4> QED
        BY <2>2, <4>1, <4>2
    <3> QED
      BY <3>2, <3>3, <3>4 DEF LockExact
  <2> QED
    BY <2>1, <2>3, <2>4, <2>5, LockMoves
<1>3. CASE Restart
  <2>1. executing' = {} /\ \A g \in Handlers : handler'[g].pc \notin Inside
    BY <1>3, IdleTyped DEF Restart, Inside
  <2> QED
    BY <2>1 DEF LockExact
<1>4. CASE UNCHANGED vars \/ \E p \in Positions : ExchangeCloses(p)
  <2>1. UNCHANGED <<handler, executing>>
    BY <1>4 DEF vars, ExchangeCloses
  <2> QED
    BY <1>1, <2>1 DEF LockExact
<1> QED
  BY <1>2, <1>3, <1>4, ActsOf DEF Next

(* An exact lock is what OneExecutor says by counting. *)
LEMMA LockCounts == LockExact => OneExecutor
<1> SUFFICES ASSUME LockExact, NEW p \in Positions
             PROVE  Cardinality({h \in Handlers : handler[h].pc \in Inside /\ handler[h].pos = p})
                       = IF p \in executing THEN 1 ELSE 0
  BY DEF OneExecutor
<1> DEFINE H == {h \in Handlers : handler[h].pc \in Inside /\ handler[h].pos = p}
<1>1. CASE p \in executing
  <2>1. PICK h \in Handlers : handler[h].pc \in Inside /\ handler[h].pos = p
    BY <1>1 DEF LockExact
  <2>2. H = {h}
    BY <2>1 DEF LockExact
  <2> QED
    BY <1>1, <2>2, FS_Singleton
<1>2. CASE p \notin executing
  <2>1. H = {}
    BY <1>2 DEF LockExact
  <2> QED
    BY <1>2, <2>1, FS_EmptySet
<1> QED
  BY <1>1, <1>2

-----------------------------------------------------------------------------
(* The marks.                                                              *)

(* Sales and cuts are never forgotten. *)
LEMMA HistoryStep ==
  ASSUME IInv, [Next]_vars
  PROVE  /\ cut \subseteq cut'
         /\ \A p \in Positions : \A t \in Targets : sold[p][t] >= 1 => sold'[p][t] >= 1
<1>1. \/ UNCHANGED sold
      \/ \E h \in Handlers :
            /\ SendPartialClose(h) \/ AttemptFails(h)
            /\ sold' = [sold EXCEPT ![handler[h].pos][First(handler[h].list)] = @ + 1]
  <2>1. ASSUME NEW h \in Handlers, ActsAs(h)
        PROVE  \/ UNCHANGED sold
               \/ /\ SendPartialClose(h) \/ AttemptFails(h)
                  /\ sold' = [sold EXCEPT ![handler[h].pos][First(handler[h].list)] = @ + 1]
    BY <2>1 DEF ActsAs, Chooses, KeepsRow, KeepsSale, OnMarkPriceUpdate, FindPositions,
                NextPosition, DbFails, FindTargets, MarkHit, AttemptFails, RevertHit, WriteQty,
                WriteClosed, WriteStop, SafetyFails, CountOpen, Unsubscribe, MoveStop,
                StopFails, NextTarget, SendPartialClose, SafetyClose, account
  <2>2. Restart \/ UNCHANGED vars \/ (\E p \in Positions : ExchangeCloses(p)) => UNCHANGED sold
    BY DEF Restart, vars, ExchangeCloses
  <2> QED
    BY <2>1, <2>2, ActsOf DEF Next
<1>2. cut \subseteq cut'
  <2>1. ASSUME NEW h \in Handlers, ActsAs(h) PROVE cut \subseteq cut'
    BY <2>1 DEF ActsAs, Chooses, KeepsRow, KeepsSale, OnMarkPriceUpdate, FindPositions,
                NextPosition, DbFails, FindTargets, MarkHit, AttemptFails, RevertHit, WriteQty,
                WriteClosed, WriteStop, SafetyFails, CountOpen, Unsubscribe, MoveStop,
                StopFails, NextTarget, SendPartialClose, SafetyClose, account
  <2>2. Restart \/ UNCHANGED vars \/ (\E p \in Positions : ExchangeCloses(p)) => cut \subseteq cut'
    BY DEF Restart, vars, ExchangeCloses
  <2> QED
    BY <2>1, <2>2, ActsOf DEF Next
<1>3. ASSUME NEW p \in Positions, NEW t \in Targets, sold[p][t] >= 1
      PROVE  sold'[p][t] >= 1
  <2>1. sold \in [Positions -> [Targets -> Nat]]
    BY DEF IInv, TypeOK
  <2>2. CASE UNCHANGED sold
    BY <1>3, <2>2
  <2>3. CASE ~ UNCHANGED sold
    <3>1. PICK h \in Handlers :
            /\ SendPartialClose(h) \/ AttemptFails(h)
            /\ sold' = [sold EXCEPT ![handler[h].pos][First(handler[h].list)] = @ + 1]
      BY <1>1, <2>3
    <3>2. handler[h].pos \in Positions /\ First(handler[h].list) \in Targets
      BY <3>1, CurrentTyped DEF SendPartialClose, AttemptFails, At, Inside, IInv
    <3>3. sold'[p][t] = sold[p][t] \/ sold'[p][t] = sold[p][t] + 1
      BY <2>1, <3>1, <3>2
    <3>4. sold[p][t] \in Nat
      BY <2>1
    <3> QED
      BY <1>3, <3>3, <3>4
  <2> QED
    BY <2>2, <2>3
<1> QED
  BY <1>2, <1>3

(* Only MarkHit marks, and then the order is about to be sent. *)
LEMMA MarkMoves ==
  ASSUME IInv, NEW h \in Handlers, ActsAs(h), NEW q \in Positions, NEW t \in hit'[q]
  PROVE  \/ t \in hit[q]
         \/ handler'[h].pc = "send" /\ Current(h)' = <<q, t>>
<1>1. handler \in [Handlers -> HandlerType] /\ hit \in [Positions -> SUBSET Targets]
  BY DEF IInv, HandlersTyped, TypeOK
<1>2. CASE MarkHit(h)
  <2>1. /\ handler'[h].pc = "send" /\ handler'[h].pos = handler[h].pos
        /\ handler'[h].list = handler[h].list
    BY <1>1, <1>2 DEF MarkHit, HandlerType
  <2>2. t \in hit[q] \/ (q = handler[h].pos /\ t = First(handler[h].list))
    BY <1>1, <1>2 DEF MarkHit
  <2> QED
    BY <2>1, <2>2 DEF Current
<1>3. CASE RevertHit(h)
  BY <1>1, <1>3 DEF RevertHit
<1>4. CASE ~ MarkHit(h) /\ ~ RevertHit(h)
  <2>1. hit' = hit
    BY <1>4 DEF ActsAs, Chooses, KeepsRow, KeepsSale, OnMarkPriceUpdate, FindPositions,
                NextPosition, DbFails, FindTargets, AttemptFails, WriteQty,
                WriteClosed, WriteStop, SafetyFails, CountOpen, Unsubscribe, MoveStop,
                StopFails, NextTarget, SendPartialClose, SafetyClose, tables
  <2> QED
    BY <2>1
<1> QED
  BY <1>2, <1>3, <1>4

(* An execution that ends has sold its target, taken the mark back, or was    *)
(* cut short.                                                                 *)
LEMMA ExecutionEnds ==
  ASSUME IInv, NEW h \in Handlers, ActsAs(h), handler[h].pc \in {"send", "revert"},
         NEW q \in Positions, NEW t \in hit'[q], Current(h) = <<q, t>>
  PROVE  \/ sold'[q][t] >= 1
         \/ <<q, t>> \in cut'
         \/ handler'[h].pc \in {"send", "revert"} /\ Current(h)' = <<q, t>>
<1>1. /\ handler \in [Handlers -> HandlerType] /\ hit \in [Positions -> SUBSET Targets]
      /\ sold \in [Positions -> [Targets -> Nat]]
  BY DEF IInv, HandlersTyped, TypeOK
<1>2. /\ q = handler[h].pos /\ t = First(handler[h].list) /\ t \in Targets
      /\ handler[h].pc \in Inside
  BY CurrentTyped DEF Current, Inside, IInv
<1>3. CASE SendPartialClose(h)
  <2>1. sold' = [sold EXCEPT ![q][t] = @ + 1]
    BY <1>2, <1>3 DEF SendPartialClose
  <2>2. sold'[q][t] = sold[q][t] + 1 /\ sold[q][t] \in Nat
    BY <1>1, <1>2, <2>1
  <2> QED
    BY <2>2
<1>4. CASE AttemptFails(h)
  <2>1. /\ handler'[h].pc \in {"send", "revert"} /\ handler'[h].pos = handler[h].pos
        /\ handler'[h].list = handler[h].list
    BY <1>1, <1>4 DEF AttemptFails, HandlerType
  <2> QED
    BY <2>1 DEF Current
<1>5. CASE RevertHit(h)
  <2>1. hit' = [hit EXCEPT ![q] = @ \ {t}]
    BY <1>2, <1>5 DEF RevertHit
  <2>2. t \notin hit'[q]
    BY <1>1, <2>1
  <2> QED
    BY <2>2
<1>6. CASE DbFails(h)
  <2>1. cut' = cut \cup {Current(h)}
    BY <1>2, <1>6 DEF DbFails
  <2> QED
    BY <2>1
<1>7. \/ SendPartialClose(h) \/ AttemptFails(h) \/ RevertHit(h) \/ DbFails(h)
  BY DEF ActsAs, Chooses, KeepsRow, KeepsSale, OnMarkPriceUpdate, FindPositions,
         NextPosition, FindTargets, MarkHit, WriteQty, WriteClosed, WriteStop, SafetyFails,
         CountOpen, Unsubscribe, MoveStop, StopFails, NextTarget, SafetyClose, At
<1> QED
  BY <1>3, <1>4, <1>5, <1>6, <1>7

(* Every step keeps the marks backed. *)
LEMMA MarkStep == IInv /\ [Next]_vars => MarkIsBacked'
<1> SUFFICES ASSUME IInv, [Next]_vars, NEW q \in Positions, NEW t \in hit'[q]
             PROVE  \/ sold'[q][t] >= 1
                    \/ <<q, t>> \in cut'
                    \/ \E h \in Handlers : /\ handler'[h].pc \in {"send", "revert"}
                                           /\ Current(h)' = <<q, t>>
  BY DEF MarkIsBacked
<1>1. MarkIsBacked /\ hit \in [Positions -> SUBSET Targets]
  BY DEF IInv, TypeOK
<1>2. ASSUME t \in hit[q], sold[q][t] >= 1 \/ <<q, t>> \in cut
      PROVE  sold'[q][t] >= 1 \/ <<q, t>> \in cut'
  BY <1>1, <1>2, HistoryStep
<1>3. CASE \E h \in Handlers : ActsAs(h)
  <2>1. PICK h \in Handlers : ActsAs(h)
    BY <1>3
  <2>2. CASE t \notin hit[q]
    BY <2>1, <2>2, MarkMoves
  <2>3. ASSUME NEW g \in Handlers, handler[g].pc \in {"send", "revert"},
               Current(g) = <<q, t>>
        PROVE  \/ sold'[q][t] >= 1
               \/ <<q, t>> \in cut'
               \/ handler'[g].pc \in {"send", "revert"} /\ Current(g)' = <<q, t>>
    <3>1. CASE g = h
      BY <2>1, <2>3, <3>1, ExecutionEnds
    <3>2. CASE g # h
      <4>1. handler'[g] = handler[g]
        BY <2>1, <3>2, OneActs DEF IInv
      <4> QED
        BY <2>3, <4>1 DEF Current
    <3> QED
      BY <3>1, <3>2
  <2> QED
    BY <1>1, <1>2, <2>2, <2>3 DEF MarkIsBacked
<1>4. CASE Restart
  <2>1. t \in hit[q]
    BY <1>4 DEF Restart, tables
  <2>2. ASSUME NEW g \in Handlers, handler[g].pc \in {"send", "revert"},
               Current(g) = <<q, t>>
        PROVE  <<q, t>> \in cut'
    BY <1>4, <2>2 DEF Restart, Inside
  <2> QED
    BY <1>1, <1>2, <2>1, <2>2 DEF MarkIsBacked
<1>5. CASE UNCHANGED vars \/ \E p \in Positions : ExchangeCloses(p)
  <2>1. UNCHANGED <<hit, sold, cut, handler>>
    BY <1>5 DEF vars, ExchangeCloses, tables
  <2> QED
    BY <1>1, <2>1 DEF MarkIsBacked, Current
<1> QED
  BY <1>3, <1>4, <1>5, ActsOf DEF Next

-----------------------------------------------------------------------------
(* Rows that were closed.                                                  *)

\* Sold for the target under way, and not written yet.
Selling == {"stop", "stopRow", "write"}

\* A closed row shows nothing; nothing is sold of it, nor is the count that
\* found no open row outdated, as long as truncation left little behind.
Sealed ==
    /\ \A p \in Positions : rows[p].closed => rows[p].qty = 0
    /\ \A h \in Handlers : handler[h].pc \in Selling /\ rows[handler[h].pos].closed
                           => ~ LittleDust(handler[h].pos)
    /\ \A h \in Handlers : handler[h].pc = "unsubscribe" /\ (\A p \in Positions : LittleDust(p))
                           => Open = {}
    /\ OpenIsWatched

(* The size of an order is 0 or at least one step. *)
LEMMA TruncateStep ==
  ASSUME NEW q \in Nat, Truncate(q) > 0
  PROVE  Truncate(q) >= SizeStep
<1>1. SizeStep \in Nat /\ SizeStep > 0
  BY ManagerAssumption DEF ManagerAssumption
<1>2. \A n \in Nat : n > 0 /\ q - (q % n) > 0 => q - (q % n) >= n
  OBVIOUS
<1> QED
  BY <1>1, <1>2 DEF Truncate

(* What a step makes of the rows: only WriteQty could open one again.         *)
LEMMA RowsMove ==
  ASSUME IInv, NEW h \in Handlers, ActsAs(h)
  PROVE  LET p == handler[h].pos IN
         \/ /\ \A q \in Positions : /\ rows'[q].closed = rows[q].closed
                                    /\ rows'[q].qty = rows[q].qty
         \/ /\ WriteQty(h) /\ p \in Positions
            /\ \A q \in Positions : q # p => rows'[q] = rows[q]
            /\ rows'[p].closed => rows'[p].qty = 0
         \/ /\ WriteClosed(h) /\ p \in Positions
            /\ \A q \in Positions : q # p => rows'[q] = rows[q]
            /\ rows'[p].closed /\ rows'[p].qty = 0
<1>1. rows \in [Positions -> Rows]
  BY DEF IInv, TypeOK
<1>2. CASE WriteQty(h)
  <2>1. handler[h].pos \in Positions
    BY <1>2 DEF WriteQty, At, IInv, HandlersTyped, Choosing
  <2> DEFINE q == TargetQty[First(handler[h].list)]
             left == IF q < handler[h].qty THEN handler[h].qty - q ELSE 0
  <2>2. rows' = [rows EXCEPT ![handler[h].pos].qty = left, ![handler[h].pos].closed = (left = 0)]
    BY <1>2 DEF WriteQty
  <2> HIDE DEF left
  <2> QED
    BY <1>1, <1>2, <2>1, <2>2 DEF Rows
<1>3. CASE WriteClosed(h)
  <2>1. handler[h].pos \in Positions
    BY <1>3 DEF WriteClosed, At, IInv, HandlersTyped, Choosing
  <2> QED
    BY <1>1, <1>3, <2>1 DEF Rows, WriteClosed
<1>4. CASE WriteStop(h)
  <2>1. rows' = [rows EXCEPT ![handler[h].pos].safe = TRUE]
    BY <1>4 DEF WriteStop
  <2> QED
    BY <1>1, <2>1 DEF Rows
<1>5. CASE rows' = rows
  BY <1>5
<1>6. ASSUME ~ WriteQty(h), ~ WriteClosed(h), ~ WriteStop(h) PROVE rows' = rows
  BY <1>6 DEF ActsAs, Chooses, KeepsRow, KeepsSale, OnMarkPriceUpdate, FindPositions,
              NextPosition, DbFails, FindTargets, MarkHit, AttemptFails, RevertHit,
              SafetyFails, CountOpen, Unsubscribe, MoveStop,
              StopFails, NextTarget, SendPartialClose, SafetyClose, tables
<1> QED
  BY <1>2, <1>3, <1>4, <1>5, <1>6

(* A handler's step comes to a sale from an order that fitted.                *)
LEMMA SalesMove ==
  ASSUME IInv, NEW h \in Handlers, ActsAs(h), handler'[h].pc \in Selling
  PROVE  /\ handler'[h].pos = handler[h].pos /\ handler[h].pos \in Positions
         /\ rows'[handler[h].pos].closed = rows[handler[h].pos].closed
         /\ \/ handler[h].pc \in Selling
            \/ SendPartialClose(h)
<1> DEFINE r == handler[h]
<1>1. handler \in [Handlers -> HandlerType] /\ r \in HandlerType
  BY DEF IInv, HandlersTyped
<1>2. CASE KeepsSale(h) \/ SendPartialClose(h)
  <2>1. r.pos \in Positions
    BY <1>2 DEF KeepsSale, MoveStop, WriteStop, StopFails, SendPartialClose, At, IInv,
                HandlersTyped, Choosing
  <2>2. handler'[h].pos = r.pos
    BY <1>1, <1>2 DEF KeepsSale, MoveStop, WriteStop, StopFails, SendPartialClose, Goto,
                      HandlerType
  <2>3. r.pc \in Selling \/ SendPartialClose(h)
    BY <1>2 DEF KeepsSale, MoveStop, WriteStop, StopFails, At, Selling
  <2>4. ~ WriteQty(h) /\ ~ WriteClosed(h)
    <3>1. CASE SendPartialClose(h)
      BY <3>1 DEF SendPartialClose, WriteQty, WriteClosed, At
    <3>2. CASE KeepsSale(h)
      <4>1. r.pc \in {"stop", "stopRow"}
        BY <3>2 DEF KeepsSale, MoveStop, WriteStop, StopFails, At
      <4> QED
        BY <4>1 DEF WriteQty, WriteClosed, At
    <3> QED
      BY <1>2, <3>1, <3>2
  <2> QED
    BY <2>1, <2>2, <2>3, <2>4, RowsMove
<1>3. CASE \/ OnMarkPriceUpdate(h) \/ FindPositions(h) \/ DbFails(h)
           \/ FindTargets(h) \/ MarkHit(h) \/ AttemptFails(h) \/ WriteQty(h)
           \/ RevertHit(h) \/ WriteClosed(h) \/ SafetyFails(h) \/ CountOpen(h) \/ Unsubscribe(h)
           \/ NextTarget(h) \/ SafetyClose(h)
  <2> USE DEF HandlerType, Goto, Return
  <2>1. CASE OnMarkPriceUpdate(h) \/ DbFails(h)
    BY <1>1, <2>1, IdleTyped DEF Selling, OnMarkPriceUpdate, DbFails
  <2>2. CASE FindPositions(h) \/ FindTargets(h) \/ MarkHit(h)
    BY <1>1, <2>2 DEF Selling, FindPositions, FindTargets, MarkHit
  <2>3. CASE NextTarget(h)
    <3>1. handler'[h].pc \in {"position", "target", "mark"}
      BY <1>1, <2>3, IdleTyped DEF NextTarget, LeaveTargets, At
    <3> QED
      BY <3>1 DEF Selling
  <2>4. CASE AttemptFails(h)
    BY <1>1, <2>4 DEF Selling, AttemptFails
  <2>5. CASE RevertHit(h) \/ WriteClosed(h) \/ SafetyClose(h)
    BY <1>1, <2>5 DEF Selling, RevertHit, WriteClosed, SafetyClose
  <2>6. CASE WriteQty(h) \/ SafetyFails(h) \/ CountOpen(h) \/ Unsubscribe(h)
    BY <1>1, <2>6 DEF Selling, WriteQty, SafetyFails, CountOpen, Unsubscribe
  <2> QED
    BY <1>3, <2>1, <2>2, <2>3, <2>4, <2>5, <2>6
<1>4. CASE NextPosition(h)
  <2> DEFINE free == DOMAIN r.todo \ executing
  <2>1. handler'[h].pc \in {"idle", "query"}
    <3>1. CASE free = {}
      BY <1>1, <1>4, <3>1, IdleTyped DEF NextPosition
    <3>2. CASE free # {}
      <4>1. PICK n \in free, skipped \in SUBSET (DOMAIN r.todo \cap executing) :
               handler' = [handler EXCEPT
                  ![h].pc = "query", ![h].pos = n, ![h].qty = r.todo[n],
                  ![h].todo = [q \in DOMAIN r.todo \ ({n} \cup skipped) |-> r.todo[q]]]
        BY <1>4, <3>2 DEF NextPosition
      <4> QED
        BY <1>1, <4>1 DEF HandlerType
    <3> QED
      BY <3>1, <3>2
  <2> QED
    BY <2>1 DEF Selling
<1> QED
  BY <1>2, <1>3, <1>4 DEF ActsAs, Chooses, KeepsRow

(* A handler comes to the unsubscription from a count that found nothing,     *)
(* and nobody else touches the subscription.                                  *)
LEMMA CountMoves ==
  ASSUME IInv, NEW h \in Handlers, ActsAs(h), handler'[h].pc = "unsubscribe"
  PROVE  CountOpen(h) /\ Open = {}
<1> DEFINE r == handler[h]
<1>1. handler \in [Handlers -> HandlerType] /\ r \in HandlerType
  BY DEF IInv, HandlersTyped
<1>2. CASE \/ OnMarkPriceUpdate(h) \/ FindPositions(h) \/ DbFails(h)
           \/ FindTargets(h) \/ MarkHit(h) \/ AttemptFails(h) \/ WriteQty(h)
           \/ RevertHit(h) \/ WriteClosed(h) \/ SafetyFails(h) \/ Unsubscribe(h)
           \/ NextTarget(h) \/ SafetyClose(h) \/ SendPartialClose(h) \/ KeepsSale(h)
  <2> USE DEF HandlerType, Goto, Return
  <2>1. CASE OnMarkPriceUpdate(h) \/ DbFails(h)
    BY <1>1, <2>1, IdleTyped DEF OnMarkPriceUpdate, DbFails
  <2>2. CASE FindPositions(h) \/ FindTargets(h) \/ MarkHit(h)
    BY <1>1, <2>2 DEF FindPositions, FindTargets, MarkHit
  <2>3. CASE NextTarget(h)
    <3>1. handler'[h].pc \in {"position", "target", "mark"}
      BY <1>1, <2>3, IdleTyped DEF NextTarget, LeaveTargets, At
    <3> QED
      BY <3>1
  <2>4. CASE AttemptFails(h) \/ SendPartialClose(h)
    BY <1>1, <2>4 DEF AttemptFails, SendPartialClose
  <2>5. CASE RevertHit(h) \/ WriteClosed(h) \/ SafetyClose(h)
    BY <1>1, <2>5 DEF RevertHit, WriteClosed, SafetyClose
  <2>6. CASE WriteQty(h) \/ SafetyFails(h) \/ Unsubscribe(h)
    BY <1>1, <2>6 DEF WriteQty, SafetyFails, Unsubscribe
  <2>7. CASE KeepsSale(h)
    BY <1>1, <2>7 DEF KeepsSale, MoveStop, WriteStop, StopFails
  <2> QED
    BY <1>2, <2>1, <2>2, <2>3, <2>4, <2>5, <2>6, <2>7
<1>3. CASE NextPosition(h)
  <2> DEFINE free == DOMAIN r.todo \ executing
  <2>1. handler'[h].pc \in {"idle", "query"}
    <3>1. CASE free = {}
      BY <1>1, <1>3, <3>1, IdleTyped DEF NextPosition
    <3>2. CASE free # {}
      <4>1. PICK n \in free, skipped \in SUBSET (DOMAIN r.todo \cap executing) :
               handler' = [handler EXCEPT
                  ![h].pc = "query", ![h].pos = n, ![h].qty = r.todo[n],
                  ![h].todo = [q \in DOMAIN r.todo \ ({n} \cup skipped) |-> r.todo[q]]]
        BY <1>3, <3>2 DEF NextPosition
      <4> QED
        BY <1>1, <4>1 DEF HandlerType
    <3> QED
      BY <3>1, <3>2
  <2> QED
    BY <2>1
<1>4. CASE CountOpen(h)
  <2>1. Open # {} => handler'[h].pc = "target"
    BY <1>1, <1>4 DEF CountOpen, Return, HandlerType
  <2> QED
    BY <1>4, <2>1
<1> QED
  BY <1>2, <1>3, <1>4 DEF ActsAs, Chooses, KeepsRow

LEMMA SubscriptionMoves ==
  ASSUME NEW h \in Handlers, ActsAs(h), ~ Unsubscribe(h)
  PROVE  subscribed' = subscribed
BY DEF ActsAs, Chooses, KeepsRow, KeepsSale, OnMarkPriceUpdate, FindPositions,
       NextPosition, DbFails, FindTargets, MarkHit, AttemptFails, RevertHit, WriteQty,
       WriteClosed, WriteStop, SafetyFails, CountOpen, MoveStop,
       StopFails, NextTarget, SendPartialClose, SafetyClose

(* An order for a closed row fits only what truncation left behind.           *)
LEMMA NoSaleWhenClosed ==
  ASSUME IInv, Sealed, NEW h \in Handlers, SendPartialClose(h), handler[h].pos \in Positions,
         rows[handler[h].pos].closed
  PROVE  ~ LittleDust(handler[h].pos)
<1> DEFINE p == handler[h].pos
           q == TargetQty[First(handler[h].list)]
<1>1. q \in Nat
  BY CurrentTyped DEF SendPartialClose, At, Inside, IInv
<1>2. 0 < Truncate(q) /\ Truncate(q) <= exchange[p]
  BY DEF SendPartialClose, Fits
<1>3. exchange[p] <= rows[p].qty + dust[p] /\ rows[p].qty = 0
  BY DEF IInv, Covers, TableBoundsExchange, Sealed
<1>4. exchange[p] \in Nat /\ dust[p] \in Nat
  BY DEF IInv, TypeOK
<1>5. SizeStep \in Nat /\ Truncate(q) \in Nat
  BY <1>1, TruncateFits, ManagerAssumption DEF ManagerAssumption
<1>6. Truncate(q) >= SizeStep
  BY <1>1, <1>2, TruncateStep
<1> QED
  BY <1>2, <1>3, <1>4, <1>5, <1>6 DEF LittleDust

(* A closed row is written again by the one who sold of it, and by nobody     *)
(* while truncation left little behind.                                       *)
LEMMA ClosedStep ==
  ASSUME IInv, Sealed, [Next]_vars, NEW p \in Positions, rows[p].closed, LittleDust(p)
  PROVE  rows'[p].closed
<1>1. CASE \E h \in Handlers : ActsAs(h)
  <2>1. PICK h \in Handlers : ActsAs(h)
    BY <1>1
  <2>2. ASSUME WriteQty(h) PROVE handler[h].pos # p
    BY <2>2 DEF WriteQty, At, Sealed, Selling
  <2> QED
    BY <2>1, <2>2, RowsMove
<1>2. CASE Restart \/ UNCHANGED vars \/ \E q \in Positions : ExchangeCloses(q)
  BY <1>2 DEF Restart, vars, ExchangeCloses, tables
<1> QED
  BY <1>1, <1>2, ActsOf DEF Next

(* Little dust was little before. *)
LEMMA DustStep ==
  ASSUME IInv, [Next]_vars, NEW p \in Positions, dust'[p] < SizeStep
  PROVE  LittleDust(p)
<1>1. dust[p] <= dust'[p] /\ dust[p] \in Nat /\ dust'[p] \in Nat
  BY ShrinkStep, TablesStep DEF IInv, TypeOK
<1>2. SizeStep \in Nat
  BY ManagerAssumption DEF ManagerAssumption
<1> QED
  BY <1>1, <1>2 DEF LittleDust

(* Every step keeps closed rows sealed. *)
LEMMA SealedStep == IInv /\ Sealed /\ [Next]_vars => Sealed'
<1> SUFFICES ASSUME IInv, Sealed, [Next]_vars PROVE Sealed'
  OBVIOUS
<1>1. CASE \E h \in Handlers : ActsAs(h)
  <2>1. PICK h \in Handlers : ActsAs(h)
    BY <1>1
  <2>2. \A g \in Handlers : g # h => handler'[g] = handler[g]
    BY <2>1, OneActs DEF IInv
  <2>3. ASSUME NEW p \in Positions, rows'[p].closed PROVE rows'[p].qty = 0
    BY <2>1, <2>3, RowsMove DEF Sealed
  <2>4. ASSUME NEW g \in Handlers, handler'[g].pc \in Selling, rows'[handler'[g].pos].closed,
               dust'[handler'[g].pos] < SizeStep
        PROVE  FALSE
    <3>1. CASE g = h
      <4> DEFINE p == handler[h].pos
      <4>1. p \in Positions /\ handler'[h].pos = p /\ rows[p].closed
        BY <2>1, <2>4, <3>1, SalesMove
      <4>2. LittleDust(p)
        <5>1. dust'[p] < SizeStep
          BY <2>4, <3>1, <4>1
        <5> QED
          BY <4>1, <5>1, DustStep
      <4>3. CASE handler[h].pc \in Selling
        BY <4>1, <4>2, <4>3 DEF Sealed
      <4>4. CASE SendPartialClose(h)
        BY <4>1, <4>2, <4>4, NoSaleWhenClosed
      <4> QED
        BY <2>1, <2>4, <3>1, <4>3, <4>4, SalesMove
    <3>2. CASE g # h
      <4> DEFINE p == handler[g].pos
      <4>1. handler'[g] = handler[g] /\ handler[g].pc \in Selling
        BY <2>2, <2>4, <3>2
      <4>2. p \in Positions /\ handler[g].pc \in Inside
        BY <4>1 DEF Selling, Inside, IInv, HandlersTyped, Choosing
      <4>3. LittleDust(p)
        <5>1. dust'[p] < SizeStep
          BY <2>4, <4>1
        <5> QED
          BY <4>2, <5>1, DustStep
      <4>4. ~ rows[p].closed
        BY <4>1, <4>3 DEF Sealed
      <4>5. WriteQty(h) \/ WriteClosed(h) => handler[h].pos # p
        BY <3>2, <4>2 DEF WriteQty, WriteClosed, At, IInv, LockExact, Inside
      <4>6. ~ rows'[p].closed
        BY <2>1, <4>2, <4>4, <4>5, RowsMove
      <4> QED
        BY <2>4, <4>1, <4>6
    <3> QED
      BY <3>1, <3>2
  <2>5. ASSUME \A p \in Positions : dust'[p] < SizeStep, Open = {}
        PROVE  Open' = {}
    BY <2>5, DustStep, ClosedStep DEF Open
  <2>6. ASSUME NEW g \in Handlers, handler'[g].pc = "unsubscribe",
               \A p \in Positions : dust'[p] < SizeStep
        PROVE  Open' = {}
    <3>1. \A p \in Positions : LittleDust(p)
      BY <2>6, DustStep
    <3>2. handler[g].pc = "unsubscribe" \/ (g = h /\ CountOpen(h) /\ Open = {})
      BY <2>1, <2>2, <2>6, CountMoves
    <3> QED
      BY <2>5, <2>6, <3>1, <3>2 DEF Sealed
  <2>7. OpenIsWatched'
    <3> SUFFICES ASSUME \A p \in Positions : dust'[p] < SizeStep, NEW q \in Positions,
                        ~ rows'[q].closed
                 PROVE  subscribed'
      BY DEF OpenIsWatched, LittleDust
    <3>1. \A p \in Positions : LittleDust(p)
      BY DustStep
    <3>2. ~ rows[q].closed
      BY <3>1, ClosedStep
    <3>3. ~ Unsubscribe(h)
      BY <3>1, <3>2 DEF Unsubscribe, At, Sealed, Open
    <3>4. subscribed' = subscribed
      BY <2>1, <3>3, SubscriptionMoves
    <3> QED
      BY <3>1, <3>2, <3>4 DEF Sealed, OpenIsWatched
  <2> QED
    BY <2>3, <2>4, <2>6, <2>7 DEF Sealed, LittleDust
<1>2. CASE Restart
  <2>1. rows' = rows /\ dust' = dust /\ subscribed' = (Open # {})
    BY <1>2 DEF Restart, tables
  <2>2. \A h \in Handlers : handler'[h].pc = "idle"
    BY <1>2, IdleTyped DEF Restart
  <2>3. OpenIsWatched'
    BY <2>1 DEF OpenIsWatched, Open
  <2> QED
    BY <2>1, <2>2, <2>3 DEF Sealed, Selling
<1>3. CASE UNCHANGED vars \/ \E p \in Positions : ExchangeCloses(p)
  <2>1. UNCHANGED <<rows, dust, handler, subscribed>>
    BY <1>3 DEF vars, ExchangeCloses, tables
  <2> QED
    BY <2>1 DEF Sealed, OpenIsWatched, Open, LittleDust
<1> QED
  BY <1>1, <1>2, <1>3, ActsOf DEF Next

-----------------------------------------------------------------------------

(* The invariant holds in every reachable state. *)
LEMMA Invariance == Spec => []IInv
<1>1. IInv /\ [Next]_vars => IInv'
  BY TypeStep, CoverStep, LockStep, MarkStep DEF IInv
<1> QED
  BY <1>1, InitInv, PTL DEF Spec

(* The tables, the exchange and every handler at every await stay well typed; *)
(* a handler that executes always has a target left to execute.               *)
THEOREM ManagerTypes == Spec => []TypeOK
<1>1. IInv => TypeOK
  BY DEF IInv
<1> QED
  BY <1>1, Invariance, PTL

(* `executing' keeps all handlers but one out of executePartialClose for a    *)
(* position, and is given back on every way out, failures included.           *)
THEOREM OneExecutorPerPosition == Spec => []OneExecutor
<1>1. IInv => OneExecutor
  BY LockCounts DEF IInv
<1> QED
  BY <1>1, Invariance, PTL

(* The table never shows less than Bitget holds, but for what truncation kept *)
(* back, although each quantity is computed from a row loaded before.         *)
THEOREM TableBounds == Spec => []TableBoundsExchange
<1>1. IInv => TableBoundsExchange
  BY DEF IInv, Covers
<1> QED
  BY <1>1, Invariance, PTL

(* A mark set before the order is sent (executePartialClose) stays only if    *)
(* the target was sold, unless the process or the database failed.            *)
THEOREM MarksAreSales == Spec => []HitMeansSold
<1>1. IInv => HitMeansSold
  <2> SUFFICES ASSUME IInv, NEW p \in Positions \ executing, NEW t \in hit[p]
               PROVE  sold[p][t] >= 1 \/ <<p, t>> \in cut
    BY DEF HitMeansSold
  <2>1. \A h \in Handlers : handler[h].pc \in {"send", "revert"} => Current(h) # <<p, t>>
    BY DEF IInv, LockExact, Current, Inside
  <2> QED
    BY <2>1 DEF IInv, MarkIsBacked
<1> QED
  BY <1>1, Invariance, PTL

(* A count that found no open row is not outdated when the subscription is    *)
(* cancelled, and closed rows are sealed, in every reachable state.           *)
LEMMA AlwaysSealed == Spec => []Sealed
<1>1. Init => Sealed
  BY DEF Init, Sealed, Selling, OpenIsWatched, Idle
<1>2. IInv /\ Sealed /\ [Next]_vars => Sealed'
  BY SealedStep
<1> QED
  BY <1>1, <1>2, Invariance, PTL DEF Spec

(* A closed row is not opened again by a quantity computed from a row loaded  *)
(* before it was closed, while truncation kept back less than a size step.    *)
THEOREM ClosedRowsStayClosed == Spec => ClosedStaysClosed
<1>1. IInv /\ Sealed /\ [Next]_vars =>
      [\A p \in Positions : rows[p].closed /\ LittleDust(p) => rows'[p].closed]_vars
  BY ClosedStep
<1> QED
  BY <1>1, Invariance, AlwaysSealed, PTL DEF Spec, ClosedStaysClosed

(* An open row keeps its subscription, although maybeUnsubscribe counts an    *)
(* await before it unsubscribes.                                              *)
THEOREM OpenRowsAreWatched == Spec => []OpenIsWatched
<1>1. Sealed => OpenIsWatched
  BY DEF Sealed
<1> QED
  BY <1>1, AlwaysSealed, PTL
==============================================================================
