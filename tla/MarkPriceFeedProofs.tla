-------------------------- MODULE MarkPriceFeedProofs --------------------------
(***************************************************************************)
(* Theorems about MarkPriceFeed, for any symbols and any number of calls   *)
(* and troubles.  The invariant is inductive with two facts that the runs  *)
(* need not check: every action keeps the types, and a connection that is  *)
(* being made has nothing on its way and serves nothing.                   *)
(***************************************************************************)
EXTENDS MarkPriceFeed, SequenceTheorems, TLAPS

\* A connection starts empty.
StartsEmpty == conn \in {"connecting", "closed"} => up = Empty /\ served = None /\ refused = None

IInv == TypeOK /\ ServedAsWanted /\ StartsEmpty

(* The last command of a queue that gets one more is that one. *)
LEMMA LastAppended ==
  ASSUME NEW q \in Seq(BOOLEAN), NEW w \in BOOLEAN
  PROVE  Append(q, w) # <<>> /\ Last(Append(q, w)) = w
BY DEF Last

(* The last command stays when another one is taken off the front. *)
LEMMA LastOfTail ==
  ASSUME NEW q \in Seq(BOOLEAN), q # <<>>
  PROVE  /\ Head(q) \in BOOLEAN /\ Tail(q) \in Seq(BOOLEAN)
         /\ Tail(q) = <<>> => Last(q) = Head(q)
         /\ Tail(q) # <<>> => Last(Tail(q)) = Last(q)
<1>1. Len(q) \in Nat \ {0} /\ \A i \in 1..Len(q) : q[i] \in BOOLEAN
  <2>1. Len(q) \in Nat /\ \A i \in 1..Len(q) : q[i] \in BOOLEAN
    OBVIOUS
  <2>2. Len(q) # 0
    BY EmptySeq
  <2> QED
    BY <2>1, <2>2
<1>2. /\ Head(q) = q[1] /\ Tail(q) \in Seq(BOOLEAN)
      /\ Len(Tail(q)) = Len(q) - 1
      /\ \A i \in 1..Len(Tail(q)) : Tail(q)[i] = q[i + 1]
  OBVIOUS
<1>3. Tail(q) = <<>> <=> Len(Tail(q)) = 0
  BY <1>2, EmptySeq
<1>4. Tail(q) = <<>> => Len(q) = 1
  BY <1>1, <1>2, <1>3
<1>5. Tail(q) # <<>> => Len(Tail(q)) \in 1..Len(Tail(q))
  BY <1>1, <1>2, <1>3
<1> QED
  BY <1>1, <1>2, <1>4, <1>5 DEF Last

(* A lost or fresh connection has the types of one. *)
LEMMA EmptyTypes ==
  /\ Empty \in [Symbols -> Seq(BOOLEAN)]
  /\ None \in [Symbols -> BOOLEAN]
  /\ [s \in Symbols |-> 0] \in [Symbols -> Nat]
BY DEF Empty, None

(* The service as it is constructed has sent nothing and wants nothing. *)
LEMMA InitInv == Init => IInv
<1> SUFFICES ASSUME Init PROVE IInv
  OBVIOUS
<1>1. TypeOK
  BY EmptyTypes, FeedAssumption DEF Init, TypeOK, FeedAssumption
<1>2. ServedAsWanted /\ StartsEmpty
  BY DEF Init, ServedAsWanted, StartsEmpty
<1> QED
  BY <1>1, <1>2 DEF IInv

(* Every step keeps the types, and the timer waits only where a connection is *)
(* missing.                                                                   *)
LEMMA TypeStep == IInv /\ [Next]_vars => TypeOK'
<1> SUFFICES ASSUME IInv, [Next]_vars PROVE TypeOK'
  OBVIOUS
<1> USE DEF IInv, TypeOK, client, wire
<1>1. CASE Opened
  <2>1. <<TRUE>> \in Seq(BOOLEAN) /\ <<>> \in Seq(BOOLEAN)
    OBVIOUS
  <2>2. up' \in [Symbols -> Seq(BOOLEAN)]
    BY <1>1, <2>1 DEF Opened
  <2> QED
    BY <1>1, <2>2 DEF Opened
<1>2. CASE Closed
  BY <1>2, EmptyTypes DEF Closed, Lost
<1>3. CASE Reconnect \/ Destroy
  BY <1>3 DEF Reconnect, Destroy
<1>4. CASE Breaks
  BY <1>4, EmptyTypes DEF Breaks, Lost, Trouble
<1>5. ASSUME NEW s \in Symbols, Subscribe(s) \/ Unsubscribe(s) PROVE TypeOK'
  <2>1. \E w \in BOOLEAN : Send(s, w) /\ subscribed' = [subscribed EXCEPT ![s] = w]
    BY <1>5 DEF Subscribe, Unsubscribe
  <2>2. subscribed' \in [Symbols -> BOOLEAN]
    BY <2>1
  <2>3. up' \in [Symbols -> Seq(BOOLEAN)]
    <3> PICK w \in BOOLEAN : Send(s, w)
      BY <2>1
    <3>1. Append(up[s], w) \in Seq(BOOLEAN)
      OBVIOUS
    <3> QED
      BY <3>1 DEF Send
  <2>4. cached' \in [Symbols -> BOOLEAN]
    <3>1. cached' = cached \/ cached' = [cached EXCEPT ![s] = FALSE]
      BY <1>5 DEF Subscribe, Unsubscribe
    <3> QED
      BY <3>1
  <2>5. calls' \in Nat
    <3>1. calls' = calls + 1
      BY <1>5 DEF Subscribe, Unsubscribe, Called
    <3> QED
      BY <3>1
  <2>6. UNCHANGED <<alive, timer, conn, served, refused, down, trouble>>
    BY <1>5 DEF Subscribe, Unsubscribe
  <2> QED
    BY <2>2, <2>3, <2>4, <2>5, <2>6
<1>6. ASSUME NEW s \in Symbols, Serve(s) PROVE TypeOK'
  BY <1>6, LastOfTail DEF Serve
<1>7. ASSUME NEW s \in Symbols, Refuse(s) PROVE TypeOK'
  BY <1>7, LastOfTail DEF Refuse, Trouble
<1>8. ASSUME NEW s \in Symbols, SendPrice(s) PROVE TypeOK'
  BY <1>8 DEF SendPrice
<1>9. ASSUME NEW s \in Symbols, OnMarkPriceData(s) PROVE TypeOK'
  <2>1. cached' \in [Symbols -> BOOLEAN]
    <3> PICK priced \in BOOLEAN : cached' = [cached EXCEPT ![s] = @ \/ priced]
      BY <1>9 DEF OnMarkPriceData
    <3>1. (cached[s] \/ priced) \in BOOLEAN
      OBVIOUS
    <3> QED
      BY <3>1
  <2>2. down' \in [Symbols -> Nat]
    BY <1>9 DEF OnMarkPriceData
  <2>3. UNCHANGED <<client, subscribed, up, served, refused, calls, trouble>>
    BY <1>9 DEF OnMarkPriceData
  <2> QED
    BY <2>1, <2>2, <2>3
<1>10. CASE UNCHANGED vars
  BY <1>10 DEF vars
<1> QED
  BY <1>1, <1>2, <1>3, <1>4, <1>5, <1>6, <1>7, <1>8, <1>9, <1>10 DEF Next

(* Nothing is sent on a connection that is not open, and what was on its way  *)
(* dies with it.                                                              *)
LEMMA EmptyStep == IInv /\ [Next]_vars => StartsEmpty'
<1> SUFFICES ASSUME IInv, [Next]_vars PROVE StartsEmpty'
  OBVIOUS
<1> USE DEF IInv, TypeOK, StartsEmpty, client, wire
<1>1. CASE Opened \/ Closed \/ Reconnect \/ Destroy \/ Breaks
  BY <1>1 DEF Opened, Closed, Reconnect, Destroy, Breaks, Lost
<1>2. ASSUME NEW s \in Symbols, Subscribe(s) \/ Unsubscribe(s) PROVE StartsEmpty'
  BY <1>2 DEF Subscribe, Unsubscribe, Send
<1>3. ASSUME NEW s \in Symbols, Serve(s) \/ Refuse(s) \/ SendPrice(s) \/ OnMarkPriceData(s)
      PROVE  StartsEmpty'
  BY <1>3 DEF Serve, Refuse, SendPrice, OnMarkPriceData
<1>4. CASE UNCHANGED vars
  BY <1>4 DEF vars
<1> QED
  BY <1>1, <1>2, <1>3, <1>4 DEF Next

(* The last word about a symbol follows what is wanted.                       *)
LEMMA WordStep == IInv /\ [Next]_vars => ServedAsWanted'
<1> SUFFICES ASSUME IInv, [Next]_vars, conn' = "open", NEW t \in Symbols
             PROVE  refused'[t] \/ LastWord(t)' = subscribed'[t]
  BY DEF ServedAsWanted
<1> USE DEF IInv, TypeOK, ServedAsWanted, LastWord, client, wire
<1>1. CASE Opened
  <2>1. up'[t] = IF subscribed[t] THEN <<TRUE>> ELSE <<>>
    BY <1>1 DEF Opened
  <2>2. served'[t] = FALSE /\ subscribed' = subscribed
    BY <1>1 DEF Opened, StartsEmpty, None
  <2>3. Last(<<TRUE>>) = TRUE /\ <<TRUE>> # <<>>
    BY DEF Last
  <2> QED
    BY <2>1, <2>2, <2>3
<1>2. CASE Closed \/ Reconnect \/ Destroy \/ Breaks
  BY <1>2 DEF Closed, Reconnect, Destroy, Breaks
<1>3. ASSUME NEW s \in Symbols, Subscribe(s) \/ Unsubscribe(s)
      PROVE  refused'[t] \/ LastWord(t)' = subscribed'[t]
  <2>0. /\ conn = "open" /\ served' = served /\ refused' = refused
        /\ \E w \in BOOLEAN : /\ subscribed' = [subscribed EXCEPT ![s] = w]
                              /\ up' = [up EXCEPT ![s] = Append(@, w)]
    BY <1>3 DEF Subscribe, Unsubscribe, Send
  <2> PICK w \in BOOLEAN : /\ subscribed' = [subscribed EXCEPT ![s] = w]
                           /\ up' = [up EXCEPT ![s] = Append(@, w)]
    BY <2>0
  <2>1. CASE t = s
    <3>1. up'[t] = Append(up[t], w) /\ subscribed'[t] = w
      BY <2>1
    <3> QED
      BY <3>1, LastAppended
  <2>2. CASE t # s
    BY <2>0, <2>2
  <2> QED
    BY <2>1, <2>2
<1>4. ASSUME NEW s \in Symbols, Serve(s)
      PROVE  refused'[t] \/ LastWord(t)' = subscribed'[t]
  <2>1. CASE t = s
    <3>1. up[t] # <<>> /\ up'[t] = Tail(up[t]) /\ served'[t] = Head(up[t])
      BY <1>4, <2>1 DEF Serve
    <3> QED
      BY <1>4, <3>1, LastOfTail DEF Serve
  <2>2. CASE t # s
    BY <1>4, <2>2 DEF Serve
  <2> QED
    BY <2>1, <2>2
<1>5. ASSUME NEW s \in Symbols, Refuse(s)
      PROVE  refused'[t] \/ LastWord(t)' = subscribed'[t]
  BY <1>5 DEF Refuse
<1>6. ASSUME NEW s \in Symbols, SendPrice(s) \/ OnMarkPriceData(s)
      PROVE  refused'[t] \/ LastWord(t)' = subscribed'[t]
  BY <1>6 DEF SendPrice, OnMarkPriceData
<1>7. CASE UNCHANGED vars
  BY <1>7 DEF vars
<1> QED
  BY <1>1, <1>2, <1>3, <1>4, <1>5, <1>6, <1>7 DEF Next

(* The invariant holds in every reachable state. *)
LEMMA Invariance == Spec => []IInv
<1>1. IInv /\ [Next]_vars => IInv'
  BY TypeStep, EmptyStep, WordStep DEF IInv
<1> QED
  BY <1>1, InitInv, PTL DEF Spec

(* The types of the feed, and that its timer waits only while a living        *)
(* service has no connection (scheduleReconnect, onModuleDestroy).            *)
THEOREM MarkFeedTypes == Spec => []TypeOK
<1>1. IInv => TypeOK
  BY DEF IInv
<1> QED
  BY <1>1, Invariance, PTL

(* What is wanted, what was sent and what Bitget serves never drift apart on  *)
(* an open connection, unless Bitget refused a command.                       *)
THEOREM SubscriptionsFollow == Spec => []ServedAsWanted
<1>1. IInv => ServedAsWanted
  BY DEF IInv
<1> QED
  BY <1>1, Invariance, PTL
==============================================================================
