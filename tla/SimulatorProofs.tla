---------------------------- MODULE SimulatorProofs ----------------------------
(***************************************************************************)
(* Theorems about Simulator, for any targets, closing prices, fees, sizes  *)
(* the exchange reports, any number of syncs and of failures.              *)
(*                                                                         *)
(* The rows of the targets are the plan's, cut off after n of them where   *)
(* the handler failed while saving them, and the first h of them marked    *)
(* hit and filled.  The invariant says how far the rows, the handler's     *)
(* copy and the trades may be apart between two awaits.                    *)
(***************************************************************************)
EXTENDS Simulator, SequenceTheorems, WellFoundedInduction, TLAPS


LEMMA SetInduction ==
  ASSUME NEW S, 0 \in S, \A n \in Nat : n \in S => n + 1 \in S
  PROVE  Nat \subseteq S
<1> SUFFICES ASSUME NEW m \in Nat, m \notin S PROVE FALSE
  OBVIOUS
<1> DEFINE T == Nat \ S
<1>1. T \in SUBSET Nat /\ m \in T
  OBVIOUS
<1>2. PICK k \in T : \A j \in T : ~ (<<j, k>> \in OpToRel(<, Nat))
  BY <1>1, WFMin, NatLessThanWellFounded
<1>3. k # 0 /\ k - 1 \in Nat
  OBVIOUS
<1>4. <<k - 1, k>> \in OpToRel(<, Nat)
  BY <1>3 DEF OpToRel
<1>5. k - 1 \in S
  BY <1>2, <1>3, <1>4
<1> QED
  BY <1>3, <1>5

-----------------------------------------------------------------------------
(* Folds over 1..n from the left.                                          *)

LEMMA MaxInterval ==
  ASSUME NEW n \in Nat, NEW s \in SUBSET (1..(n + 1)), n + 1 \in s
  PROVE  Max(s) = n + 1
<1>1. n + 1 \in s /\ \A y \in s : n + 1 >= y
  OBVIOUS
<1>2. Max(s) \in s /\ \A y \in s : Max(s) >= y
  BY <1>1 DEF Max
<1>3. Max(s) \in 1..(n + 1) /\ Max(s) >= n + 1
  BY <1>1, <1>2
<1> HIDE DEF Max
<1> QED
  BY <1>3

LEMMA IntervalStep ==
  ASSUME NEW n \in Nat, NEW k \in Nat, k < n
  PROVE  /\ 1..(k + 1) \in SUBSET (1..n) /\ 1..(k + 1) # {} /\ k + 1 \in 1..(k + 1)
         /\ (1..(k + 1)) \ {k + 1} = 1..k
<1>1. 1..(k + 1) \in SUBSET (1..n) /\ k + 1 \in 1..(k + 1)
  OBVIOUS
<1>2. \A i : i \in (1..(k + 1)) \ {k + 1} <=> i \in 1..k
  OBVIOUS
<1> QED
  BY <1>1, <1>2

LEMMA MaxIn ==
  ASSUME NEW n \in Nat, NEW s \in SUBSET (1..n), s # {}
  PROVE  Max(s) \in s
<1> DEFINE S == {m \in Nat : \A u \in SUBSET (1..m) : u # {} => Max(u) \in u}
<1>1. 0 \in S
  <2>1. 1..0 = {}
    OBVIOUS
  <2> QED
    BY <2>1
<1>2. ASSUME NEW m \in Nat, m \in S PROVE m + 1 \in S
  <2> SUFFICES ASSUME NEW u \in SUBSET (1..(m + 1)), u # {} PROVE Max(u) \in u
    OBVIOUS
  <2>1. CASE m + 1 \in u
    BY <2>1, MaxInterval
  <2>2. CASE m + 1 \notin u
    <3>1. u \in SUBSET (1..m)
      BY <2>2
    <3> QED
      BY <1>2, <3>1
  <2> QED
    BY <2>1, <2>2
<1> HIDE DEF S
<1>3. n \in S
  BY <1>1, <1>2, SetInduction
<1> QED
  BY <1>3 DEF S

\* What the iteration of a fold with the function F is, set by set.
Folds(g, n, base, F) ==
    \A s \in SUBSET (1..n) :
        g[s] = IF s = {} THEN base ELSE F[<<g[s \ {Max(s)}], Max(s)>>]

(* There is one whenever F leads from a set back to the same set.          *)
LEMMA FoldExists ==
  ASSUME NEW n \in Nat, NEW B, NEW base \in B, NEW F \in [B \X (1..n) -> B]
  PROVE  \E g \in [SUBSET (1..n) -> B] : Folds(g, n, base, F)
<1> DEFINE Has(m) == \E g \in [SUBSET (1..m) -> B] : Folds(g, m, base, F)
           S == {m \in Nat : m <= n => Has(m)}
<1>1. 0 \in S
  <2>1. [s \in SUBSET (1..0) |-> base] \in [SUBSET (1..0) -> B]
    OBVIOUS
  <2>2. \A s \in SUBSET (1..0) : s = {}
    OBVIOUS
  <2>3. Folds([s \in SUBSET (1..0) |-> base], 0, base, F)
    BY <2>2 DEF Folds
  <2> QED
    BY <2>1, <2>3
<1>2. ASSUME NEW m \in Nat, m \in S PROVE m + 1 \in S
  <2> HIDE DEF Has
  <2> SUFFICES ASSUME m + 1 <= n PROVE Has(m + 1)
    OBVIOUS
  <2>0. Has(m)
    BY <1>2
  <2>1. PICK g \in [SUBSET (1..m) -> B] : Folds(g, m, base, F)
    BY <2>0 DEF Has
  <2> DEFINE h == [s \in SUBSET (1..(m + 1)) |->
                      IF m + 1 \in s THEN F[<<g[s \ {m + 1}], m + 1>>] ELSE g[s]]
  <2>2. ASSUME NEW s \in SUBSET (1..(m + 1)), m + 1 \in s
        PROVE  /\ h[s] = F[<<g[s \ {m + 1}], m + 1>>] /\ h[s] \in B
               /\ s \ {m + 1} \in SUBSET (1..m) /\ Max(s) = m + 1
    <3>1. s \ {m + 1} \in SUBSET (1..m) /\ Max(s) = m + 1
      BY <2>2, MaxInterval
    <3>2. g[s \ {m + 1}] \in B /\ m + 1 \in 1..n
      BY <3>1
    <3>3. h[s] = F[<<g[s \ {m + 1}], m + 1>>]
      BY <2>2
    <3> HIDE DEF h
    <3> QED
      BY <3>1, <3>2, <3>3
  <2>3. ASSUME NEW s \in SUBSET (1..(m + 1)), m + 1 \notin s
        PROVE  s \in SUBSET (1..m) /\ h[s] = g[s] /\ h[s] \in B
    BY <2>3
  <2>4. h \in [SUBSET (1..(m + 1)) -> B]
    <3>1. \A s \in SUBSET (1..(m + 1)) : h[s] \in B
      BY <2>2, <2>3
    <3>2. h = [s \in SUBSET (1..(m + 1)) |-> h[s]]
      OBVIOUS
    <3> HIDE DEF h
    <3> QED
      BY <3>1, <3>2
  <2> HIDE DEF h
  <2>5. ASSUME NEW s \in SUBSET (1..(m + 1))
        PROVE  h[s] = IF s = {} THEN base ELSE F[<<h[s \ {Max(s)}], Max(s)>>]
    <3>1. CASE m + 1 \in s
      <4>1. m + 1 \notin s \ {m + 1} /\ s \ {m + 1} \in SUBSET (1..(m + 1))
        OBVIOUS
      <4>2. h[s \ {m + 1}] = g[s \ {m + 1}]
        BY <2>3, <4>1
      <4> QED
        BY <2>2, <3>1, <4>2
    <3>2. CASE m + 1 \notin s
      <4>1. s \in SUBSET (1..m) /\ h[s] = g[s]
        BY <2>3, <3>2
      <4>2. /\ s \ {Max(s)} \in SUBSET (1..m) /\ s \ {Max(s)} \in SUBSET (1..(m + 1))
            /\ m + 1 \notin s \ {Max(s)}
        BY <3>2, <4>1
      <4>3. h[s \ {Max(s)}] = g[s \ {Max(s)}]
        BY <2>3, <4>2
      <4> QED
        BY <2>1, <4>1, <4>3 DEF Folds
    <3> QED
      BY <3>1, <3>2
  <2> QED
    BY <2>4, <2>5 DEF Folds, Has
<1> HIDE DEF S, Has
<1>3. n \in S
  BY <1>1, <1>2, SetInduction
<1>4. Has(n)
  BY <1>3 DEF S
<1> QED
  BY <1>4 DEF Has

\* The values of an iteration on 1..0, 1..1, up to 1..n.
LEMMA PrefixIn ==
  ASSUME NEW n \in Nat, NEW B, NEW g, g[{}] \in B,
         \A k \in Nat : k < n /\ g[1..k] \in B => g[1..(k + 1)] \in B
  PROVE  g[1..n] \in B
<1> DEFINE S == {k \in Nat : k <= n => g[1..k] \in B}
<1>1. 0 \in S
  <2>1. 1..0 = {}
    OBVIOUS
  <2> QED
    BY <2>1
<1>2. \A k \in Nat : k \in S => k + 1 \in S
  OBVIOUS
<1> HIDE DEF S
<1>3. n \in S
  BY <1>1, <1>2, SetInduction
<1> QED
  BY <1>3 DEF S

-----------------------------------------------------------------------------
(* Totals.                                                                 *)

\* An iteration that sums up the numbers w.
Sums(c, n, w) ==
    /\ c[{}] = 0
    /\ \A k \in Nat : k < n => c[1..(k + 1)] = c[1..k] + w[k + 1]

(* A sequence of numbers has a total, and its iteration sums them up.      *)
LEMMA TotalSums ==
  ASSUME NEW w \in Seq(Nat)
  PROVE  /\ Total(w) \in Nat
         /\ \E c : Sums(c, Len(w), w) /\ Total(w) = c[1..Len(w)]
<1> DEFINE n == Len(w)
           F == [p \in Nat \X (1..n) |-> p[1] + w[p[2]]]
           Rec(c) == [s \in SUBSET (1..n) |->
                         IF s = {} THEN 0 ELSE c[s \ {Max(s)}] + w[Max(s)]]
           it == CHOOSE c : c = Rec(c)
<1>0. n \in Nat /\ DOMAIN w = 1..n /\ \A i \in 1..n : w[i] \in Nat
  OBVIOUS
<1> HIDE DEF n
<1>1. F \in [Nat \X (1..n) -> Nat] /\ 0 \in Nat
  BY <1>0
<1>2. \A a \in Nat, i \in 1..n : F[<<a, i>>] = a + w[i]
  OBVIOUS
<1> HIDE DEF F
<1>3. PICK g \in [SUBSET (1..n) -> Nat] : Folds(g, n, 0, F)
  BY <1>0, <1>1, FoldExists
<1>4. g = Rec(g)
  <2>1. ASSUME NEW s \in SUBSET (1..n)
        PROVE  g[s] = IF s = {} THEN 0 ELSE g[s \ {Max(s)}] + w[Max(s)]
    <3>1. CASE s = {}
      BY <1>3, <3>1 DEF Folds
    <3>2. CASE s # {}
      <4>1. Max(s) \in 1..n
        BY <1>0, <3>2, MaxIn
      <4>2. g[s \ {Max(s)}] \in Nat
        BY <4>1
      <4>3. g[s] = F[<<g[s \ {Max(s)}], Max(s)>>]
        BY <1>3, <3>2 DEF Folds
      <4> QED
        BY <1>2, <3>2, <4>1, <4>2, <4>3
    <3> QED
      BY <3>1, <3>2
  <2> QED
    BY <2>1
<1>5. it = Rec(it)
  BY <1>4
<1>6. Total(w) = it[1..n]
  BY <1>0 DEF Total, FoldLeft, MapThenFoldSet
<1> HIDE DEF it
<1>7. Sums(it, n, w)
  <2>1. it[{}] = 0
    BY <1>5
  <2>2. ASSUME NEW k \in Nat, k < n PROVE it[1..(k + 1)] = it[1..k] + w[k + 1]
    <3>1. /\ 1..(k + 1) \in SUBSET (1..n) /\ 1..(k + 1) # {} /\ k + 1 \in 1..(k + 1)
          /\ (1..(k + 1)) \ {k + 1} = 1..k
      BY <1>0, <2>2, IntervalStep
    <3>2. Max(1..(k + 1)) = k + 1
      BY <3>1, MaxInterval
    <3> QED
      BY <1>5, <3>1, <3>2
  <2> QED
    BY <2>1, <2>2 DEF Sums
<1>8. it[1..n] \in Nat
  <2>1. it[{}] \in Nat
    BY <1>7 DEF Sums
  <2>2. \A k \in Nat : k < n /\ it[1..k] \in Nat => it[1..(k + 1)] \in Nat
    BY <1>0, <1>7 DEF Sums
  <2> QED
    BY <1>0, <2>1, <2>2, PrefixIn
<1> QED
  BY <1>6, <1>7, <1>8 DEF n

LEMMA MinPair ==
  ASSUME NEW a \in Int, NEW b \in Int
  PROVE  Min({a, b}) \in {a, b} /\ Min({a, b}) <= a /\ Min({a, b}) <= b
<1>1. \E x \in {a, b} : \A y \in {a, b} : x <= y
  OBVIOUS
<1> QED
  BY <1>1 DEF Min

LEMMA MaxPair ==
  ASSUME NEW a \in Int, NEW b \in Int
  PROVE  Max({a, b}) \in {a, b} /\ Max({a, b}) >= a /\ Max({a, b}) >= b
<1>1. \E x \in {a, b} : \A y \in {a, b} : x >= y
  OBVIOUS
<1> QED
  BY <1>1 DEF Max

LEMMA MinIn ==
  ASSUME NEW I \in SUBSET Nat, I # {}
  PROVE  Min(I) \in I /\ \A j \in I : Min(I) <= j
<1>1. PICK k \in I : \A j \in I : ~ (<<j, k>> \in OpToRel(<, Nat))
  BY WFMin, NatLessThanWellFounded
<1>2. \A j \in I : k <= j
  <2> SUFFICES ASSUME NEW j \in I, j < k PROVE FALSE
    OBVIOUS
  <2>1. <<j, k>> \in OpToRel(<, Nat)
    BY DEF OpToRel
  <2> QED
    BY <1>1, <2>1
<1> QED
  BY <1>2 DEF Min

(* Nothing sums up to nothing.                                             *)
LEMMA TotalZero ==
  ASSUME NEW w \in Seq({0})
  PROVE  Total(w) = 0
<1>1. PICK n \in Nat : n = Len(w)
  OBVIOUS
<1>2. w \in Seq(Nat) /\ \A i \in 1..n : w[i] = 0
  BY <1>1
<1>3. PICK c : Sums(c, n, w) /\ Total(w) = c[1..n]
  BY <1>1, <1>2, TotalSums
<1>4. PICK B : B = {0}
  OBVIOUS
<1>5. c[{}] \in B
  BY <1>3, <1>4 DEF Sums
<1>6. \A k \in Nat : k < n /\ c[1..k] \in B => c[1..(k + 1)] \in B
  BY <1>2, <1>3, <1>4 DEF Sums
<1>7. c[1..n] \in B
  BY <1>5, <1>6, PrefixIn
<1> QED
  BY <1>3, <1>4, <1>7

(* A number that grows, of a sequence, lets its total grow as much.        *)
LEMMA TotalChange ==
  ASSUME NEW w \in Seq(Nat), NEW v \in Seq(Nat), Len(v) = Len(w),
         NEW j \in 1..Len(w), NEW x \in Int, v[j] = w[j] + x,
         \A i \in 1..Len(w) : i # j => v[i] = w[i]
  PROVE  Total(v) = Total(w) + x
<1>1. PICK n \in Nat : n = Len(w)
  OBVIOUS
<1>2. PICK c : Sums(c, n, w) /\ Total(w) = c[1..n]
  BY <1>1, TotalSums
<1>3. PICK d : Sums(d, n, v) /\ Total(v) = d[1..n]
  BY <1>1, TotalSums
<1>4. \A i \in 1..n : w[i] \in Nat /\ v[i] \in Nat
  BY <1>1
<1> DEFINE S == {k \in Nat : k <= n => /\ c[1..k] \in Nat
                                       /\ d[1..k] = IF j <= k THEN c[1..k] + x ELSE c[1..k]}
<1>5. 0 \in S
  <2>1. 1..0 = {}
    OBVIOUS
  <2> QED
    BY <1>2, <1>3, <2>1 DEF Sums
<1>6. ASSUME NEW k \in Nat, k \in S PROVE k + 1 \in S
  <2> SUFFICES ASSUME k + 1 <= n
               PROVE  /\ c[1..(k + 1)] \in Nat
                      /\ d[1..(k + 1)] = IF j <= k + 1 THEN c[1..(k + 1)] + x
                                         ELSE c[1..(k + 1)]
    OBVIOUS
  <2>1. /\ k < n /\ c[1..k] \in Nat
        /\ d[1..k] = IF j <= k THEN c[1..k] + x ELSE c[1..k]
    BY <1>6
  <2>2. c[1..(k + 1)] = c[1..k] + w[k + 1] /\ d[1..(k + 1)] = d[1..k] + v[k + 1]
    BY <1>2, <1>3, <2>1 DEF Sums
  <2>3. w[k + 1] \in Nat /\ v[k + 1] \in Nat
    BY <1>4
  <2> DEFINE a == c[1..k]
             b == d[1..k]
             y == w[k + 1]
             z == v[k + 1]
  <2>4. /\ c[1..(k + 1)] = a + y /\ d[1..(k + 1)] = b + z /\ y \in Nat /\ z \in Nat
        /\ a \in Nat /\ b = IF j <= k THEN a + x ELSE a
    BY <2>1, <2>2, <2>3
  <2>5. z = IF k + 1 = j THEN y + x ELSE y
    BY <1>1
  <2> HIDE DEF a, b, y, z
  <2>6. j \in Int /\ x \in Int
    OBVIOUS
  <2>7. /\ a + y \in Nat
        /\ b + z = IF j <= k + 1 THEN a + y + x ELSE a + y
    BY <2>4, <2>5, <2>6
  <2> QED
    BY <2>4, <2>7
<1> HIDE DEF S
<1>7. n \in S
  BY <1>5, <1>6, SetInduction
<1> QED
  BY <1>1, <1>2, <1>3, <1>7 DEF S

-----------------------------------------------------------------------------
(* Fees by the lot.                                                        *)

LotFee == Max({Entry * FeeRate, MinFee \div (2 * Lots)})
LotMin == 2 * (MinFee \div (2 * Lots))

LEMMA DivTimes ==
  ASSUME NEW L \in Nat \ {0}, NEW x \in Nat
  PROVE  (L * x) \div L = x
OBVIOUS

LEMMA TimesMonotone ==
  ASSUME NEW a \in Int, NEW b \in Int, NEW k \in Nat, a >= b
  PROVE  k * a >= k * b /\ a * k >= b * k
OBVIOUS

LEMMA LotFees ==
  /\ LotFee \in Nat /\ LotMin \in Nat /\ Lots \in Nat \ {0} /\ FeeRate \in Nat /\ Entry \in Nat
  /\ EntryFeeTotal = Lots * LotFee /\ MinFee = Lots * LotMin
<1> DEFINE h == MinFee \div (2 * Lots)
<1>1. Lots \in Nat \ {0} /\ FeeRate \in Nat /\ Entry \in Nat /\ MinFee \in Nat
  BY PlanAssumption, SimulatorAssumption
<1>2. MinFee = (2 * Lots) * h /\ h \in Nat
  <2>1. PICK t \in Nat \ {0} : t = 2 * Lots
    BY <1>1
  <2>2. MinFee % t = 0
    BY <2>1, SimulatorAssumption
  <2>3. MinFee = t * (MinFee \div t) /\ MinFee \div t \in Nat
    BY <1>1, <2>1, <2>2
  <2> QED
    BY <2>1, <2>3
<1>3. PICK f \in Nat : f = Entry * FeeRate
  BY <1>1
<1>4. LotFee = Max({f, h}) /\ LotMin = 2 * h
  BY <1>3 DEF LotFee, LotMin
<1> HIDE DEF h
<1>5. LotFee \in {f, h} /\ LotFee >= f /\ LotFee >= h
  <2>1. Max({f, h}) \in {f, h} /\ Max({f, h}) >= f /\ Max({f, h}) >= h
    BY <1>2, <1>3, MaxPair
  <2> QED
    BY <1>4, <2>1
<1>6. MinFee \div 2 = Lots * h
  <2>1. PICK x \in Nat : x = Lots * h
    BY <1>1, <1>2
  <2>2. MinFee = 2 * x
    BY <1>1, <1>2, <2>1
  <2> QED
    BY <2>1, <2>2
<1>7. Entry * Lots * FeeRate = Lots * f
  BY <1>1, <1>3
<1>8. EntryFeeTotal = Max({Lots * f, Lots * h})
  BY <1>6, <1>7 DEF EntryFeeTotal
<1>9. PICK u \in Nat, v \in Nat : u = Lots * f /\ v = Lots * h
  BY <1>1, <1>2
<1>10. EntryFeeTotal \in {u, v} /\ EntryFeeTotal >= u /\ EntryFeeTotal >= v
  <2>1. Max({u, v}) \in {u, v} /\ Max({u, v}) >= u /\ Max({u, v}) >= v
    BY <1>9, MaxPair
  <2>2. EntryFeeTotal = Max({u, v})
    BY <1>8, <1>9
  <2> QED
    BY <2>1, <2>2
<1>11. EntryFeeTotal = Lots * LotFee
  <2>1. CASE LotFee = f
    <3>1. u >= v
      BY <1>1, <1>2, <1>5, <1>9, <2>1, TimesMonotone
    <3> QED
      BY <1>9, <1>10, <2>1, <3>1
  <2>2. CASE LotFee = h
    <3>1. v >= u
      BY <1>1, <1>2, <1>5, <1>9, <2>2, TimesMonotone
    <3> QED
      BY <1>9, <1>10, <2>2, <3>1
  <2> QED
    BY <1>5, <2>1, <2>2
<1>12. MinFee = Lots * LotMin
  BY <1>1, <1>2, <1>4
<1> QED
  BY <1>1, <1>2, <1>4, <1>5, <1>11, <1>12

LEMMA Shares ==
  ASSUME NEW q \in Nat
  PROVE  /\ ShareOf(EntryFeeTotal, q) \in Nat /\ ShareOf(MinFee, q) \in Nat
         /\ q <= Lots => ShareOf(EntryFeeTotal, q) = LotFee * q /\ ShareOf(MinFee, q) = LotMin * q
<1> DEFINE m == Min({q, Lots})
<1>1. m \in Nat /\ (q <= Lots => m = q)
  <2>1. Lots \in Int
    BY LotFees
  <2>2. m \in {q, Lots} /\ m <= q /\ m <= Lots
    BY <2>1, MinPair
  <2> HIDE DEF m
  <2> QED
    BY <2>2, LotFees
<1>2. ASSUME NEW total, NEW fee \in Nat, total = Lots * fee
      PROVE  ShareOf(total, q) = fee * m
  <2>1. PICK x \in Nat : x = fee * m
    BY <1>1
  <2>2. total * m = Lots * x
    BY <1>1, <1>2, <2>1, LotFees
  <2>3. (Lots * x) \div Lots = x
    BY <2>1, LotFees, DivTimes
  <2> QED
    BY <2>1, <2>2, <2>3 DEF ShareOf
<1>3. ShareOf(EntryFeeTotal, q) = LotFee * m /\ ShareOf(MinFee, q) = LotMin * m
  BY <1>2, LotFees
<1> HIDE DEF m
<1> QED
  BY <1>1, <1>3, LotFees

-----------------------------------------------------------------------------
(* The rows of the targets.                                                *)

FreshTargets == [price: Nat \ {0}, qty: Nat \ {0}, filledQty: {0}, hit: {FALSE}]
RowTargets == [price: Nat \ {0}, qty: Nat \ {0}, filledQty: Nat, hit: BOOLEAN]

\* The first n of the targets ts, the first h of them filled.
Marked(ts, n, h) ==
    [i \in 1..n |-> IF i <= h THEN [ts[i] EXCEPT !.filledQty = ts[i].qty, !.hit = TRUE]
                    ELSE ts[i]]

\* What these rows say was sold.
Taken(ts, n, h) == Total([i \in 1..n |-> Marked(ts, n, h)[i].filledQty])

LEMMA MarkedIs ==
  ASSUME NEW ts \in Seq(FreshTargets), NEW n \in 0..Len(ts), NEW h \in 0..n
  PROVE  /\ Marked(ts, n, h) \in Seq(RowTargets)
         /\ Len(Marked(ts, n, h)) = n /\ DOMAIN Marked(ts, n, h) = 1..n
         /\ \A i \in 1..n : /\ Marked(ts, n, h)[i].price = ts[i].price
                            /\ Marked(ts, n, h)[i].qty = ts[i].qty
                            /\ ts[i].price \in Nat \ {0} /\ ts[i].qty \in Nat \ {0}
                            /\ (Marked(ts, n, h)[i].hit <=> i <= h)
                            /\ Marked(ts, n, h)[i].filledQty = IF i <= h THEN ts[i].qty ELSE 0
                            /\ Marked(ts, n, h)[i] \in RowTargets
<1> DEFINE m == Marked(ts, n, h)
<1>1. ASSUME NEW i \in 1..n
      PROVE  /\ m[i].price = ts[i].price /\ m[i].qty = ts[i].qty
             /\ ts[i].price \in Nat \ {0} /\ ts[i].qty \in Nat \ {0}
             /\ (m[i].hit <=> i <= h)
             /\ m[i].filledQty = IF i <= h THEN ts[i].qty ELSE 0
             /\ m[i] \in RowTargets
  <2>1. ts[i] \in FreshTargets
    OBVIOUS
  <2>2. m[i] = IF i <= h THEN [ts[i] EXCEPT !.filledQty = ts[i].qty, !.hit = TRUE] ELSE ts[i]
    BY DEF Marked
  <2>3. PICK t \in FreshTargets : t = ts[i]
    BY <2>1
  <2>4. CASE i <= h
    BY <2>2, <2>3, <2>4 DEF FreshTargets, RowTargets
  <2>5. CASE ~ (i <= h)
    <3>1. m[i] = t
      BY <2>2, <2>3, <2>5
    <3>2. /\ t.price \in Nat \ {0} /\ t.qty \in Nat \ {0} /\ t.filledQty = 0
          /\ t = [price |-> t.price, qty |-> t.qty, filledQty |-> t.filledQty, hit |-> t.hit]
      BY <2>3 DEF FreshTargets
    <3>3. t.hit \in {FALSE}
      BY <2>3, Zenon DEF FreshTargets
    <3>4. ~ t.hit /\ t.hit \in BOOLEAN
      BY <3>3, Zenon
    <3>5. t \in RowTargets
      BY <3>2, <3>4 DEF RowTargets
    <3> QED
      BY <2>3, <2>5, <3>1, <3>2, <3>4, <3>5
  <2> QED
    BY <2>4, <2>5
<1>2. m = [i \in 1..n |-> m[i]] /\ n \in Nat
  BY DEF Marked
<1> HIDE DEF m
<1>3. m \in Seq(RowTargets) /\ Len(m) = n /\ DOMAIN m = 1..n
  BY <1>1, <1>2
<1> QED
  BY <1>1, <1>3 DEF m

LEMMA MarkedNone ==
  ASSUME NEW ts \in Seq(FreshTargets)
  PROVE  Marked(ts, Len(ts), 0) = ts
<1>1. PICK n \in Nat : n = Len(ts) /\ ts = [i \in 1..n |-> ts[i]]
  OBVIOUS
<1>2. \A i \in 1..n : ~ (i <= 0)
  OBVIOUS
<1>3. Marked(ts, n, 0) = [i \in 1..n |-> ts[i]]
  BY <1>2 DEF Marked
<1> QED
  BY <1>1, <1>3

\* One row more is saved.
LEMMA MarkedAppend ==
  ASSUME NEW ts \in Seq(FreshTargets), NEW n \in 0..Len(ts), n < Len(ts)
  PROVE  Append(Marked(ts, n, 0), ts[n + 1]) = Marked(ts, n + 1, 0)
<1>1. Marked(ts, n, 0) = [i \in 1..n |-> ts[i]] /\ Marked(ts, n + 1, 0) = [i \in 1..(n + 1) |-> ts[i]]
  <2>1. (\A i \in 1..n : ~ (i <= 0)) /\ (\A i \in 1..(n + 1) : ~ (i <= 0))
    OBVIOUS
  <2> QED
    BY <2>1 DEF Marked
<1>2. n \in Nat /\ Len([i \in 1..n |-> ts[i]]) = n
  OBVIOUS
<1> QED
  BY <1>1, <1>2

\* One target more is filled.
LEMMA MarkedNext ==
  ASSUME NEW ts \in Seq(FreshTargets), NEW n \in 0..Len(ts), NEW h \in 0..n, h < n
  PROVE  /\ Marked(ts, n, h + 1)
              = [Marked(ts, n, h) EXCEPT ![h + 1] = Marked(ts, n, h + 1)[h + 1]]
         /\ Marked(ts, n, h + 1)[h + 1]
              = [Marked(ts, n, h)[h + 1] EXCEPT !.filledQty = ts[h + 1].qty, !.hit = TRUE]
<1>1. \A i \in 1..n : i # h + 1 => Marked(ts, n, h + 1)[i] = Marked(ts, n, h)[i]
  BY DEF Marked
<1>0. h + 1 \in 1..n /\ ~ (h + 1 <= h) /\ h + 1 <= h + 1
  OBVIOUS
<1>2. Marked(ts, n, h)[h + 1] = ts[h + 1]
  BY <1>0 DEF Marked
<1>3. Marked(ts, n, h + 1)[h + 1] = [ts[h + 1] EXCEPT !.filledQty = ts[h + 1].qty, !.hit = TRUE]
  BY <1>0 DEF Marked
<1>4. /\ DOMAIN Marked(ts, n, h) = 1..n /\ DOMAIN Marked(ts, n, h + 1) = 1..n
      /\ Marked(ts, n, h + 1) = [i \in 1..n |-> Marked(ts, n, h + 1)[i]]
  BY DEF Marked
<1> QED
  BY <1>1, <1>2, <1>3, <1>4

LEMMA TakenIs ==
  ASSUME NEW ts \in Seq(FreshTargets), NEW n \in 0..Len(ts), NEW h \in 0..n
  PROVE  /\ Taken(ts, n, h) \in Nat
         /\ h = 0 => Taken(ts, n, h) = 0
         /\ h < n => /\ Taken(ts, n, h + 1) = Taken(ts, n, h) + ts[h + 1].qty
                     /\ ts[h + 1].qty \in Nat \ {0} /\ ts[h + 1].price \in Nat \ {0}
<1> DEFINE w == [i \in 1..n |-> Marked(ts, n, h)[i].filledQty]
           v == [i \in 1..n |-> Marked(ts, n, h + 1)[i].filledQty]
<1>1. \A i \in 1..n : /\ w[i] = IF i <= h THEN ts[i].qty ELSE 0
                      /\ ts[i].qty \in Nat \ {0} /\ ts[i].price \in Nat \ {0}
  BY MarkedIs
<1>2. n \in Nat /\ \A i \in 1..n : w[i] \in Nat
  BY <1>1
<1>3. w \in Seq(Nat) /\ Len(w) = n
  BY <1>2
<1>4. Taken(ts, n, h) = Total(w)
  BY DEF Taken
<1> HIDE DEF w
<1>5. Taken(ts, n, h) \in Nat
  BY <1>3, <1>4, TotalSums
<1>6. ASSUME h = 0 PROVE Taken(ts, n, h) = 0
  <2>1. w \in Seq({0})
    <3>1. \A i \in 1..n : w[i] \in {0}
      BY <1>1, <1>6
    <3> QED
      BY <1>3, <3>1
  <2> QED
    BY <1>4, <2>1, TotalZero
<1>7. ASSUME h < n PROVE Taken(ts, n, h + 1) = Taken(ts, n, h) + ts[h + 1].qty
  <2>1. h + 1 \in 0..n
    BY <1>7
  <2>2. \A i \in 1..n : v[i] = IF i <= h + 1 THEN ts[i].qty ELSE 0
    BY <2>1, MarkedIs
  <2>3. \A i \in 1..n : v[i] \in Nat
    BY <1>1, <2>2
  <2>4. v \in Seq(Nat) /\ Len(v) = n
    BY <1>2, <2>3
  <2>5. Taken(ts, n, h + 1) = Total(v)
    BY DEF Taken
  <2> HIDE DEF v
  <2>6. h + 1 \in 1..n
    BY <1>7
  <2>7. v[h + 1] = w[h + 1] + ts[h + 1].qty /\ ts[h + 1].qty \in Int /\ h + 1 \in 1..Len(w)
    BY <1>1, <1>3, <2>2, <2>6
  <2>8. \A i \in 1..n : h + 1 # i => v[i] = w[i]
    BY <1>1, <2>2
  <2>9. Total(v) = Total(w) + ts[h + 1].qty
    BY <1>3, <2>4, <2>6, <2>7, <2>8, TotalChange
  <2> QED
    BY <1>4, <2>5, <2>9
<1>8. h < n => h + 1 \in 1..n
  OBVIOUS
<1> QED
  BY <1>1, <1>5, <1>6, <1>7, <1>8

LEMMA TakenMonotone ==
  ASSUME NEW ts \in Seq(FreshTargets), NEW n \in 0..Len(ts), NEW h \in 0..n, NEW g \in h..n
  PROVE  Taken(ts, n, h) <= Taken(ts, n, g)
<1> DEFINE S == {k \in Nat : h + k <= n => Taken(ts, n, h) <= Taken(ts, n, h + k)}
<1>1. 0 \in S
  <2>1. h + 0 = h /\ Taken(ts, n, h) \in Nat
    BY TakenIs
  <2> QED
    BY <2>1
<1>2. ASSUME NEW k \in Nat, k \in S PROVE k + 1 \in S
  <2> SUFFICES ASSUME h + (k + 1) <= n
               PROVE  Taken(ts, n, h) <= Taken(ts, n, h + (k + 1))
    OBVIOUS
  <2>1. PICK m \in 0..n : m = h + k
    OBVIOUS
  <2>2. m < n /\ h + (k + 1) = m + 1 /\ Taken(ts, n, h) <= Taken(ts, n, m)
    BY <1>2, <2>1
  <2>3. /\ Taken(ts, n, h) \in Nat /\ Taken(ts, n, m) \in Nat /\ ts[m + 1].qty \in Nat
        /\ Taken(ts, n, m + 1) = Taken(ts, n, m) + ts[m + 1].qty
    BY <2>2, TakenIs
  <2> QED
    BY <2>2, <2>3
<1> HIDE DEF S
<1>3. g - h \in S
  BY <1>1, <1>2, SetInduction
<1> QED
  BY <1>3 DEF S

\* The first target that is not hit yet.
LEMMA NextIs ==
  ASSUME NEW ts \in Seq(FreshTargets), NEW n \in 0..Len(ts), NEW g \in 0..n, NEW p,
         p.targets = Marked(ts, n, g)
  PROVE  NextTarget(p) = IF g < n THEN g + 1 ELSE 0
<1> DEFINE I == {i \in 1..Len(p.targets) : ~ p.targets[i].hit}
<1>1. NextTarget(p) = IF I # {} THEN Min(I) ELSE 0
  BY DEF NextTarget, SelectInSeq
<1>2. Len(p.targets) = n /\ \A i \in 1..n : (p.targets[i].hit <=> i <= g)
  BY MarkedIs
<1>3. I = {i \in 1..n : i > g}
  BY <1>2
<1> HIDE DEF I
<1>4. CASE g < n
  <2>1. I \in SUBSET Nat /\ I # {} /\ g + 1 \in I
    BY <1>3, <1>4
  <2>2. Min(I) \in I /\ Min(I) <= g + 1
    BY <2>1, MinIn
  <2>3. Min(I) = g + 1
    BY <1>3, <2>2
  <2> QED
    BY <1>1, <1>4, <2>1, <2>3
<1>5. CASE ~ (g < n)
  <2>1. I = {}
    BY <1>3, <1>5
  <2> QED
    BY <1>1, <1>5, <2>1
<1> QED
  BY <1>4, <1>5

\* The first row that lags behind the copy.
LEMMA BehindIs ==
  ASSUME NEW ts \in Seq(FreshTargets), NEW n \in 0..Len(ts), NEW h \in 0..n, NEW g \in h..n,
         pos.targets = Marked(ts, n, h), sim.targets = Marked(ts, n, g)
  PROVE  /\ h = g => Behind = {}
         /\ h < g => Behind # {} /\ Min(Behind) = h + 1
<1>1. /\ DOMAIN sim.targets = 1..n
      /\ \A i \in 1..n : pos.targets[i] # sim.targets[i] <=> i > h /\ i <= g
  <2>1. DOMAIN sim.targets = 1..n
    BY MarkedIs
  <2>2. ASSUME NEW i \in 1..n PROVE pos.targets[i] # sim.targets[i] <=> i > h /\ i <= g
    <3>1. (pos.targets[i].hit <=> i <= h) /\ (sim.targets[i].hit <=> i <= g)
      BY MarkedIs
    <3>2. i <= h => i <= g
      OBVIOUS
    <3>3. i <= h \/ ~ (i <= g) => pos.targets[i] = sim.targets[i]
      BY <3>2, Zenon DEF Marked
    <3> QED
      BY <3>1, <3>3
  <2> QED
    BY <2>1, <2>2
<1>2. PICK I \in SUBSET Nat : I = Behind /\ I = {i \in 1..n : i > h /\ i <= g}
  <2>1. Behind = {i \in 1..n : pos.targets[i] # sim.targets[i]}
    BY <1>1 DEF Behind
  <2>2. Behind = {i \in 1..n : i > h /\ i <= g}
    BY <1>1, <2>1
  <2> QED
    BY <2>2
<1>3. CASE h < g
  <2>1. I # {} /\ h + 1 \in I
    BY <1>2, <1>3
  <2>2. Min(I) \in I /\ Min(I) <= h + 1
    BY <2>1, MinIn
  <2>3. Min(I) = h + 1
    BY <1>2, <2>2
  <2> QED
    BY <1>2, <1>3, <2>1, <2>3
<1> QED
  BY <1>2, <1>3

-----------------------------------------------------------------------------
(* One part sold.                                                          *)

\* A part yields at least what one at a level the price is beyond would have.
LEMMA PartYields ==
  ASSUME NEW d \in {1, -1}, NEW at \in Int, NEW level \in Int, NEW entry \in Int,
         NEW q \in Nat
  PROVE  /\ (at - entry) * q * d \in Int /\ q * d * (level - entry) \in Int
         /\ d * at >= d * level => (at - entry) * q * d >= q * d * (level - entry)
         /\ d * at > d * entry => (at - entry) * q * d >= q
         /\ level = entry => q * d * (level - entry) = 0
<1>1. PICK x \in Int : x = d * (at - entry)
  OBVIOUS
<1>2. PICK y \in Int : y = d * (level - entry)
  OBVIOUS
<1>3. (at - entry) * q * d = q * x
  BY <1>1
<1>4. q * d * (level - entry) = q * y
  BY <1>2
<1>5. /\ d * at >= d * level => x >= y
      /\ d * at > d * entry => x >= 1
      /\ level = entry => y = 0
  BY <1>1, <1>2
<1>6. /\ x >= y => q * x >= q * y
      /\ x >= 1 => q * x >= q * 1
  BY TimesMonotone
<1> QED
  BY <1>3, <1>4, <1>5, <1>6

-----------------------------------------------------------------------------
(* The invariant.                                                          *)

Prices == {plan[i].price : i \in DOMAIN plan}

Positions ==
    [qty: Nat, sl: {FirstStop, Entry}, tp: Prices, feeLeft: Nat, targets: Seq(RowTargets),
     closed: BOOLEAN]

Busy == pc # "idle"
Running == Busy /\ ~ sim.closed /\ exit.at = 0

Typed ==
    /\ dir \in {1, -1} /\ real \in BOOLEAN /\ plan \in Plans[dir]
    /\ pos \in Positions
    /\ Busy => sim \in Positions
    /\ ~ Busy => sim = NoPosition
    /\ pc \in {"idle", "plan", "candle", "trade", "sync"}
    /\ bar \in Nat /\ exit \in [at: Nat, parts: BOOLEAN]
    /\ part \in [qty: Nat, gross: Int, fees: Nat]
    /\ pc # "trade" => part = NoPart
    /\ pc \in {"idle", "plan", "sync"} => exit.at = 0
    /\ pc \in {"plan", "sync"} => ~ sim.closed
    /\ agents \in [Agents -> [pc: {"idle", "apply", "external"}, sl: {0, FirstStop, Entry}]]
    /\ \A a \in Agents : agents[a].pc # "idle" => real /\ agents[a].sl # 0
    /\ faults \in Nat /\ sold \in Nat /\ gross \in Int /\ fees \in Nat

\* The rows have n targets, h of them hit; the copy of an open position, g.
Shaped(n, h, g) ==
    /\ pos.targets = Marked(plan, n, h)
    /\ pc = "plan" => h = 0 /\ g = 0 /\ sim.targets = plan
    /\ Busy /\ pc # "plan" /\ ~ sim.closed => sim.targets = Marked(plan, n, g)

\* What the rows say was sold has its trades.
Counted(n, h, g) ==
    /\ Taken(plan, n, h) <= sold
    /\ Running => Taken(plan, n, g) <= sold + part.qty

\* A paper position's lots and fees.
Paper(n, h, g) ==
    /\ pos.qty + Taken(plan, n, h) <= Lots
    /\ pos.closed <=> pos.qty = 0
    /\ ~ pos.closed => pos.feeLeft = LotFee * pos.qty
    /\ fees >= LotFee * sold /\ fees >= LotMin * sold
    /\ part.fees >= LotFee * part.qty /\ part.fees >= LotMin * part.qty
    /\ InHand + sold <= Lots * (1 + faults)
    /\ Busy => (pos.closed <=> sim.closed) /\ (sim.closed <=> sim.qty = 0)
    /\ Busy /\ ~ sim.closed => /\ sim.qty + Taken(plan, n, g) <= Lots
                               /\ sim.feeLeft = LotFee * sim.qty
                               /\ pos.qty >= sim.qty + part.qty
    /\ pc = "sync" => pos.qty = sim.qty /\ pos.sl = sim.sl /\ pos.feeLeft = sim.feeLeft

\* As long as nothing has failed.
Smooth(n, h, g) ==
    /\ InHand + sold = Lots
    /\ ~ Busy /\ ~ pos.closed => sold = Taken(plan, n, h)
    /\ Running => sold + part.qty = Taken(plan, n, g)

\* The first target moves the stop before any row shows it.
Freed(h, g) ==
    /\ h >= 1 => pos.sl = Entry /\ (Busy => sim.sl = Entry)
    /\ Running /\ g >= 1 => sim.sl = Entry

\* A sound plan's parts yield what the stop would have.
Priced ==
    /\ part.gross >= part.qty * dir * (sim.sl - Entry)
    /\ exit.at # 0 => dir * exit.at >= dir * sim.sl

Profit(h) ==
    /\ ~ Busy /\ ~ pos.closed => gross >= sold
    /\ Running => gross + part.gross >= sold + part.qty
    /\ Busy /\ h >= 1 => gross > 0

Ledger(n, h, g) ==
    /\ Shaped(n, h, g) /\ Counted(n, h, g)
    /\ ~ real => Paper(n, h, g) /\ Freed(h, g)
    /\ ~ real /\ faults = 0 => Smooth(n, h, g) /\ (Sound => Profit(h))

SimInv ==
    /\ Typed
    /\ Sound => Priced
    /\ \E n \in 0..Len(plan) : \E h \in 0..n : \E g \in h..n : Ledger(n, h, g)

\* The targets a plan may have.
LEMMA PlanRows ==
  ASSUME NEW d \in {1, -1}, NEW ts \in Plans[d]
  PROVE  /\ ts \in Seq(FreshTargets) /\ Len(ts) \in Nat \ {0} /\ DOMAIN ts = 1..Len(ts)
         /\ \A i \in 1..Len(ts) : ts[i] \in FreshTargets /\ ts[i].price \in Nat \ {0}
<1>1. ts \in Seq(FreshTargets) /\ ts # <<>>
  BY SimulatorAssumption DEF FreshTargets
<1>2. PICK n \in Nat : n = Len(ts)
  BY <1>1
<1>3. n # 0
  BY <1>1, <1>2
<1>4. DOMAIN ts = 1..n /\ \A i \in 1..n : ts[i] \in FreshTargets
  BY <1>1, <1>2
<1>5. \A i \in 1..n : ts[i].price \in Nat \ {0}
  BY <1>4 DEF FreshTargets
<1> QED
  BY <1>1, <1>2, <1>3, <1>4, <1>5

\* What follows from the types, without their definitions.
LEMMA Knows ==
  ASSUME Typed
  PROVE  /\ dir \in {1, -1} /\ real \in BOOLEAN
         /\ plan \in Seq(FreshTargets) /\ Len(plan) \in Nat \ {0}
         /\ DOMAIN plan = 1..Len(plan)
         /\ Prices \subseteq Nat \ {0} /\ \A i \in 1..Len(plan) : plan[i].price \in Prices
         /\ FirstStop \in Nat \ {0} /\ Entry \in Nat \ {0}
         /\ dir * Entry >= dir * FirstStop
         /\ Sound => \A price \in Prices : dir * price > dir * Entry
<1>1. dir \in {1, -1} /\ real \in BOOLEAN /\ plan \in Plans[dir]
  BY DEF Typed
<1>2. PICK d \in {1, -1} : d = dir
  BY <1>1
<1>3. /\ plan \in Seq(FreshTargets) /\ Len(plan) \in Nat \ {0} /\ DOMAIN plan = 1..Len(plan)
      /\ \A i \in 1..Len(plan) : plan[i].price \in Nat \ {0}
  BY <1>1, PlanRows
<1>4. Prices \subseteq Nat \ {0} /\ \A i \in 1..Len(plan) : plan[i].price \in Prices
  BY <1>3 DEF Prices
<1>5. Entry \in Nat \ {0} /\ StopDist \in Nat \ {0} /\ StopDist < Entry
  BY PlanAssumption
<1>6. FirstStop \in Nat \ {0} /\ dir * Entry >= dir * FirstStop
  <2>1. CASE d = 1
    BY <1>2, <1>5, <2>1 DEF FirstStop
  <2>2. CASE d = -1
    BY <1>2, <1>5, <2>2 DEF FirstStop
  <2> QED
    BY <2>1, <2>2
<1>7. Sound => \A price \in Prices : dir * price > dir * Entry
  BY DEF Sound, Prices
<1> QED
  BY <1>1, <1>3, <1>4, <1>5, <1>6, <1>7

LEMMA PositionsStay ==
  ASSUME dir' = dir, plan' = plan
  PROVE  /\ Positions' = Positions /\ (Sound' <=> Sound) /\ FirstStop' = FirstStop
         /\ Prices' = Prices
<1>1. FirstStop' = FirstStop /\ Prices' = Prices
  BY DEF FirstStop, Prices
<1>2. Sound' <=> Sound
  BY DEF Sound
<1> QED
  BY <1>1, <1>2 DEF Positions, RowTargets

LEMMA PositionIs ==
  ASSUME NEW p \in Positions
  PROVE  /\ p.qty \in Nat /\ p.sl \in {FirstStop, Entry} /\ p.tp \in Prices
         /\ p.feeLeft \in Nat /\ p.targets \in Seq(RowTargets) /\ p.closed \in BOOLEAN
         /\ p = [qty |-> p.qty, sl |-> p.sl, tp |-> p.tp, feeLeft |-> p.feeLeft,
                 targets |-> p.targets, closed |-> p.closed]
BY DEF Positions

LEMMA SimInit == Init => SimInv
<1> SUFFICES ASSUME Init PROVE SimInv
  OBVIOUS
<1>1. /\ dir \in {1, -1} /\ real \in BOOLEAN /\ plan \in Plans[dir]
      /\ sim = [qty |-> Lots, sl |-> FirstStop, tp |-> Last(plan).price,
                feeLeft |-> EntryFeeTotal, targets |-> plan, closed |-> FALSE]
      /\ pos = [sim EXCEPT !.targets = <<>>]
      /\ pc = "plan" /\ bar = 0 /\ exit = NoExit /\ part = NoPart
      /\ agents = [a \in Agents |-> NoSync]
      /\ faults = 0 /\ sold = 0 /\ gross = 0 /\ fees = 0
  BY DEF Init
<1>2. PICK d \in {1, -1} : d = dir
  BY <1>1
<1>3. /\ plan \in Seq(FreshTargets) /\ Len(plan) \in Nat \ {0} /\ DOMAIN plan = 1..Len(plan)
      /\ \A i \in 1..Len(plan) : plan[i] \in FreshTargets /\ plan[i].price \in Nat \ {0}
  BY <1>1, PlanRows
<1>4. Last(plan).price \in Prices
  BY <1>3 DEF Last, Prices
<1>5. /\ Lots \in Nat \ {0} /\ LotFee \in Nat /\ LotMin \in Nat
      /\ EntryFeeTotal = Lots * LotFee /\ EntryFeeTotal \in Nat
  BY LotFees
<1>6. plan \in Seq(RowTargets) /\ <<>> \in Seq(RowTargets)
  <2>1. Marked(plan, Len(plan), 0) \in Seq(RowTargets)
    BY <1>3, MarkedIs
  <2> QED
    BY <1>3, <2>1, MarkedNone
<1>7. /\ pos = [qty |-> Lots, sl |-> FirstStop, tp |-> Last(plan).price,
                feeLeft |-> EntryFeeTotal, targets |-> <<>>, closed |-> FALSE]
  BY <1>1
<1>8. sim \in Positions /\ pos \in Positions
  BY <1>1, <1>4, <1>5, <1>6, <1>7 DEF Positions
<1>9. Typed
  BY <1>1, <1>8 DEF Typed, Busy, NoExit, NoPart, NoSync
<1>10. Sound => Priced
  <2>1. PICK x \in Int : x = sim.sl - Entry
    BY <1>9, Knows, PositionIs, <1>8
  <2>2. 0 * dir * x = 0
    BY <1>2
  <2> QED
    BY <1>1, <2>1, <2>2 DEF Priced, NoPart, NoExit
<1>11. Marked(plan, 0, 0) = <<>> /\ Taken(plan, 0, 0) = 0
  <2>1. Taken(plan, 0, 0) = 0
    BY <1>3, TakenIs
  <2>2. Marked(plan, 0, 0) = <<>>
    BY DEF Marked
  <2> QED
    BY <2>1, <2>2
<1>12. Shaped(0, 0, 0) /\ Counted(0, 0, 0)
  BY <1>1, <1>7, <1>11 DEF Shaped, Counted, NoPart
<1>13. InHand = Lots
  BY <1>1, <1>5 DEF InHand, NoPart
<1>14. Paper(0, 0, 0)
  <2>1. LotFee * Lots = Lots * LotFee /\ LotFee * 0 = 0 /\ LotMin * 0 = 0 /\ Lots * (1 + 0) = Lots
    BY <1>5
  <2> QED
    BY <1>1, <1>5, <1>7, <1>11, <1>13, <2>1 DEF Paper, NoPart, Busy
<1>15. Freed(0, 0) /\ Smooth(0, 0, 0) /\ Profit(0)
  BY <1>1, <1>5, <1>11, <1>13 DEF Freed, Smooth, Profit, Busy, NoPart
<1>16. Ledger(0, 0, 0)
  BY <1>12, <1>14, <1>15 DEF Ledger
<1>17. 0 \in 0..Len(plan) /\ 0 \in 0..0
  BY <1>3
<1> QED
  BY <1>9, <1>10, <1>16, <1>17 DEF SimInv

-----------------------------------------------------------------------------
(* The handler sells a part.                                               *)

LEMMA Sale ==
  ASSUME Typed, Sound => Priced,
         NEW n \in 0..Len(plan), NEW h \in 0..n, NEW g \in h..n, Ledger(n, h, g),
         NEW j \in g..n,
         pc = "candle", ~ sim.closed,
         NEW q \in Nat, NEW kept \in Nat, NEW fee \in Nat, NEW yield \in Int, q <= sim.qty,
         UNCHANGED <<dir, real, plan, bar, agents, faults, history>>,
         sim' \in Positions, sim'.qty = sim.qty - q, sim'.feeLeft = kept,
         sim'.closed <=> sim.qty - q <= 0, sim'.sl \in {sim.sl, Entry},
         part' = [qty |-> q, gross |-> yield, fees |-> fee],
         pos' = [pos EXCEPT !.closed = sim'.closed, !.qty = IF sim'.closed THEN 0 ELSE pos.qty],
         pc' = "trade",
         exit' \in [at: Nat, parts: BOOLEAN], exit'.at = 0 => exit.at = 0,
         ~ sim'.closed => /\ sim'.targets = Marked(plan, n, j)
                          /\ Taken(plan, n, j) = Taken(plan, n, g) + q,
         q <= Lots => /\ fee >= LotFee * q /\ fee >= LotMin * q
                      /\ sim.feeLeft = LotFee * sim.qty => kept = LotFee * (sim.qty - q),
         exit'.at = 0 /\ j >= 1 => sim'.sl = Entry \/ (g >= 1 /\ sim'.sl = sim.sl),
         Sound => /\ yield >= q * dir * (sim'.sl - Entry)
                  /\ exit'.at = 0 => yield >= q
                  /\ exit'.at # 0 => dir * exit'.at >= dir * sim'.sl
  PROVE  SimInv' /\ InHand' = InHand /\ Stop' \in {Stop, Entry}
<1>1. /\ dir \in {1, -1} /\ real \in BOOLEAN /\ pos \in Positions /\ sim \in Positions
      /\ part = NoPart /\ sold \in Nat /\ gross \in Int /\ fees \in Nat /\ faults \in Nat
  BY DEF Typed, Busy
<1>2. /\ UNCHANGED <<dir, real, plan, bar, agents, faults, sold, gross, fees>>
      /\ plan' = plan
  BY DEF history
<1>3. Positions' = Positions /\ (Sound' <=> Sound) /\ FirstStop' = FirstStop
  BY <1>2, PositionsStay
<1>4. PICK c \in BOOLEAN : (c <=> sim'.closed) /\ sim'.closed = c
  BY PositionIs
<1>5. pos' \in Positions /\ (pos'.closed <=> c) /\ pos'.qty = (IF c THEN 0 ELSE pos.qty)
      /\ pos'.sl = pos.sl /\ pos'.feeLeft = pos.feeLeft /\ pos'.targets = pos.targets
  <2>1. PICK u \in Nat : u = IF c THEN 0 ELSE pos.qty
    BY <1>1, PositionIs
  <2>2. pos' = [pos EXCEPT !.closed = c, !.qty = u]
    BY <1>4, <2>1
  <2>3. pos' \in Positions
    BY <1>1, <2>2 DEF Positions
  <2>4. pos'.closed = c /\ pos'.qty = u /\ pos'.sl = pos.sl /\ pos'.feeLeft = pos.feeLeft
        /\ pos'.targets = pos.targets
    BY <1>1, <2>2 DEF Positions
  <2> QED
    BY <2>1, <2>3, <2>4
<1>6. part' \in [qty: Nat, gross: Int, fees: Nat] /\ part'.qty = q /\ part'.gross = yield
      /\ part'.fees = fee
  OBVIOUS
<1>7. Typed'
  BY <1>2, <1>3, <1>5, <1>6 DEF Typed, Busy
<1>8. Sound' => Priced'
  BY <1>2, <1>3, <1>6 DEF Priced
<1>9. n \in 0..Len(plan') /\ h \in 0..n /\ j \in h..n /\ Taken(plan, n, h) \in Nat
      /\ Taken(plan, n, g) \in Nat
  BY <1>1, <1>2, Knows, TakenIs
<1>10. Shaped(n, h, j)'
  BY <1>2, <1>5 DEF Shaped, Ledger, Busy
<1>11. Running' <=> ~ c /\ exit'.at = 0
  BY <1>4 DEF Running, Busy
<1>12. Running' => Running
  BY <1>11 DEF Running, Busy
<1>13. Counted(n, h, j)'
  BY <1>1, <1>2, <1>4, <1>6, <1>9, <1>11, <1>12 DEF Counted, Ledger, NoPart
<1>14. sim.qty \in Nat /\ pos.qty \in Nat /\ (c <=> sim.qty - q = 0)
  <2>1. sim.qty \in Nat /\ pos.qty \in Nat
    BY <1>1, PositionIs
  <2>2. sim.qty - q <= 0 <=> sim.qty - q = 0
    BY <2>1
  <2> QED
    BY <1>4, <2>1, <2>2, Zenon
<1>15. InHand' = InHand
  <2>1. InHand = sim.qty + part.qty /\ InHand' = sim'.qty + part'.qty
    BY DEF InHand
  <2> QED
    BY <1>1, <1>6, <1>14, <2>1 DEF NoPart
<1>16. ASSUME ~ real PROVE Paper(n, h, j)'
  <2>1. Paper(n, h, g)
    BY <1>16 DEF Ledger
  <2>2. /\ pos.qty + Taken(plan, n, h) <= Lots /\ ~ pos.closed
        /\ pos.feeLeft = LotFee * pos.qty /\ pos.qty # 0
        /\ sim.qty + Taken(plan, n, g) <= Lots /\ sim.feeLeft = LotFee * sim.qty
        /\ pos.qty >= sim.qty + part.qty
    BY <2>1 DEF Paper, Busy
  <2>3. part.qty = 0 /\ q <= Lots
    <3>1. part.qty = 0
      BY <1>1 DEF NoPart
    <3>2. PICK t \in Nat : t = Taken(plan, n, g)
      BY <1>9
    <3>3. sim.qty + t <= Lots /\ Lots \in Nat
      BY <2>2, <3>2, LotFees
    <3>4. q <= Lots
      BY <1>14, <3>3
    <3> QED
      BY <3>1, <3>4
  <2>4. /\ fee >= LotFee * q /\ fee >= LotMin * q /\ kept = LotFee * (sim.qty - q)
    BY <2>2, <2>3
  <2>5. /\ pos'.qty + Taken(plan, n, h) <= Lots /\ (pos'.closed <=> pos'.qty = 0)
        /\ ~ pos'.closed => pos'.feeLeft = LotFee * pos'.qty
    <3>1. PICK t \in Nat : t = Taken(plan, n, h)
      BY <1>9
    <3>2. pos.qty + t <= Lots /\ Lots \in Nat
      BY <2>2, <3>1, LotFees
    <3>3. CASE c
      <4>1. pos'.qty = 0 /\ pos'.closed
        BY <1>5, <3>3
      <4>2. 0 + t <= Lots
        BY <1>14, <3>2
      <4> QED
        BY <3>1, <4>1, <4>2
    <3>4. CASE ~ c
      BY <1>5, <2>2, <3>4
    <3> QED
      BY <3>3, <3>4
  <2>6. fees >= LotFee * sold /\ fees >= LotMin * sold /\ InHand + sold <= Lots * (1 + faults)
    BY <2>1 DEF Paper
  <2>7. (pos'.closed <=> sim'.closed) /\ (sim'.closed <=> sim'.qty = 0)
    BY <1>4, <1>5, <1>14
  <2>8. ~ sim'.closed => /\ sim'.qty + Taken(plan, n, j) <= Lots
                         /\ sim'.feeLeft = LotFee * sim'.qty
                         /\ pos'.qty >= sim'.qty + part'.qty
    <3> SUFFICES ASSUME ~ c
                 PROVE  /\ sim'.qty + Taken(plan, n, j) <= Lots
                        /\ sim'.feeLeft = LotFee * sim'.qty
                        /\ pos'.qty >= sim'.qty + part'.qty
      BY <1>4
    <3>1. PICK t \in Nat : t = Taken(plan, n, g)
      BY <1>9
    <3>2. Taken(plan, n, j) = t + q /\ pos'.qty = pos.qty /\ sim.qty + t <= Lots
      BY <1>4, <1>5, <2>2, <3>1
    <3>3. sim'.qty + (t + q) <= Lots
      <4>1. sim'.qty = sim.qty - q /\ Lots \in Int
        BY LotFees
      <4>2. (sim.qty - q) + (t + q) <= Lots
        BY <1>14, <3>2, <4>1
      <4> QED
        BY <4>1, <4>2
    <3>4. pos'.qty >= sim'.qty + part'.qty
      BY <1>6, <1>14, <2>2, <2>3, <3>2
    <3> QED
      BY <2>4, <3>2, <3>3, <3>4
  <2> QED
    BY <1>2, <1>6, <1>15, <2>4, <2>5, <2>6, <2>7, <2>8 DEF Paper
<1>17. ASSUME ~ real PROVE Freed(h, j)'
  <2>1. Freed(h, g)
    BY <1>17 DEF Ledger
  <2> QED
    BY <1>5, <1>11, <1>12, <2>1 DEF Freed, Busy
<1>18. ASSUME ~ real, faults = 0 PROVE Smooth(n, h, j)' /\ (Sound' => Profit(h)')
  <2>1. Smooth(n, h, g) /\ (Sound => Profit(h))
    BY <1>18 DEF Ledger
  <2>2. Smooth(n, h, j)'
    BY <1>1, <1>2, <1>4, <1>6, <1>9, <1>11, <1>12, <1>15, <2>1 DEF Smooth, Busy, NoPart
  <2>3. Sound' => Profit(h)'
    BY <1>1, <1>2, <1>3, <1>6, <1>11, <1>12, <2>1 DEF Profit, Busy, NoPart
  <2> QED
    BY <2>2, <2>3
<1>19. Ledger(n, h, j)'
  BY <1>2, <1>10, <1>13, <1>16, <1>17, <1>18 DEF Ledger
<1>20. Stop' \in {Stop, Entry}
  BY DEF Stop
<1> QED
  BY <1>7, <1>8, <1>9, <1>15, <1>19, <1>20 DEF SimInv

\* Marking a target filled.
LEMMA FillIs ==
  ASSUME NEW p \in Positions, NEW ts \in Seq(FreshTargets), NEW n \in 0..Len(ts),
         NEW g \in 0..n, g < n, p.targets = Marked(ts, n, g), NEW q \in Nat
  PROVE  /\ Fill(p, g + 1, q) \in Positions
         /\ Fill(p, g + 1, q).qty = p.qty /\ Fill(p, g + 1, q).sl = p.sl
         /\ Fill(p, g + 1, q).tp = p.tp /\ Fill(p, g + 1, q).feeLeft = p.feeLeft
         /\ Fill(p, g + 1, q).closed = p.closed
         /\ Len(Fill(p, g + 1, q).targets) = n
         /\ \A i \in 1..n : Fill(p, g + 1, q).targets[i].price = ts[i].price
         /\ q = ts[g + 1].qty => Fill(p, g + 1, q).targets = Marked(ts, n, g + 1)
<1> DEFINE m == Marked(ts, n, g)
           k == g + 1
           new == [m[k] EXCEPT !.filledQty = 0 + q, !.hit = 0 + q >= m[k].qty]
           next == [m EXCEPT ![k] = new]
<1>1. /\ m \in Seq(RowTargets) /\ Len(m) = n /\ DOMAIN m = 1..n /\ k \in 1..n
      /\ \A i \in 1..n : m[i].price = ts[i].price
      /\ m[k].qty = ts[k].qty /\ ts[k].qty \in Nat \ {0}
      /\ m[k].filledQty = 0 /\ m[k] \in RowTargets
  <2>1. k \in 1..n /\ ~ (k <= g)
    OBVIOUS
  <2>2. /\ m \in Seq(RowTargets) /\ Len(m) = n /\ DOMAIN m = 1..n
        /\ \A i \in 1..n : /\ m[i].price = ts[i].price /\ m[i].qty = ts[i].qty
                           /\ ts[i].qty \in Nat \ {0}
                           /\ m[i].filledQty = IF i <= g THEN ts[i].qty ELSE 0
                           /\ m[i] \in RowTargets
    BY MarkedIs
  <2> HIDE DEF m, k
  <2> QED
    BY <2>1, <2>2
<1>2. Fill(p, k, q) = [p EXCEPT !.targets = next]
  <2>1. p.targets = m /\ p.targets[k].filledQty = 0
    BY <1>1
  <2> QED
    BY <2>1 DEF Fill
<1>3. q = ts[k].qty => next = Marked(ts, n, g + 1)
  <2> SUFFICES ASSUME q = ts[k].qty PROVE next = Marked(ts, n, g + 1)
    OBVIOUS
  <2>1. /\ Marked(ts, n, g + 1) = [m EXCEPT ![k] = Marked(ts, n, g + 1)[k]]
        /\ Marked(ts, n, g + 1)[k] = [m[k] EXCEPT !.filledQty = ts[k].qty, !.hit = TRUE]
    BY MarkedNext, ZenonT(60)
  <2>2. 0 + q = ts[k].qty /\ (0 + q >= m[k].qty) = TRUE
    BY <1>1
  <2> HIDE DEF m, k
  <2> QED
    BY <2>1, <2>2
<1>4. next \in Seq(RowTargets) /\ Len(next) = n
      /\ \A i \in 1..n : next[i].price = ts[i].price
  <2> DEFINE b == 0 + q >= m[k].qty
  <2>1. b \in BOOLEAN
    OBVIOUS
  <2>2. PICK t \in RowTargets : t = m[k]
    BY <1>1
  <2>3. new = [t EXCEPT !.filledQty = 0 + q, !.hit = b]
    BY <2>2
  <2> HIDE DEF b
  <2>5. PICK u \in Nat : u = 0 + q
    OBVIOUS
  <2>4. new \in RowTargets /\ new.price = t.price
    <3>1. [t EXCEPT !.filledQty = u, !.hit = b] \in RowTargets
      BY <2>1 DEF RowTargets
    <3>2. [t EXCEPT !.filledQty = u, !.hit = b].price = t.price
      BY DEF RowTargets
    <3> HIDE DEF new
    <3> QED
      BY <2>3, <2>5, <3>1, <3>2
  <2> HIDE DEF m, k, new
  <2> QED
    BY <1>1, <2>2, <2>4
<1> HIDE DEF next, m
<1>5. Fill(p, k, q) \in Positions /\ Fill(p, k, q).targets = next
  BY <1>2, <1>4 DEF Positions
<1>6. /\ Fill(p, k, q).qty = p.qty /\ Fill(p, k, q).sl = p.sl /\ Fill(p, k, q).tp = p.tp
      /\ Fill(p, k, q).feeLeft = p.feeLeft /\ Fill(p, k, q).closed = p.closed
  BY <1>2, <1>4 DEF Positions
<1> QED
  BY <1>3, <1>4, <1>5, <1>6

LEMMA UpdateTpIs ==
  ASSUME NEW p \in Positions, \A i \in 1..Len(p.targets) : p.targets[i].price \in Prices
  PROVE  /\ UpdateTp(p) \in Positions
         /\ UpdateTp(p).qty = p.qty /\ UpdateTp(p).sl = p.sl /\ UpdateTp(p).closed = p.closed
         /\ UpdateTp(p).feeLeft = p.feeLeft /\ UpdateTp(p).targets = p.targets
<1> DEFINE k == NextTarget(p)
<1>1. k = 0 \/ k \in 1..Len(p.targets)
  <2> DEFINE I == {i \in 1..Len(p.targets) : ~ p.targets[i].hit}
  <2>1. k = IF I # {} THEN Min(I) ELSE 0
    BY DEF NextTarget, SelectInSeq
  <2>2. I \in SUBSET Nat
    BY PositionIs
  <2>3. I # {} => Min(I) \in I
    BY <2>2, MinIn
  <2> HIDE DEF k
  <2> QED
    BY <2>1, <2>3
<1> HIDE DEF k
<1>2. CASE k = 0
  BY <1>2 DEF UpdateTp, k
<1>3. CASE k # 0
  <2>1. p.targets[k].price \in Prices
    BY <1>1, <1>3
  <2>2. UpdateTp(p) = [p EXCEPT !.tp = p.targets[k].price]
    BY <1>3 DEF UpdateTp, k
  <2> QED
    BY <2>1, <2>2 DEF Positions
<1> QED
  BY <1>2, <1>3

LEMMA ExitIs ==
  ASSUME Typed, Sound => Priced, pc = "candle"
  PROVE  /\ Exit \in [at: Nat, parts: BOOLEAN]
         /\ Sound /\ Exit.at # 0 => dir * Exit.at >= dir * sim.sl
<1>1. /\ sim \in Positions /\ exit \in [at: Nat, parts: BOOLEAN] /\ dir \in {1, -1}
      /\ Prices \subseteq Nat \ {0} /\ FirstStop \in Nat \ {0} /\ Entry \in Nat \ {0}
      /\ dir * Entry >= dir * FirstStop
      /\ Sound => \A price \in Prices : dir * price > dir * Entry
  BY Knows DEF Typed, Busy
<1>2. sim.sl \in {FirstStop, Entry} /\ sim.sl \in Nat /\ sim.tp \in Prices /\ sim.tp \in Nat
  BY <1>1, PositionIs
<1>3. CASE exit.at # 0
  <2>1. Exit = exit
    BY <1>3 DEF Exit
  <2> QED
    BY <1>1, <1>3, <2>1 DEF Priced
<1>4. CASE exit.at = 0
  <2> DEFINE price == ExitPrice(sim, bar)
  <2> DEFINE b == Cardinality(Unfilled(sim)) > 1
  <2>1. b \in BOOLEAN
    OBVIOUS
  <2>2. Exit = [at |-> price, parts |-> b]
    BY <1>4 DEF Exit
  <2> HIDE DEF b
  <2>3. price \in {sim.sl, sim.tp, 0}
    BY DEF ExitPrice
  <2> HIDE DEF price
  <2>4. Exit.at = price /\ Exit.parts = b /\ price \in Nat
    BY <1>2, <2>1, <2>2, <2>3
  <2>5. Exit \in [at: Nat, parts: BOOLEAN]
    BY <2>1, <2>2, <2>4
  <2>6. ASSUME Sound, price # 0 PROVE dir * price >= dir * sim.sl
    <3>1. CASE price = sim.sl
      BY <1>1, <1>2, <3>1
    <3>2. CASE price = sim.tp
      <4>1. dir * sim.tp > dir * Entry
        BY <1>1, <1>2, <2>6
      <4>2. PICK d \in {1, -1} : d = dir
        BY <1>1
      <4> QED
        BY <1>1, <1>2, <3>2, <4>1, <4>2
    <3> QED
      BY <2>3, <2>6, <3>1, <3>2
  <2> QED
    BY <2>4, <2>5, <2>6
<1> QED
  BY <1>3, <1>4

\* The books after a part of the copy was sold.
LEMMA CopySold ==
  ASSUME Typed, pc = "candle", NEW at \in Nat, NEW want \in Nat
  PROVE  \E q \in Nat, kept \in Nat, fee \in Nat, yield \in Int :
            /\ q <= want /\ q <= sim.qty /\ (q = want \/ q = sim.qty)
            /\ yield = (at - Entry) * q * dir
            /\ ClosePart(sim, at, want).part = [qty |-> q, gross |-> yield, fees |-> fee]
            /\ ClosePart(sim, at, want).pos \in Positions
            /\ ClosePart(sim, at, want).pos.qty = sim.qty - q
            /\ ClosePart(sim, at, want).pos.feeLeft = kept
            /\ ClosePart(sim, at, want).pos.closed <=> sim.qty - q <= 0
            /\ ClosePart(sim, at, want).pos.sl = sim.sl
            /\ ClosePart(sim, at, want).pos.tp = sim.tp
            /\ ClosePart(sim, at, want).pos.targets = sim.targets
            /\ q <= Lots => /\ fee >= LotFee * q /\ fee >= LotMin * q
                            /\ sim.feeLeft = LotFee * sim.qty => kept = LotFee * (sim.qty - q)
<1>1. sim \in Positions /\ dir \in {1, -1}
  BY DEF Typed, Busy
<1>2. sim.qty \in Nat /\ sim.feeLeft \in Nat
  BY <1>1, PositionIs
<1>3. PICK q \in Nat : q = Min({want, sim.qty}) /\ q \in {want, sim.qty} /\ q <= want /\ q <= sim.qty
  <2>1. /\ Min({want, sim.qty}) \in {want, sim.qty}
        /\ Min({want, sim.qty}) <= want /\ Min({want, sim.qty}) <= sim.qty
    <3>1. want \in Int /\ sim.qty \in Int
      BY <1>2
    <3> QED
      BY <3>1, MinPair
  <2> QED
    BY <1>2, <2>1
<1> DEFINE share == ShareOf(EntryFeeTotal, q)
           floor == ShareOf(MinFee, q)
           costs == at * q * FeeRate
           fee == Max({share + costs, floor})
           kept == Max({0, sim.feeLeft - share})
           after == ClosePart(sim, at, want)
<1>4. /\ share \in Nat /\ floor \in Nat /\ costs \in Nat
      /\ q <= Lots => share = LotFee * q /\ floor = LotMin * q
  <2>1. costs \in Nat
    BY LotFees
  <2> QED
    BY <2>1, Shares
<1>5. /\ after.pos = [sim EXCEPT !.qty = sim.qty - q, !.feeLeft = kept, !.closed = sim.qty - q <= 0]
      /\ after.part = [qty |-> q, gross |-> (at - Entry) * q * dir, fees |-> fee]
  BY <1>3 DEF ClosePart, Booked
<1> HIDE DEF after, share, floor, costs
<1>6. fee \in Nat /\ fee >= share + costs /\ fee >= floor
  <2>1. fee \in {share + costs, floor} /\ fee >= share + costs /\ fee >= floor
    <3>1. share + costs \in Int /\ floor \in Int
      BY <1>4
    <3> QED
      BY <3>1, MaxPair
  <2> HIDE DEF fee
  <2> QED
    BY <1>4, <2>1
<1>7. kept \in Nat /\ (share <= sim.feeLeft => kept = sim.feeLeft - share)
  <2>1. /\ kept \in {0, sim.feeLeft - share} /\ kept >= 0 /\ kept >= sim.feeLeft - share
        /\ sim.feeLeft - share \in Int
    <3>1. sim.feeLeft - share \in Int /\ 0 \in Int
      BY <1>2, <1>4
    <3> QED
      BY <3>1, MaxPair
  <2> HIDE DEF kept
  <2> QED
    BY <1>2, <1>4, <2>1
<1> HIDE DEF fee, kept
<1>8. (at - Entry) * q * dir \in Int
  BY <1>1, LotFees
<1>9. ASSUME q <= Lots
      PROVE  /\ fee >= LotFee * q /\ fee >= LotMin * q
             /\ sim.feeLeft = LotFee * sim.qty => kept = LotFee * (sim.qty - q)
  <2>1. share = LotFee * q /\ floor = LotMin * q
    BY <1>4, <1>9
  <2>2. LotFee * q <= LotFee * sim.qty
    BY <1>2, <1>3, LotFees, TimesMonotone
  <2>3. LotFee * (sim.qty - q) = LotFee * sim.qty - LotFee * q
    BY <1>2, <1>3, LotFees
  <2>4. LotFee * q \in Int /\ LotFee * sim.qty \in Int
    BY <1>2, <1>3, LotFees
  <2> QED
    BY <1>4, <1>6, <1>7, <2>1, <2>2, <2>3, <2>4
<1> DEFINE c == sim.qty - q <= 0
<1>10. c \in BOOLEAN
  OBVIOUS
<1>11. PICK left \in Nat : left = sim.qty - q
  BY <1>2, <1>3
<1>12. after.pos = [sim EXCEPT !.qty = left, !.feeLeft = kept, !.closed = c]
  BY <1>5, <1>11
<1> HIDE DEF c
<1>13. PICK s \in Positions : s = sim
  BY <1>1
<1>14. [s EXCEPT !.qty = left, !.feeLeft = kept, !.closed = c] \in Positions
  BY <1>7, <1>10 DEF Positions
<1>15. PICK p \in Positions : /\ p = [s EXCEPT !.qty = left, !.feeLeft = kept, !.closed = c]
                              /\ p = after.pos
  BY <1>12, <1>13, <1>14
<1>16. /\ p.qty = left /\ p.feeLeft = kept /\ p.closed = c /\ p.sl = s.sl /\ p.tp = s.tp
       /\ p.targets = s.targets
  BY <1>15 DEF Positions
<1>17. after.pos.closed <=> sim.qty - q <= 0
  BY <1>15, <1>16 DEF c
<1>18. PICK yield \in Int : yield = (at - Entry) * q * dir
  BY <1>8
<1>19. after.part = [qty |-> q, gross |-> yield, fees |-> fee]
  BY <1>5, <1>18
<1>20. /\ after.pos \in Positions /\ after.pos.qty = sim.qty - q /\ after.pos.feeLeft = kept
       /\ after.pos.sl = sim.sl /\ after.pos.tp = sim.tp /\ after.pos.targets = sim.targets
  BY <1>11, <1>13, <1>15, <1>16
<1>21. q <= want /\ q <= sim.qty /\ (q = want \/ q = sim.qty)
  BY <1>3
<1>22. PICK k \in Nat, f \in Nat : k = kept /\ f = fee
  BY <1>6, <1>7
<1> WITNESS q \in Nat, k \in Nat, f \in Nat, yield \in Int
<1> QED
  BY <1>9, <1>22, <1>17, <1>18, <1>19, <1>20, <1>21 DEF after

LEMMA SimTakeTarget ==
  ASSUME Typed, Sound => Priced,
         NEW n \in 0..Len(plan), NEW h \in 0..n, NEW g \in h..n, Ledger(n, h, g), TakeTarget
  PROVE  SimInv' /\ InHand' = InHand /\ Stop' \in {Stop, Entry}
<1>1. /\ sim \in Positions /\ dir \in {1, -1} /\ plan \in Seq(FreshTargets)
      /\ Len(plan) \in Nat /\ FirstStop \in Nat \ {0} /\ Entry \in Nat \ {0}
      /\ dir * Entry >= dir * FirstStop
      /\ Prices \subseteq Nat \ {0} /\ \A i \in 1..Len(plan) : plan[i].price \in Prices
      /\ Sound => \A price \in Prices : dir * price > dir * Entry
      /\ pc = "candle" /\ ~ sim.closed /\ exit.at = 0 /\ exit \in [at: Nat, parts: BOOLEAN]
  BY Knows DEF TakeTarget, Typed, Busy
<1>2. sim.targets = Marked(plan, n, g) /\ NextTarget(sim) # 0
  BY <1>1 DEF Ledger, Shaped, Busy, TakeTarget, TargetHit
<1> DEFINE k == g + 1
           t == sim.targets[k]
           want == Min({sim.qty, Remaining(t)})
           after == ClosePart(sim, t.price, want)
           moved == IF k = 1 THEN [after.pos EXCEPT !.sl = Entry] ELSE after.pos
<1>3. NextTarget(sim) = k /\ g < n /\ g \in 0..n
  BY <1>1, <1>2, NextIs
<1>4. /\ k \in 1..n /\ k \in 1..Len(plan) /\ t.price = plan[k].price /\ t.qty = plan[k].qty
      /\ t.filledQty = 0 /\ t.price \in Nat /\ t.qty \in Nat \ {0} /\ t.price \in Prices
  <2>1. k \in 1..n /\ k \in 1..Len(plan) /\ ~ (k <= g)
    BY <1>1, <1>3
  <2>2. /\ t.price = plan[k].price /\ t.qty = plan[k].qty /\ plan[k].qty \in Nat \ {0}
        /\ t.filledQty = 0
    <3>1. \A i \in 1..n :
             /\ sim.targets[i].price = plan[i].price /\ sim.targets[i].qty = plan[i].qty
             /\ plan[i].qty \in Nat \ {0}
             /\ sim.targets[i].filledQty = IF i <= g THEN plan[i].qty ELSE 0
      <4>1. g \in 0..n /\ n \in 0..Len(plan) /\ plan \in Seq(FreshTargets)
        BY <1>1, <1>3
      <4>2. \A i \in 1..n :
             /\ Marked(plan, n, g)[i].price = plan[i].price
             /\ Marked(plan, n, g)[i].qty = plan[i].qty
             /\ plan[i].qty \in Nat \ {0}
             /\ Marked(plan, n, g)[i].filledQty = IF i <= g THEN plan[i].qty ELSE 0
        BY <4>1, MarkedIs
      <4> QED
        BY <1>2, <4>2
    <3> HIDE DEF k
    <3> QED
      BY <2>1, <3>1
  <2> HIDE DEF k
  <2> QED
    BY <1>1, <2>1, <2>2
<1>5. /\ sim' = UpdateTp(Fill(moved, k, after.part.qty)) /\ PersistTrade(after)
      /\ UNCHANGED <<dir, real, plan, bar, exit, agents, faults, history>>
  BY <1>3 DEF TakeTarget
<1>6. sim.qty \in Nat /\ sim.sl \in {FirstStop, Entry}
  BY <1>1, PositionIs
<1>7. want \in Nat /\ (want = sim.qty \/ want = plan[k].qty)
  <2>1. Remaining(t) = plan[k].qty /\ plan[k].qty \in Nat
    BY <1>4 DEF Remaining
  <2>2. want \in {sim.qty, plan[k].qty}
    <3>1. sim.qty \in Int /\ plan[k].qty \in Int
      BY <1>6, <2>1
    <3> QED
      BY <2>1, <3>1, MinPair
  <2> HIDE DEF want
  <2> QED
    BY <1>6, <2>1, <2>2
<1> HIDE DEF want
<1>8. PICK q \in Nat, kept \in Nat, fee \in Nat, yield \in Int :
         /\ q <= want /\ q <= sim.qty /\ (q = want \/ q = sim.qty)
         /\ yield = (t.price - Entry) * q * dir
         /\ after.part = [qty |-> q, gross |-> yield, fees |-> fee]
         /\ after.pos \in Positions
         /\ after.pos.qty = sim.qty - q
         /\ after.pos.feeLeft = kept
         /\ after.pos.closed <=> sim.qty - q <= 0
         /\ after.pos.sl = sim.sl
         /\ after.pos.tp = sim.tp
         /\ after.pos.targets = sim.targets
         /\ q <= Lots => /\ fee >= LotFee * q /\ fee >= LotMin * q
                         /\ sim.feeLeft = LotFee * sim.qty => kept = LotFee * (sim.qty - q)
  BY <1>1, <1>4, <1>7, CopySold
<1>9. PICK a : a = after
  OBVIOUS
<1> HIDE DEF after, t
<1>10. /\ moved \in Positions /\ moved.qty = sim.qty - q /\ moved.feeLeft = kept
       /\ (moved.closed <=> sim.qty - q <= 0) /\ moved.targets = sim.targets
       /\ moved.sl \in {sim.sl, Entry} /\ moved.sl = (IF k = 1 THEN Entry ELSE sim.sl)
  <2>1. PICK p \in Positions : p = after.pos
    BY <1>8
  <2>2. CASE k = 1
    <3>1. moved = [p EXCEPT !.sl = Entry]
      BY <2>1, <2>2
    <3> HIDE DEF moved
    <3>2. /\ moved \in Positions /\ moved.qty = p.qty /\ moved.feeLeft = p.feeLeft
          /\ moved.closed = p.closed /\ moved.targets = p.targets /\ moved.sl = Entry
      BY <3>1 DEF Positions
    <3> QED
      BY <1>8, <2>1, <2>2, <3>2
  <2>3. CASE k # 1
    BY <1>8, <2>3
  <2> QED
    BY <2>2, <2>3
<1> HIDE DEF moved
<1> DEFINE filled == Fill(moved, k, q)
<1>11. /\ filled \in Positions /\ filled.qty = moved.qty /\ filled.sl = moved.sl
       /\ filled.feeLeft = moved.feeLeft /\ filled.closed = moved.closed
       /\ \A i \in 1..Len(filled.targets) : filled.targets[i].price \in Prices
       /\ q = plan[k].qty => filled.targets = Marked(plan, n, k)
  <2>1. moved.targets = Marked(plan, n, g)
    BY <1>2, <1>10
  <2>2. /\ filled \in Positions /\ filled.qty = moved.qty /\ filled.sl = moved.sl
        /\ filled.feeLeft = moved.feeLeft /\ filled.closed = moved.closed
        /\ Len(filled.targets) = n
        /\ \A i \in 1..n : filled.targets[i].price = plan[i].price
        /\ q = plan[k].qty => filled.targets = Marked(plan, n, k)
    BY <1>1, <1>3, <1>10, <2>1, FillIs
  <2> HIDE DEF filled
  <2>3. \A i \in 1..n : i \in 1..Len(plan)
    BY <1>1
  <2> QED
    BY <1>1, <2>2, <2>3
<1>12. sim' = UpdateTp(filled)
  BY <1>5, <1>8
<1> HIDE DEF filled
<1>13. /\ sim' \in Positions /\ sim'.qty = sim.qty - q /\ sim'.feeLeft = kept
       /\ (sim'.closed <=> sim.qty - q <= 0) /\ sim'.closed = after.pos.closed
       /\ sim'.sl \in {sim.sl, Entry} /\ sim'.sl = (IF k = 1 THEN Entry ELSE sim.sl)
       /\ q = plan[k].qty => sim'.targets = Marked(plan, n, k)
  <2>1. /\ UpdateTp(filled) \in Positions
        /\ UpdateTp(filled).qty = filled.qty /\ UpdateTp(filled).sl = filled.sl
        /\ UpdateTp(filled).closed = filled.closed
        /\ UpdateTp(filled).feeLeft = filled.feeLeft
        /\ UpdateTp(filled).targets = filled.targets
    BY <1>11, UpdateTpIs
  <2>2. (sim'.closed <=> sim.qty - q <= 0)
    BY <1>10, <1>11, <1>12, <2>1
  <2>3. sim'.closed \in BOOLEAN /\ after.pos.closed \in BOOLEAN
    BY <1>8, <1>12, <2>1, PositionIs
  <2>4. sim'.closed = after.pos.closed
    BY <1>8, <2>2, <2>3
  <2> QED
    BY <1>10, <1>11, <1>12, <2>1, <2>2, <2>4
<1>14. /\ part' = [qty |-> q, gross |-> yield, fees |-> fee]
       /\ pos' = [pos EXCEPT !.closed = sim'.closed, !.qty = IF sim'.closed THEN 0 ELSE pos.qty]
       /\ pc' = "trade"
  BY <1>5, <1>8, <1>13 DEF PersistTrade
<1>15. ASSUME ~ sim'.closed
       PROVE  /\ sim'.targets = Marked(plan, n, k)
              /\ Taken(plan, n, k) = Taken(plan, n, g) + q
  <2>1. q = plan[k].qty
    BY <1>6, <1>7, <1>8, <1>13, <1>15
  <2>2. Taken(plan, n, k) = Taken(plan, n, g) + plan[k].qty
    BY <1>1, <1>3, TakenIs
  <2> QED
    BY <1>13, <2>1, <2>2
<1>16. ASSUME Sound
       PROVE  yield >= q * dir * (sim'.sl - Entry) /\ yield >= q
  <2>1. PICK d \in {1, -1} : d = dir
    BY <1>1
  <2>2. PICK at \in Nat : at = t.price
    BY <1>4
  <2>3. PICK sl \in {FirstStop, Entry} : sl = sim'.sl
    BY <1>6, <1>13
  <2>4. d * at > d * Entry
    BY <1>1, <1>4, <1>16, <2>1, <2>2
  <2>5. sl \in Nat /\ Entry \in Nat /\ d * Entry >= d * sl
    BY <1>1, <2>1
  <2>6. d * at >= d * sl
    BY <2>4, <2>5
  <2>7. /\ (at - Entry) * q * d >= q * d * (sl - Entry)
        /\ (at - Entry) * q * d >= q
    BY <2>4, <2>5, <2>6, PartYields
  <2> QED
    BY <1>8, <2>1, <2>2, <2>3, <2>7
<1>17. k \in g..n /\ (k >= 1 => sim'.sl = Entry \/ (g >= 1 /\ sim'.sl = sim.sl))
  BY <1>3, <1>13
<1>18. exit' = exit
  BY <1>5
<1>19. UNCHANGED <<dir, real, plan, bar, agents, faults, history>>
  BY <1>5
<1> HIDE DEF k
<1> QED
  BY <1>1, <1>8, <1>13, <1>14, <1>15, <1>16, <1>17, <1>18, <1>19, Sale

LEMMA SimLeavePart ==
  ASSUME Typed, Sound => Priced,
         NEW n \in 0..Len(plan), NEW h \in 0..n, NEW g \in h..n, Ledger(n, h, g), LeavePart
  PROVE  SimInv' /\ InHand' = InHand /\ Stop' \in {Stop, Entry}
<1>1. /\ sim \in Positions /\ dir \in {1, -1} /\ plan \in Seq(FreshTargets)
      /\ Len(plan) \in Nat /\ FirstStop \in Nat \ {0} /\ Entry \in Nat \ {0}
      /\ pc = "candle" /\ ~ sim.closed
  BY Knows DEF LeavePart, Typed, Busy
<1>2. sim.targets = Marked(plan, n, g) /\ NextTarget(sim) # 0
  BY <1>1 DEF Ledger, Shaped, Busy, LeavePart
<1>0. PICK at : at = Exit.at
  OBVIOUS
<1> DEFINE k == g + 1
           want == Remaining(sim.targets[k])
           after == ClosePart(sim, at, want)
<1>3. NextTarget(sim) = k /\ g < n /\ g \in 0..n
  BY <1>1, <1>2, NextIs
<1>4. want = plan[k].qty /\ want \in Nat
  <2>1. k \in 1..n /\ ~ (k <= g)
    BY <1>1, <1>3
  <2>2. \A i \in 1..n :
           /\ Marked(plan, n, g)[i].qty = plan[i].qty /\ plan[i].qty \in Nat \ {0}
           /\ Marked(plan, n, g)[i].filledQty = IF i <= g THEN plan[i].qty ELSE 0
    <3>1. g \in 0..n /\ n \in 0..Len(plan) /\ plan \in Seq(FreshTargets)
      BY <1>1, <1>3
    <3> QED
      BY <3>1, MarkedIs
  <2> HIDE DEF k
  <2>3. /\ sim.targets[k].qty = plan[k].qty /\ plan[k].qty \in Nat
        /\ sim.targets[k].filledQty = 0
    BY <1>2, <2>1, <2>2
  <2> QED
    BY <2>3 DEF Remaining
<1>5. /\ sim' = Fill(after.pos, k, want) /\ PersistTrade(after) /\ exit' = Exit /\ Exit.at # 0
      /\ UNCHANGED <<dir, real, plan, bar, agents, faults, history>>
  BY <1>0, <1>3 DEF LeavePart, Leaving
<1>6. /\ Exit \in [at: Nat, parts: BOOLEAN] /\ at \in Nat
      /\ Sound => dir * Exit.at >= dir * sim.sl
  <2>1. Exit \in [at: Nat, parts: BOOLEAN] /\ (Sound => dir * Exit.at >= dir * sim.sl)
    BY <1>1, <1>5, ExitIs
  <2> QED
    BY <1>0, <2>1
<1> HIDE DEF want
<1>7. PICK q \in Nat, kept \in Nat, fee \in Nat, yield \in Int :
         /\ q <= want /\ q <= sim.qty /\ (q = want \/ q = sim.qty)
         /\ yield = (at - Entry) * q * dir
         /\ after.part = [qty |-> q, gross |-> yield, fees |-> fee]
         /\ after.pos \in Positions
         /\ after.pos.qty = sim.qty - q
         /\ after.pos.feeLeft = kept
         /\ after.pos.closed <=> sim.qty - q <= 0
         /\ after.pos.sl = sim.sl
         /\ after.pos.tp = sim.tp
         /\ after.pos.targets = sim.targets
         /\ q <= Lots => /\ fee >= LotFee * q /\ fee >= LotMin * q
                         /\ sim.feeLeft = LotFee * sim.qty => kept = LotFee * (sim.qty - q)
  <2>1. pc = "candle" /\ at \in Nat /\ want \in Nat
    BY <1>1, <1>4, <1>6
  <2> QED
    BY <2>1, CopySold
<1> HIDE DEF after
<1>8. sim.qty \in Nat /\ sim.sl \in {FirstStop, Entry}
  BY <1>1, PositionIs
<1>9. /\ sim' \in Positions /\ sim'.qty = sim.qty - q /\ sim'.feeLeft = kept
      /\ sim'.closed = after.pos.closed /\ sim'.sl = sim.sl
      /\ sim'.targets = Marked(plan, n, k)
  <2>1. after.pos.targets = Marked(plan, n, g) /\ want = plan[g + 1].qty
    BY <1>2, <1>4, <1>7
  <2>2. /\ Fill(after.pos, g + 1, want) \in Positions
        /\ Fill(after.pos, g + 1, want).qty = after.pos.qty
        /\ Fill(after.pos, g + 1, want).sl = after.pos.sl
        /\ Fill(after.pos, g + 1, want).feeLeft = after.pos.feeLeft
        /\ Fill(after.pos, g + 1, want).closed = after.pos.closed
        /\ Fill(after.pos, g + 1, want).targets = Marked(plan, n, g + 1)
    <3>1. PICK p \in Positions : p = after.pos
      BY <1>7
    <3>2. p.targets = Marked(plan, n, g) /\ g \in 0..n /\ g < n /\ plan \in Seq(FreshTargets)
      BY <1>1, <1>3, <2>1, <3>1
    <3>3. /\ Fill(p, g + 1, want) \in Positions
          /\ Fill(p, g + 1, want).qty = p.qty
          /\ Fill(p, g + 1, want).sl = p.sl
          /\ Fill(p, g + 1, want).feeLeft = p.feeLeft
          /\ Fill(p, g + 1, want).closed = p.closed
          /\ want = plan[g + 1].qty => Fill(p, g + 1, want).targets = Marked(plan, n, g + 1)
      BY <1>4, <3>2, FillIs
    <3> QED
      BY <2>1, <3>1, <3>3
  <2> QED
    BY <1>5, <1>7, <2>2
<1>10. /\ part' = [qty |-> q, gross |-> yield, fees |-> fee]
       /\ pos' = [pos EXCEPT !.closed = sim'.closed, !.qty = IF sim'.closed THEN 0 ELSE pos.qty]
       /\ pc' = "trade"
  BY <1>5, <1>7, <1>9 DEF PersistTrade
<1>11. ASSUME ~ sim'.closed
       PROVE  /\ sim'.targets = Marked(plan, n, k)
              /\ Taken(plan, n, k) = Taken(plan, n, g) + q
  <2>1. q = plan[k].qty
    BY <1>4, <1>7, <1>8, <1>9, <1>11
  <2>2. Taken(plan, n, k) = Taken(plan, n, g) + plan[k].qty
    BY <1>1, <1>3, TakenIs
  <2> QED
    BY <1>9, <2>1, <2>2
<1>12. ASSUME Sound PROVE yield >= q * dir * (sim'.sl - Entry)
  <2>1. PICK d \in {1, -1} : d = dir
    BY <1>1
  <2>3. PICK sl \in {FirstStop, Entry} : sl = sim'.sl /\ sl = sim.sl
    BY <1>8, <1>9
  <2>4. sl \in Nat /\ Entry \in Nat /\ d * at >= d * sl
    BY <1>0, <1>1, <1>6, <1>12, <2>1, <2>3
  <2>5. (at - Entry) * q * d >= q * d * (sl - Entry)
    BY <1>6, <2>4, PartYields
  <2> QED
    BY <1>7, <2>1, <2>3, <2>5
<1>13. k \in g..n
  BY <1>3
<1>14. /\ UNCHANGED <<dir, real, plan, bar, agents, faults, history>>
       /\ exit' \in [at: Nat, parts: BOOLEAN] /\ exit'.at # 0
       /\ Sound => dir * exit'.at >= dir * sim'.sl
  BY <1>5, <1>6, <1>9
<1>15. (sim'.closed <=> sim.qty - q <= 0) /\ sim'.sl \in {sim.sl, Entry}
  BY <1>7, <1>9
<1> HIDE DEF k
<1> QED
  BY <1>1, <1>7, <1>9, <1>10, <1>11, <1>12, <1>13, <1>14, <1>15, Sale

LEMMA SimLeaveRest ==
  ASSUME Typed, Sound => Priced,
         NEW n \in 0..Len(plan), NEW h \in 0..n, NEW g \in h..n, Ledger(n, h, g), LeaveRest
  PROVE  SimInv' /\ InHand' = InHand /\ Stop' \in {Stop, Entry}
<1>1. /\ sim \in Positions /\ dir \in {1, -1}
      /\ FirstStop \in Nat \ {0} /\ Entry \in Nat \ {0} /\ Len(plan) \in Nat
      /\ pc = "candle" /\ ~ sim.closed
  BY Knows DEF LeaveRest, Typed, Busy
<1>0. PICK at : at = Exit.at
  OBVIOUS
<1> DEFINE after == ClosePart(sim, at, sim.qty)
<1>2. /\ sim' = after.pos /\ PersistTrade(after) /\ exit' = Exit /\ Exit.at # 0
      /\ UNCHANGED <<dir, real, plan, bar, agents, faults, history>>
  BY <1>0 DEF LeaveRest, Leaving
<1>3. /\ Exit \in [at: Nat, parts: BOOLEAN] /\ at \in Nat
      /\ Sound => dir * Exit.at >= dir * sim.sl
  <2>1. Exit \in [at: Nat, parts: BOOLEAN] /\ (Sound => dir * Exit.at >= dir * sim.sl)
    BY <1>1, <1>2, ExitIs
  <2> QED
    BY <1>0, <2>1
<1>4. sim.qty \in Nat /\ sim.sl \in {FirstStop, Entry}
  BY <1>1, PositionIs
<1>5. PICK q \in Nat, kept \in Nat, fee \in Nat, yield \in Int :
         /\ q <= sim.qty /\ q <= sim.qty /\ (q = sim.qty \/ q = sim.qty)
         /\ yield = (at - Entry) * q * dir
         /\ after.part = [qty |-> q, gross |-> yield, fees |-> fee]
         /\ after.pos \in Positions
         /\ after.pos.qty = sim.qty - q
         /\ after.pos.feeLeft = kept
         /\ after.pos.closed <=> sim.qty - q <= 0
         /\ after.pos.sl = sim.sl
         /\ after.pos.tp = sim.tp
         /\ after.pos.targets = sim.targets
         /\ q <= Lots => /\ fee >= LotFee * q /\ fee >= LotMin * q
                         /\ sim.feeLeft = LotFee * sim.qty => kept = LotFee * (sim.qty - q)
  BY <1>1, <1>3, <1>4, CopySold
<1> HIDE DEF after
<1>6. /\ sim' \in Positions /\ sim'.qty = sim.qty - q /\ sim'.feeLeft = kept
      /\ sim'.closed /\ (sim'.closed <=> sim.qty - q <= 0)
      /\ sim'.sl = sim.sl /\ sim'.sl \in {sim.sl, Entry}
  <2>1. sim.qty - q <= 0
    BY <1>4, <1>5
  <2> QED
    BY <1>2, <1>5, <2>1
<1>7. /\ part' = [qty |-> q, gross |-> yield, fees |-> fee]
      /\ pos' = [pos EXCEPT !.closed = sim'.closed, !.qty = IF sim'.closed THEN 0 ELSE pos.qty]
      /\ pc' = "trade"
  BY <1>2, <1>5 DEF PersistTrade
<1>8. ASSUME Sound PROVE yield >= q * dir * (sim'.sl - Entry)
  <2>1. PICK d \in {1, -1} : d = dir
    BY <1>1
  <2>3. PICK sl \in {FirstStop, Entry} : sl = sim'.sl /\ sl = sim.sl
    BY <1>4, <1>6
  <2>4. sl \in Nat /\ Entry \in Nat /\ d * at >= d * sl
    BY <1>0, <1>1, <1>3, <1>8, <2>1, <2>3
  <2>5. (at - Entry) * q * d >= q * d * (sl - Entry)
    BY <1>3, <2>4, PartYields
  <2> QED
    BY <1>5, <2>1, <2>3, <2>5
<1>9. g \in g..n
  OBVIOUS
<1>10. /\ UNCHANGED <<dir, real, plan, bar, agents, faults, history>>
       /\ exit' \in [at: Nat, parts: BOOLEAN] /\ exit'.at # 0
       /\ Sound => dir * exit'.at >= dir * sim'.sl
  BY <1>2, <1>3, <1>6
<1> QED
  BY <1>1, <1>5, <1>6, <1>7, <1>8, <1>9, <1>10, Sale

-----------------------------------------------------------------------------
(* The handler's other awaits.                                             *)

\* The bounds of the rows, as numbers.
LEMMA Bounds ==
  ASSUME Typed, NEW n \in 0..Len(plan), NEW h \in 0..n, NEW g \in h..n
  PROVE  /\ n \in Nat /\ h \in Nat /\ g \in Nat /\ g \in 0..n
         /\ Taken(plan, n, h) \in Nat /\ Taken(plan, n, g) \in Nat
         /\ Taken(plan, n, h) <= Taken(plan, n, g)
         /\ Lots \in Nat \ {0} /\ LotFee \in Nat /\ LotMin \in Nat
<1>1. plan \in Seq(FreshTargets) /\ Len(plan) \in Nat
  BY Knows
<1>2. n \in Nat /\ h \in Nat /\ g \in Nat /\ g \in 0..n
  BY <1>1
<1>3. Taken(plan, n, h) \in Nat /\ Taken(plan, n, g) \in Nat
  BY <1>1, <1>2, TakenIs
<1>4. Taken(plan, n, h) <= Taken(plan, n, g)
  BY <1>1, TakenMonotone
<1> QED
  BY <1>2, <1>3, <1>4, LotFees

LEMMA Grows ==
  ASSUME NEW t \in Nat, NEW s \in Nat, NEW q \in Nat
  PROVE  /\ t <= s => t <= s + q
         /\ t <= s + q => t <= (s + q) + 0
OBVIOUS

LEMMA Distribute ==
  ASSUME NEW a \in Nat, NEW b \in Nat, NEW c \in Nat
  PROVE  /\ a * (b + c) = a * b + a * c
         /\ a * b \in Nat /\ a * c \in Nat /\ a * (b + c) \in Nat
OBVIOUS

LEMMA AddBounds ==
  ASSUME NEW a \in Nat, NEW b \in Nat, NEW x \in Nat, NEW y \in Nat, a >= x, b >= y
  PROVE  a + b >= x + y
OBVIOUS

LEMMA SimInsertTrade ==
  ASSUME Typed, Sound => Priced,
         NEW n \in 0..Len(plan), NEW h \in 0..n, NEW g \in h..n, Ledger(n, h, g), InsertTrade
  PROVE  SimInv'
<1>1. /\ pc = "trade" /\ pc' = "candle" /\ part' = NoPart
      /\ sold' = sold + part.qty /\ gross' = gross + part.gross /\ fees' = fees + part.fees
      /\ UNCHANGED <<dir, real, plan, pos, sim, bar, exit, agents, faults>>
  BY DEF InsertTrade
<1>2. /\ part \in [qty: Nat, gross: Int, fees: Nat] /\ part.qty \in Nat /\ part.gross \in Int
      /\ part.fees \in Nat /\ sold \in Nat /\ gross \in Int /\ fees \in Nat /\ faults \in Nat
      /\ dir \in {1, -1} /\ sim \in Positions /\ pos \in Positions
  BY <1>1 DEF Typed, Busy
<1>0. PICK q \in Nat, y \in Int, f \in Nat :
         /\ q = part.qty /\ y = part.gross /\ f = part.fees
         /\ sold' = sold + q /\ gross' = gross + y /\ fees' = fees + f
         /\ sold \in Nat /\ gross \in Int /\ fees \in Nat /\ faults \in Nat
  BY <1>1, <1>2
<1>3. part'.qty = 0 /\ part'.gross = 0 /\ part'.fees = 0
      /\ part' \in [qty: Nat, gross: Int, fees: Nat]
  BY <1>1 DEF NoPart
<1>4. Positions' = Positions /\ (Sound' <=> Sound) /\ FirstStop' = FirstStop
  BY <1>1, PositionsStay
<1>5. sold' \in Nat /\ gross' \in Int /\ fees' \in Nat
  BY <1>1, <1>2
<1>6. Typed'
  BY <1>1, <1>3, <1>4, <1>5 DEF Typed, Busy
<1>7. sim.qty \in Nat /\ sim.sl \in {FirstStop, Entry} /\ sim.sl \in Nat /\ Entry \in Nat
      /\ pos.qty \in Nat
  BY <1>2, Knows, PositionIs
<1>8. Sound' => Priced'
  <2>1. PICK x \in Int : x = sim.sl - Entry
    BY <1>7
  <2>2. 0 * dir * x = 0
    BY <1>2
  <2> QED
    BY <1>1, <1>3, <1>4, <2>1, <2>2 DEF Priced
<1>9. /\ Taken(plan, n, h) \in Nat /\ Taken(plan, n, g) \in Nat
      /\ LotFee \in Nat /\ LotMin \in Nat
  BY Bounds
<1>10. Running' <=> Running
  BY <1>1 DEF Running, Busy
<1>11. Shaped(n, h, g)'
  BY <1>1 DEF Ledger, Shaped, Busy
<1>12. Counted(n, h, g)'
  <2>1. Taken(plan, n, h) <= sold /\ (Running => Taken(plan, n, g) <= sold + q)
    BY <1>0 DEF Ledger, Counted
  <2>2. PICK t \in Nat, u \in Nat : t = Taken(plan, n, h) /\ u = Taken(plan, n, g)
    BY <1>9
  <2>3. t <= sold + q /\ (u <= sold + q => u <= (sold + q) + 0)
    BY <1>0, <2>1, <2>2, Grows
  <2>4. Taken(plan, n, h) <= sold' /\ (Running => Taken(plan, n, g) <= sold' + 0)
    BY <1>0, <2>1, <2>2, <2>3
  <2> QED
    BY <1>1, <1>3, <1>10, <2>4 DEF Counted
<1>13. InHand' + sold' = InHand + sold
  <2>1. InHand = sim.qty + part.qty /\ InHand' = sim.qty + 0
    BY <1>1, <1>3 DEF InHand
  <2> QED
    BY <1>0, <1>7, <2>1
<1>14. ASSUME ~ real PROVE Paper(n, h, g)'
  <2>1. Paper(n, h, g)
    BY <1>14 DEF Ledger
  <2>2. /\ fees >= LotFee * sold /\ fees >= LotMin * sold
        /\ f >= LotFee * q /\ f >= LotMin * q
    BY <1>0, <2>1 DEF Paper
  <2>3. fees' >= LotFee * sold' /\ fees' >= LotMin * sold'
    <3>0. LotFee \in Nat /\ LotMin \in Nat /\ sold \in Nat /\ q \in Nat
      BY <1>0, <1>9
    <3>1. /\ LotFee * (sold + q) = LotFee * sold + LotFee * q
          /\ LotFee * sold \in Nat /\ LotFee * q \in Nat
      BY <3>0, Distribute, Zenon
    <3>2. /\ LotMin * (sold + q) = LotMin * sold + LotMin * q
          /\ LotMin * sold \in Nat /\ LotMin * q \in Nat
      BY <3>0, Distribute, Zenon
    <3>3. fees + f >= LotFee * (sold + q)
      BY <1>0, <2>2, <3>1, AddBounds
    <3>4. fees + f >= LotMin * (sold + q)
      BY <1>0, <2>2, <3>2, AddBounds
    <3> QED
      BY <1>0, <3>3, <3>4
  <2>4. LotFee * 0 = 0 /\ LotMin * 0 = 0
    BY <1>9
  <2>5. pos.qty >= sim.qty + part.qty => pos.qty >= sim.qty + 0
    BY <1>2, <1>7
  <2> QED
    BY <1>1, <1>3, <1>13, <2>1, <2>3, <2>4, <2>5 DEF Paper, Busy
<1>15. ASSUME ~ real PROVE Freed(h, g)'
  BY <1>1, <1>10, <1>15 DEF Ledger, Freed, Busy
<1>16. ASSUME ~ real, faults = 0 PROVE Smooth(n, h, g)' /\ (Sound' => Profit(h)')
  <2>1. Smooth(n, h, g) /\ (Sound => Profit(h)) /\ Freed(h, g)
    BY <1>16 DEF Ledger
  <2>2. Smooth(n, h, g)'
    BY <1>1, <1>2, <1>3, <1>10, <1>13, <2>1 DEF Smooth, Busy
  <2>3. ASSUME Sound, h >= 1 PROVE gross' > 0
    <3>1. gross > 0 /\ sim.sl = Entry
      BY <1>1, <2>1, <2>3 DEF Profit, Freed, Busy
    <3>2. part.gross >= part.qty * dir * (sim.sl - Entry)
      BY <2>3 DEF Priced
    <3>3. part.qty * dir * (sim.sl - Entry) = 0
      <4>1. sim.sl - Entry = 0
        BY <1>7, <3>1
      <4>2. part.qty * dir * 0 = 0
        BY <1>2
      <4> QED
        BY <4>1, <4>2
    <3> QED
      BY <1>1, <1>2, <3>1, <3>2, <3>3
  <2>4. Running /\ Sound => gross' + 0 >= sold' + 0
    BY <1>1, <1>2, <2>1 DEF Profit
  <2>5. Sound' => Profit(h)'
    BY <1>1, <1>3, <1>4, <1>10, <2>3, <2>4 DEF Profit, Busy
  <2> QED
    BY <2>2, <2>5
<1>17. Ledger(n, h, g)'
  BY <1>1, <1>11, <1>12, <1>14, <1>15, <1>16 DEF Ledger
<1> QED
  BY <1>1, <1>6, <1>8, <1>17 DEF SimInv

\* Without a part to be inserted and a price to leave at, nothing is to be shown of prices.
LEMMA NothingPriced ==
  ASSUME NEW d \in {1, -1}, NEW sl \in Nat, NEW entry \in Nat
  PROVE  0 >= 0 * d * (sl - entry)
<1>1. PICK x \in Int : x = sl - entry
  OBVIOUS
<1>2. 0 * d * x = 0
  OBVIOUS
<1> QED
  BY <1>1, <1>2

LEMMA SimSaveTarget ==
  ASSUME Typed, Sound => Priced,
         NEW n \in 0..Len(plan), NEW h \in 0..n, NEW g \in h..n, Ledger(n, h, g), SaveTarget
  PROVE  SimInv'
<1>1. /\ pc = "plan" /\ Len(pos.targets) < Len(plan)
      /\ pos' = [pos EXCEPT !.targets = Append(pos.targets, plan[Len(pos.targets) + 1])]
      /\ UNCHANGED <<dir, real, plan, pc, sim, bar, exit, part, agents, faults, sold, gross, fees>>
  BY DEF SaveTarget, bot, history
<1>2. /\ plan \in Seq(FreshTargets) /\ Len(plan) \in Nat /\ pos \in Positions
  BY Knows DEF Typed
<1>3. h = 0 /\ g = 0 /\ pos.targets = Marked(plan, n, 0) /\ sim.targets = plan
  BY <1>1 DEF Ledger, Shaped
<1>4. n \in Nat /\ Len(pos.targets) = n /\ 0 \in 0..n
  BY <1>2, <1>3, MarkedIs
<1>5. n + 1 \in 0..Len(plan) /\ n < Len(plan) /\ 0 \in 0..(n + 1) /\ 0 \in 0..0
  BY <1>1, <1>2, <1>4
<1>6. Append(pos.targets, plan[n + 1]) = Marked(plan, n + 1, 0)
  BY <1>2, <1>3, <1>5, MarkedAppend
<1>7. Marked(plan, n + 1, 0) \in Seq(RowTargets)
  BY <1>2, <1>5, MarkedIs
<1>8. PICK ts \in Seq(RowTargets) : ts = Marked(plan, n + 1, 0)
  BY <1>7
<1>9. /\ pos' = [pos EXCEPT !.targets = ts]
  BY <1>1, <1>4, <1>6, <1>8
<1>10. /\ pos' \in Positions /\ pos'.targets = ts /\ pos'.qty = pos.qty /\ pos'.sl = pos.sl
       /\ pos'.tp = pos.tp /\ pos'.feeLeft = pos.feeLeft /\ pos'.closed = pos.closed
  BY <1>2, <1>9 DEF Positions
<1>11. Taken(plan, n + 1, 0) = 0 /\ Taken(plan, n, 0) = 0
  BY <1>2, <1>4, <1>5, TakenIs
<1>12. Positions' = Positions /\ (Sound' <=> Sound) /\ FirstStop' = FirstStop
  BY <1>1, PositionsStay
<1>13. Typed'
  BY <1>1, <1>10, <1>12 DEF Typed, Busy
<1>14. Sound' => Priced'
  BY <1>1, <1>12 DEF Priced
<1>15. Shaped(n + 1, 0, 0)'
  BY <1>1, <1>3, <1>8, <1>10 DEF Shaped, Busy
<1>16. (Running' <=> Running) /\ InHand' = InHand
  BY <1>1 DEF Running, Busy, InHand
<1>17. Counted(n + 1, 0, 0)'
  BY <1>1, <1>3, <1>11, <1>16 DEF Ledger, Counted
<1>18. ~ real => Paper(n + 1, 0, 0)'
  BY <1>1, <1>3, <1>10, <1>11, <1>16 DEF Ledger, Paper, Busy
<1>19. ~ real => Freed(0, 0)'
  BY <1>1, <1>3, <1>10, <1>16 DEF Ledger, Freed, Busy
<1>20. ~ real /\ faults = 0 => Smooth(n + 1, 0, 0)' /\ (Sound' => Profit(0)')
  BY <1>1, <1>3, <1>10, <1>11, <1>12, <1>16 DEF Ledger, Smooth, Profit, Busy
<1>21. Ledger(n + 1, 0, 0)'
  BY <1>1, <1>15, <1>17, <1>18, <1>19, <1>20 DEF Ledger
<1>22. n + 1 \in 0..Len(plan')
  BY <1>1, <1>5
<1> QED
  BY <1>5, <1>13, <1>14, <1>21, <1>22 DEF SimInv

\* Where a target is filled, something was sold.
LEMMA SomeTaken ==
  ASSUME NEW ts \in Seq(FreshTargets), NEW n \in 0..Len(ts), NEW h \in 1..n
  PROVE  Taken(ts, n, h) >= 1
<1>1. 0 \in 0..n /\ 1 \in 0..n /\ h \in 0..n /\ 0 < n
  OBVIOUS
<1>2. /\ Taken(ts, n, 0) = 0 /\ ts[0 + 1].qty \in Nat \ {0}
      /\ Taken(ts, n, 0 + 1) = Taken(ts, n, 0) + ts[0 + 1].qty
  BY <1>1, TakenIs
<1>3. Taken(ts, n, 1) >= 1 /\ Taken(ts, n, 1) \in Nat
  BY <1>2
<1>4. Taken(ts, n, 1) <= Taken(ts, n, h) /\ Taken(ts, n, h) \in Nat
  BY <1>1, TakenMonotone, TakenIs
<1> QED
  BY <1>3, <1>4

LEMMA SimLoad ==
  ASSUME Typed, Sound => Priced,
         NEW n \in 0..Len(plan), NEW h \in 0..n, NEW g \in h..n, Ledger(n, h, g),
         NEW price \in Closes, Load(price)
  PROVE  SimInv'
<1>1. /\ pc = "idle" /\ ~ pos.closed /\ pc' = "candle" /\ sim' = pos /\ bar' = price
      /\ UNCHANGED <<dir, real, plan, pos, exit, part, agents, faults, sold, gross, fees>>
  BY DEF Load, history
<1>2. /\ pos \in Positions /\ part = NoPart /\ exit.at = 0 /\ dir \in {1, -1}
      /\ Entry \in Nat /\ FirstStop \in Nat
  BY <1>1, Knows DEF Typed
<1>3. bar' \in Nat
  BY <1>1, SimulatorAssumption
<1>4. Positions' = Positions /\ (Sound' <=> Sound) /\ FirstStop' = FirstStop
  BY <1>1, PositionsStay
<1>5. Typed'
  BY <1>1, <1>3, <1>4 DEF Typed, Busy
<1>6. pos.qty \in Nat /\ pos.sl \in Nat /\ part.qty = 0 /\ part.gross = 0
  BY <1>2, PositionIs DEF NoPart
<1>7. Priced'
  <2>1. 0 >= 0 * dir * (pos.sl - Entry)
    BY <1>2, <1>6, NothingPriced
  <2> QED
    BY <1>1, <1>2, <1>6, <2>1 DEF Priced
<1>8. h \in h..n /\ Taken(plan, n, h) \in Nat
  BY Bounds
<1>9. Shaped(n, h, h)'
  BY <1>1 DEF Ledger, Shaped, Busy
<1>10. Running' /\ ~ Busy
  BY <1>1, <1>2 DEF Running, Busy
<1>11. InHand' = InHand /\ InHand = pos.qty
  <2>1. InHand' = pos.qty + 0 /\ InHand = pos.qty
    BY <1>1, <1>6 DEF InHand
  <2> QED
    BY <1>6, <2>1
<1>12. Counted(n, h, h)'
  <2>1. Taken(plan, n, h) <= sold /\ sold \in Nat
    BY DEF Ledger, Counted, Typed
  <2>2. Taken(plan, n, h) <= sold + 0
    BY <1>8, <2>1
  <2> QED
    BY <1>1, <1>6, <2>1, <2>2 DEF Counted
<1>13. ~ real => Paper(n, h, h)'
  <2>1. pos.qty >= pos.qty + 0
    BY <1>6
  <2> QED
    BY <1>1, <1>6, <1>11, <2>1 DEF Ledger, Paper, Busy
<1>14. ~ real => Freed(h, h)'
  BY <1>1 DEF Ledger, Freed, Busy
<1>15. ASSUME ~ real, faults = 0 PROVE Smooth(n, h, h)' /\ (Sound' => Profit(h)')
  <2>1. Smooth(n, h, g) /\ (Sound => Profit(h))
    BY <1>15 DEF Ledger
  <2>2. sold = Taken(plan, n, h) /\ sold \in Nat /\ gross \in Int
    BY <1>1, <1>10, <2>1 DEF Smooth, Typed
  <2>3. sold + 0 = Taken(plan, n, h)
    BY <2>2
  <2>4. Smooth(n, h, h)'
    BY <1>1, <1>6, <1>10, <1>11, <2>1, <2>3 DEF Smooth, Busy
  <2>5. ASSUME Sound, h >= 1 PROVE gross > 0
    <3>1. gross >= sold
      BY <1>1, <1>10, <2>1, <2>5 DEF Profit
    <3>2. h \in 1..n /\ plan \in Seq(FreshTargets)
      BY <2>5, Bounds, Knows
    <3>3. Taken(plan, n, h) >= 1
      BY <3>2, SomeTaken
    <3> QED
      BY <1>8, <2>2, <3>1, <3>3
  <2>6. Sound => gross + 0 >= sold + 0
    <3>1. Sound => gross >= sold
      BY <1>1, <1>10, <2>1 DEF Profit
    <3> QED
      BY <2>2, <3>1
  <2>7. Sound' => Profit(h)'
    BY <1>1, <1>4, <1>6, <2>5, <2>6 DEF Profit, Busy
  <2> QED
    BY <2>4, <2>7
<1>16. Ledger(n, h, h)'
  BY <1>1, <1>9, <1>12, <1>13, <1>14, <1>15 DEF Ledger
<1> QED
  BY <1>1, <1>5, <1>7, <1>8, <1>16 DEF SimInv

LEMMA SimSyncPosition ==
  ASSUME Typed, Sound => Priced,
         NEW n \in 0..Len(plan), NEW h \in 0..n, NEW g \in h..n, Ledger(n, h, g), SyncPosition
  PROVE  SimInv'
<1>1. /\ pos' = [pos EXCEPT !.qty = sim.qty, !.sl = sim.sl, !.tp = sim.tp,
                            !.feeLeft = sim.feeLeft]
      /\ pc' = "sync"
      /\ UNCHANGED <<dir, real, plan, sim, bar, exit, part, agents, faults, sold, gross, fees>>
      /\ \/ pc = "plan" /\ Len(pos.targets) = Len(plan)
         \/ pc = "candle" /\ ~ sim.closed /\ exit.at = 0
  BY DEF SyncPosition, Settled, history
<1>2. /\ pos \in Positions /\ sim \in Positions /\ part = NoPart /\ ~ sim.closed /\ exit.at = 0
      /\ plan \in Seq(FreshTargets) /\ Len(plan) \in Nat /\ Busy
  BY <1>1, Knows DEF Typed, Busy
<1>3. /\ sim.qty \in Nat /\ sim.sl \in {FirstStop, Entry} /\ sim.tp \in Prices
      /\ sim.feeLeft \in Nat /\ pos.qty \in Nat /\ part.qty = 0
  BY <1>2, PositionIs DEF NoPart
<1>4. /\ pos' \in Positions /\ pos'.qty = sim.qty /\ pos'.sl = sim.sl
      /\ pos'.feeLeft = sim.feeLeft /\ pos'.targets = pos.targets /\ pos'.closed = pos.closed
  BY <1>1, <1>2, <1>3 DEF Positions
<1>5. Positions' = Positions /\ (Sound' <=> Sound) /\ FirstStop' = FirstStop
  BY <1>1, PositionsStay
<1>6. Typed'
  BY <1>1, <1>2, <1>4, <1>5 DEF Typed, Busy
<1>7. Sound' => Priced'
  BY <1>1, <1>5 DEF Priced
<1>8. sim.targets = Marked(plan, n, g)
  <2>1. CASE pc = "plan"
    <3>1. h = 0 /\ g = 0 /\ pos.targets = Marked(plan, n, 0) /\ sim.targets = plan
      BY <2>1 DEF Ledger, Shaped
    <3>2. Len(pos.targets) = n /\ Len(pos.targets) = Len(plan)
      BY <1>1, <1>2, <2>1, <3>1, MarkedIs
    <3> QED
      BY <1>2, <3>1, <3>2, MarkedNone
  <2>2. CASE pc = "candle"
    BY <1>2, <2>2 DEF Ledger, Shaped
  <2> QED
    BY <1>1, <2>1, <2>2
<1>9. Shaped(n, h, g)'
  BY <1>1, <1>4, <1>8 DEF Ledger, Shaped, Busy
<1>10. Running /\ Running' /\ Busy'
  BY <1>1, <1>2 DEF Running, Busy
<1>11. InHand' = InHand
  BY <1>1, <1>2 DEF InHand, Busy
<1>12. Counted(n, h, g)'
  BY <1>1, <1>10 DEF Ledger, Counted
<1>13. ASSUME ~ real PROVE Paper(n, h, g)'
  <2>1. Paper(n, h, g)
    BY <1>13 DEF Ledger
  <2>2. /\ ~ pos.closed /\ sim.qty # 0 /\ sim.qty + Taken(plan, n, g) <= Lots
        /\ sim.feeLeft = LotFee * sim.qty
    BY <1>2, <2>1 DEF Paper
  <2>3. sim.qty + Taken(plan, n, h) <= Lots
    <3>1. PICK t \in Nat, u \in Nat : t = Taken(plan, n, h) /\ u = Taken(plan, n, g) /\ t <= u
      BY Bounds
    <3>2. sim.qty + t <= Lots
      BY <1>3, <2>2, <3>1, LotFees
    <3> QED
      BY <3>1, <3>2
  <2>4. sim.qty >= sim.qty + 0
    BY <1>3
  <2> QED
    BY <1>1, <1>2, <1>3, <1>4, <1>11, <2>1, <2>2, <2>3, <2>4 DEF Paper, Busy
<1>14. ~ real => Freed(h, g)'
  BY <1>1, <1>2, <1>4, <1>10 DEF Ledger, Freed
<1>15. ~ real /\ faults = 0 => Smooth(n, h, g)' /\ (Sound' => Profit(h)')
  BY <1>1, <1>2, <1>5, <1>10, <1>11 DEF Ledger, Smooth, Profit
<1>16. Ledger(n, h, g)'
  BY <1>1, <1>9, <1>12, <1>13, <1>14, <1>15 DEF Ledger
<1> QED
  BY <1>1, <1>6, <1>7, <1>16 DEF SimInv

LEMMA SimSyncTarget ==
  ASSUME Typed, Sound => Priced,
         NEW n \in 0..Len(plan), NEW h \in 0..n, NEW g \in h..n, Ledger(n, h, g), SyncTarget
  PROVE  SimInv'
<1>1. /\ pc = "sync" /\ Behind # {}
      /\ pos' = [pos EXCEPT !.targets[Min(Behind)] = sim.targets[Min(Behind)]]
      /\ UNCHANGED <<dir, real, plan, pc, sim, bar, exit, part, agents, faults, sold, gross, fees>>
  BY DEF SyncTarget, bot, history
<1>2. /\ pos \in Positions /\ sim \in Positions /\ part = NoPart /\ ~ sim.closed /\ exit.at = 0
      /\ plan \in Seq(FreshTargets) /\ Len(plan) \in Nat /\ Busy
      /\ sold \in Nat /\ gross \in Int
  BY <1>1, Knows DEF Typed, Busy
<1>3. sim.targets = Marked(plan, n, g) /\ pos.targets = Marked(plan, n, h)
  BY <1>1, <1>2 DEF Ledger, Shaped
<1>4. h < g /\ Min(Behind) = h + 1
  <2>1. (h = g => Behind = {}) /\ (h < g => Min(Behind) = h + 1)
    BY <1>2, <1>3, BehindIs
  <2> QED
    BY <1>1, <2>1, Bounds
<1>5. h + 1 \in 0..n /\ g \in (h + 1)..n /\ h < n /\ h + 1 \in 1..n
  BY <1>4, Bounds
<1>6. /\ Marked(plan, n, h + 1) = [pos.targets EXCEPT ![h + 1] = sim.targets[h + 1]]
      /\ Marked(plan, n, h + 1) \in Seq(RowTargets)
  <2>1. Marked(plan, n, h + 1)
           = [Marked(plan, n, h) EXCEPT ![h + 1] = Marked(plan, n, h + 1)[h + 1]]
    <3>1. plan \in Seq(FreshTargets) /\ n \in 0..Len(plan) /\ h \in 0..n /\ h < n
      BY <1>2, <1>5
    <3> QED
      BY <3>1, MarkedNext, ZenonT(60)
  <2>2. Marked(plan, n, h + 1)[h + 1] = Marked(plan, n, g)[h + 1]
    <3>1. h + 1 \in 1..n /\ h + 1 <= h + 1 /\ h + 1 <= g
      BY <1>5
    <3> QED
      BY <3>1, Zenon DEF Marked
  <2>3. Marked(plan, n, h + 1) \in Seq(RowTargets)
    BY <1>2, <1>5, MarkedIs
  <2> QED
    BY <1>3, <2>1, <2>2, <2>3
<1>7. PICK ts \in Seq(RowTargets) : ts = Marked(plan, n, h + 1)
  BY <1>6
<1>8. pos' = [pos EXCEPT !.targets = ts]
  BY <1>1, <1>4, <1>6, <1>7
<1>9. /\ pos' \in Positions /\ pos'.targets = ts /\ pos'.qty = pos.qty /\ pos'.sl = pos.sl
      /\ pos'.tp = pos.tp /\ pos'.feeLeft = pos.feeLeft /\ pos'.closed = pos.closed
  BY <1>2, <1>8 DEF Positions
<1>10. Positions' = Positions /\ (Sound' <=> Sound) /\ FirstStop' = FirstStop
  BY <1>1, PositionsStay
<1>11. Typed'
  BY <1>1, <1>9, <1>10 DEF Typed, Busy
<1>12. Sound' => Priced'
  BY <1>1, <1>10 DEF Priced
<1>13. Shaped(n, h + 1, g)'
  BY <1>1, <1>3, <1>7, <1>9 DEF Shaped, Busy
<1>14. Running /\ Running' /\ Busy' /\ InHand' = InHand /\ part.qty = 0 /\ part.gross = 0
  BY <1>1, <1>2 DEF Running, Busy, InHand, NoPart
<1>15. PICK t \in Nat, u \in Nat :
          /\ t = Taken(plan, n, h + 1) /\ u = Taken(plan, n, g) /\ t <= u /\ t >= 1
  <2>1. /\ Taken(plan, n, h + 1) \in Nat /\ Taken(plan, n, g) \in Nat
        /\ Taken(plan, n, h + 1) <= Taken(plan, n, g) /\ Taken(plan, n, h + 1) >= 1
    BY <1>2, <1>5, Bounds, SomeTaken
  <2> QED
    BY <2>1
<1>16. Counted(n, h + 1, g)'
  <2>1. u <= sold + 0
    BY <1>14, <1>15 DEF Ledger, Counted
  <2>2. t <= sold
    BY <1>2, <1>15, <2>1
  <2> QED
    BY <1>1, <1>14, <1>15, <2>1, <2>2 DEF Counted
<1>17. ASSUME ~ real PROVE Paper(n, h + 1, g)'
  <2>1. Paper(n, h, g)
    BY <1>17 DEF Ledger
  <2>2. pos.qty = sim.qty /\ sim.qty + u <= Lots /\ pos.qty \in Nat
    BY <1>1, <1>2, <1>15, <2>1, PositionIs DEF Paper
  <2>3. pos.qty + t <= Lots
    BY <1>15, <2>2, LotFees
  <2> QED
    BY <1>1, <1>9, <1>14, <1>15, <2>1, <2>3 DEF Paper, Busy
<1>18. ASSUME ~ real PROVE Freed(h + 1, g)'
  <2>1. Freed(h, g) /\ pos.sl = sim.sl /\ g >= 1
    BY <1>1, <1>5, <1>18, Bounds DEF Ledger, Paper
  <2>2. sim.sl = Entry
    BY <1>14, <2>1 DEF Freed
  <2> QED
    BY <1>1, <1>9, <1>14, <2>1, <2>2 DEF Freed
<1>19. ASSUME ~ real, faults = 0 PROVE Smooth(n, h + 1, g)' /\ (Sound' => Profit(h + 1)')
  <2>1. Smooth(n, h, g) /\ (Sound => Profit(h))
    BY <1>19 DEF Ledger
  <2>2. Smooth(n, h + 1, g)'
    BY <1>1, <1>9, <1>14, <2>1 DEF Smooth
  <2>3. sold + 0 = u
    BY <1>14, <1>15, <2>1 DEF Smooth
  <2>4. Sound => gross + 0 >= sold + 0
    BY <1>14, <2>1 DEF Profit
  <2>5. Sound => gross > 0
    BY <1>2, <1>15, <2>3, <2>4
  <2>6. Sound' => Profit(h + 1)'
    BY <1>1, <1>10, <1>14, <2>4, <2>5 DEF Profit
  <2> QED
    BY <2>2, <2>6
<1>20. Ledger(n, h + 1, g)'
  BY <1>1, <1>13, <1>16, <1>17, <1>18, <1>19 DEF Ledger
<1> QED
  BY <1>1, <1>5, <1>11, <1>12, <1>20 DEF SimInv

\* Nothing is running.
LEMMA Idle ==
  ASSUME Typed, dir' = dir, plan' = plan, real' = real, pos' = pos,
         sold' = sold, gross' = gross, fees' = fees, Release,
         agents' \in [Agents -> [pc: {"idle", "apply", "external"}, sl: {0, FirstStop, Entry}]],
         \A a \in Agents : agents'[a].pc # "idle" => real /\ agents'[a].sl # 0,
         faults' \in Nat
  PROVE  /\ Typed' /\ (Sound' => Priced') /\ ~ Busy' /\ ~ Running' /\ pc' # "plan"
         /\ pc' # "sync" /\ part' = NoPart /\ (Sound' <=> Sound)
         /\ InHand' = IF pos.closed THEN 0 ELSE pos.qty
<1>1. /\ pc' = "idle" /\ sim' = NoPosition /\ bar' = 0 /\ exit' = NoExit /\ part' = NoPart
  BY DEF Release
<1>2. Positions' = Positions /\ (Sound' <=> Sound) /\ FirstStop' = FirstStop
  BY PositionsStay
<1>3. Typed'
  BY <1>1, <1>2 DEF Typed, Busy, NoExit, NoPart
<1>4. dir \in {1, -1} /\ Entry \in Nat
  BY Knows
<1>5. 0 >= 0 * dir * (0 - Entry)
  BY <1>4, NothingPriced
<1>6. Priced'
  BY <1>1, <1>5 DEF Priced, NoPart, NoExit, NoPosition
<1>7. ~ Busy' /\ ~ Running'
  BY <1>1 DEF Busy, Running
<1>8. InHand' = IF pos.closed THEN 0 ELSE pos.qty
  BY <1>1 DEF InHand
<1> QED
  BY <1>1, <1>2, <1>3, <1>6, <1>7, <1>8

LEMMA SimFinish ==
  ASSUME Typed, Sound => Priced,
         NEW n \in 0..Len(plan), NEW h \in 0..n, NEW g \in h..n, Ledger(n, h, g), Finish
  PROVE  SimInv'
<1>1. /\ Release
      /\ UNCHANGED <<dir, real, plan, pos, agents, faults, sold, gross, fees>>
      /\ \/ pc = "sync" /\ Behind = {}
         \/ pc = "candle" /\ sim.closed
  BY DEF Finish, history
<1>2. /\ pos \in Positions /\ sim \in Positions /\ part = NoPart /\ Busy
      /\ (pc = "sync" => ~ sim.closed /\ exit.at = 0)
      /\ plan \in Seq(FreshTargets) /\ sold \in Nat /\ gross \in Int /\ faults \in Nat
      /\ agents \in [Agents -> [pc: {"idle", "apply", "external"}, sl: {0, FirstStop, Entry}]]
      /\ \A a \in Agents : agents[a].pc # "idle" => real /\ agents[a].sl # 0
  BY <1>1, Knows DEF Typed, Busy
<1>3. /\ Typed' /\ (Sound' => Priced') /\ ~ Busy' /\ ~ Running' /\ pc' # "plan"
      /\ pc' # "sync" /\ part' = NoPart /\ (Sound' <=> Sound)
      /\ InHand' = IF pos.closed THEN 0 ELSE pos.qty
  BY <1>1, <1>2, Idle
<1>4. part.qty = 0 /\ part.gross = 0 /\ part.fees = 0 /\ part'.qty = 0 /\ part'.fees = 0
  BY <1>2, <1>3 DEF NoPart
<1>5. sim.qty \in Nat /\ pos.qty \in Nat /\ InHand = sim.qty
  <2>1. InHand = sim.qty + 0
    BY <1>2, <1>4 DEF InHand, Busy
  <2> QED
    BY <1>2, <2>1, PositionIs
<1>6. pc = "sync" => h = g
  <2> SUFFICES ASSUME pc = "sync" PROVE h = g
    OBVIOUS
  <2>1. sim.targets = Marked(plan, n, g) /\ pos.targets = Marked(plan, n, h)
    BY <1>2 DEF Ledger, Shaped
  <2>2. h < g => Behind # {}
    BY <1>2, <2>1, BehindIs
  <2> QED
    BY <1>1, <2>2, Bounds
<1>7. Shaped(n, h, g)'
  BY <1>1, <1>3 DEF Ledger, Shaped
<1>8. Counted(n, h, g)'
  BY <1>1, <1>3 DEF Ledger, Counted
<1>9. ASSUME ~ real PROVE Paper(n, h, g)' /\ InHand' = InHand
  <2>1. Paper(n, h, g)
    BY <1>9 DEF Ledger
  <2>2. InHand' = InHand
    <3>1. CASE pc = "sync"
      BY <1>2, <1>3, <1>5, <2>1, <3>1 DEF Paper
    <3>2. CASE pc = "candle" /\ sim.closed
      BY <1>2, <1>3, <1>5, <2>1, <3>2 DEF Paper
    <3> QED
      BY <1>1, <3>1, <3>2
  <2>3. LotFee * 0 = 0 /\ LotMin * 0 = 0
    BY LotFees
  <2>4. Paper(n, h, g)'
    BY <1>1, <1>3, <1>4, <2>1, <2>2, <2>3 DEF Paper
  <2> QED
    BY <2>2, <2>4
<1>10. ~ real => Freed(h, g)'
  BY <1>1, <1>2, <1>3 DEF Ledger, Freed
<1>11. ASSUME ~ real, faults = 0 PROVE Smooth(n, h, g)' /\ (Sound' => Profit(h)')
  <2>1. Smooth(n, h, g) /\ (Sound => Profit(h)) /\ Paper(n, h, g)
    BY <1>11 DEF Ledger
  <2>2. CASE pc = "sync"
    <3>1. Running
      BY <1>2, <2>2 DEF Running
    <3>2. sold + 0 = Taken(plan, n, h) /\ (Sound => gross + 0 >= sold + 0)
      BY <1>4, <1>6, <2>1, <2>2, <3>1 DEF Smooth, Profit
    <3>3. sold = Taken(plan, n, h) /\ (Sound => gross >= sold)
      BY <1>2, <3>2
    <3> QED
      BY <1>1, <1>3, <1>9, <1>11, <2>1, <3>3 DEF Smooth, Profit
  <2>3. CASE pc = "candle" /\ sim.closed
    <3>1. pos.closed
      BY <1>2, <2>1, <2>3 DEF Paper
    <3> QED
      BY <1>1, <1>3, <1>9, <1>11, <2>1, <3>1 DEF Smooth, Profit
  <2> QED
    BY <1>1, <2>2, <2>3
<1>12. Ledger(n, h, g)'
  BY <1>1, <1>7, <1>8, <1>9, <1>10, <1>11 DEF Ledger
<1> QED
  BY <1>1, <1>3, <1>12 DEF SimInv

-----------------------------------------------------------------------------
(* The syncs and the failures.                                             *)

\* What a sync of a real session may do.
LEMMA SyncWrites ==
  ASSUME Typed, Sound => Priced,
         NEW n \in 0..Len(plan), NEW h \in 0..n, NEW g \in h..n, Ledger(n, h, g),
         real, UNCHANGED <<dir, real, plan, pc, sim, bar, exit, part, gross, fees>>,
         pos' \in Positions, pos'.targets = pos.targets,
         agents' \in [Agents -> [pc: {"idle", "apply", "external"}, sl: {0, FirstStop, Entry}]],
         \A a \in Agents : agents'[a].pc # "idle" => agents'[a].sl # 0,
         faults' \in Nat, sold' \in Nat, sold' >= sold
  PROVE  SimInv'
<1>1. Positions' = Positions /\ (Sound' <=> Sound) /\ FirstStop' = FirstStop
  BY PositionsStay
<1>2. Typed'
  BY <1>1 DEF Typed, Busy
<1>3. Sound' => Priced'
  BY <1>1 DEF Priced
<1>4. Shaped(n, h, g)'
  BY DEF Ledger, Shaped, Busy
<1>5. Counted(n, h, g)'
  <2>1. PICK t \in Nat, u \in Nat : t = Taken(plan, n, h) /\ u = Taken(plan, n, g)
    BY Bounds
  <2>2. t <= sold /\ (Running => u <= sold + part.qty)
    BY <2>1 DEF Ledger, Counted
  <2>3. PICK s \in Nat, x \in Nat, q \in Nat :
           s = sold /\ x = sold' /\ (Running => q = part.qty) /\ q = part.qty
    BY DEF Typed
  <2>4. t <= x /\ (u <= s + q => u <= x + q)
    BY <2>2, <2>3
  <2>5. Running' <=> Running
    BY DEF Running, Busy
  <2> QED
    BY <2>1, <2>2, <2>3, <2>4, <2>5 DEF Counted
<1>6. Ledger(n, h, g)'
  BY <1>4, <1>5 DEF Ledger
<1> QED
  BY <1>2, <1>3, <1>6 DEF SimInv

LEMMA SimSync ==
  ASSUME Typed, Sound => Priced,
         NEW n \in 0..Len(plan), NEW h \in 0..n, NEW g \in h..n, Ledger(n, h, g),
         NEW a \in Agents, Sync(a)
  PROVE  SimInv'
<1>1. /\ pos \in Positions /\ faults \in Nat /\ sold \in Nat /\ Lots \in Nat
      /\ agents \in [Agents -> [pc: {"idle", "apply", "external"}, sl: {0, FirstStop, Entry}]]
      /\ \A b \in Agents : agents[b].pc # "idle" => real /\ agents[b].sl # 0
      /\ FirstStop # 0 /\ Entry # 0
  BY Knows, LotFees DEF Typed
<1>2. /\ pos.qty \in Nat /\ pos.sl \in {FirstStop, Entry} /\ pos.closed \in BOOLEAN
  BY <1>1, PositionIs
<1>3. /\ agents[a].pc \in {"idle", "apply", "external"} /\ agents[a].sl \in {0, FirstStop, Entry}
      /\ agents[a] \in [pc: {"idle", "apply", "external"}, sl: {0, FirstStop, Entry}]
  BY <1>1
<1>4. CASE FindOpen(a)
  <2>1. /\ real /\ agents' = [agents EXCEPT ![a] = [pc |-> "apply", sl |-> pos.sl]]
        /\ UNCHANGED <<dir, real, plan, pos, pc, sim, bar, exit, part, faults, sold, gross, fees>>
    BY <1>4 DEF FindOpen, bot, history
  <2>2. PICK s \in {FirstStop, Entry} : s = pos.sl
    BY <1>2
  <2>3. agents' = [agents EXCEPT ![a] = [pc |-> "apply", sl |-> s]]
    BY <2>1, <2>2
  <2>4. /\ agents' \in [Agents -> [pc: {"idle", "apply", "external"}, sl: {0, FirstStop, Entry}]]
        /\ \A b \in Agents : agents'[b].pc # "idle" => agents'[b].sl # 0
    BY <1>1, <2>3
  <2> QED
    BY <1>1, <2>1, <2>4, SyncWrites
<1>5. ASSUME NEW qty \in Sizes, NEW sl \in {agents[a].sl, FirstStop}, Reconcile(a, qty, sl)
      PROVE  SimInv'
  <2>1. /\ agents[a].pc = "apply" /\ pos' = [pos EXCEPT !.qty = qty, !.sl = sl]
        /\ agents' = [agents EXCEPT ![a] = NoSync]
        /\ UNCHANGED <<dir, real, plan, pc, sim, bar, exit, part, faults, sold, gross, fees>>
    BY <1>5 DEF Reconcile, bot, history
  <2>2. real /\ sl \in {FirstStop, Entry} /\ qty \in Nat
    BY <1>1, <1>3, <2>1, SimulatorAssumption
  <2>3. pos' \in Positions /\ pos'.targets = pos.targets
    BY <1>1, <2>1, <2>2 DEF Positions
  <2>4. /\ agents' \in [Agents -> [pc: {"idle", "apply", "external"}, sl: {0, FirstStop, Entry}]]
        /\ \A b \in Agents : agents'[b].pc # "idle" => agents'[b].sl # 0
    BY <1>1, <2>1 DEF NoSync
  <2> QED
    BY <1>1, <2>1, <2>2, <2>3, <2>4, SyncWrites
<1>6. CASE CloseRow(a)
  <2>1. /\ agents[a].pc = "apply" /\ pos' = [pos EXCEPT !.closed = TRUE, !.qty = 0]
        /\ agents' = [agents EXCEPT ![a].pc = "external"]
        /\ UNCHANGED <<dir, real, plan, pc, sim, bar, exit, part, faults, sold, gross, fees>>
    BY <1>6 DEF CloseRow, bot, history
  <2>2. real
    BY <1>1, <2>1
  <2>3. pos' \in Positions /\ pos'.targets = pos.targets
    BY <1>1, <2>1 DEF Positions
  <2>4. agents'[a] = [pc |-> "external", sl |-> agents[a].sl]
        /\ \A b \in Agents : b # a => agents'[b] = agents[b]
    BY <1>1, <1>3, <2>1
  <2>5. /\ agents' \in [Agents -> [pc: {"idle", "apply", "external"}, sl: {0, FirstStop, Entry}]]
        /\ \A b \in Agents : agents'[b].pc # "idle" => agents'[b].sl # 0
    <3>1. \A b \in Agents :
             /\ agents'[b] \in [pc: {"idle", "apply", "external"}, sl: {0, FirstStop, Entry}]
             /\ agents'[b].pc # "idle" => agents'[b].sl # 0
      BY <1>1, <1>3, <2>1, <2>4
    <3> QED
      BY <1>1, <2>1, <3>1
  <2> QED
    BY <1>1, <2>1, <2>2, <2>3, <2>5, SyncWrites
<1>7. CASE InsertExternal(a)
  <2>1. /\ agents[a].pc = "external" /\ sold' = sold + Lots
        /\ agents' = [agents EXCEPT ![a] = NoSync]
        /\ UNCHANGED <<dir, real, plan, pos, pc, sim, bar, exit, part, faults, gross, fees>>
    BY <1>7 DEF InsertExternal, bot
  <2>2. real /\ sold' \in Nat /\ sold' >= sold
    BY <1>1, <2>1
  <2>3. /\ agents' \in [Agents -> [pc: {"idle", "apply", "external"}, sl: {0, FirstStop, Entry}]]
        /\ \A b \in Agents : agents'[b].pc # "idle" => agents'[b].sl # 0
    BY <1>1, <2>1 DEF NoSync
  <2> QED
    BY <1>1, <2>1, <2>2, <2>3, SyncWrites
<1>8. CASE SyncThrows(a)
  <2>1. /\ agents[a].pc # "idle" /\ faults' = faults + 1
        /\ agents' = [agents EXCEPT ![a] = NoSync]
        /\ UNCHANGED <<dir, real, plan, pos, pc, sim, bar, exit, part, sold, gross, fees>>
    BY <1>8 DEF SyncThrows, bot, history
  <2>2. real /\ faults' \in Nat
    BY <1>1, <2>1
  <2>3. /\ agents' \in [Agents -> [pc: {"idle", "apply", "external"}, sl: {0, FirstStop, Entry}]]
        /\ \A b \in Agents : agents'[b].pc # "idle" => agents'[b].sl # 0
    BY <1>1, <2>1 DEF NoSync
  <2> QED
    BY <1>1, <2>1, <2>2, <2>3, SyncWrites
<1> QED
  BY <1>4, <1>5, <1>6, <1>7, <1>8 DEF Sync

\* A failure of the handler, or of the process.
LEMMA SimFails ==
  ASSUME Typed, Sound => Priced,
         NEW n \in 0..Len(plan), NEW h \in 0..n, NEW g \in h..n, Ledger(n, h, g),
         HandlerThrows \/ Crash
  PROVE  SimInv'
<1>1. /\ Release /\ faults' = faults + 1
      /\ agents' = agents \/ agents' = [a \in Agents |-> NoSync]
      /\ UNCHANGED <<dir, real, plan, pos, sold, gross, fees>>
  BY DEF HandlerThrows, Crash, history
<1>2. /\ pos \in Positions /\ faults \in Nat /\ sold \in Nat
      /\ agents \in [Agents -> [pc: {"idle", "apply", "external"}, sl: {0, FirstStop, Entry}]]
      /\ \A a \in Agents : agents[a].pc # "idle" => real /\ agents[a].sl # 0
      /\ (Busy => sim \in Positions) /\ part \in [qty: Nat, gross: Int, fees: Nat]
  BY DEF Typed
<1>3. /\ agents' \in [Agents -> [pc: {"idle", "apply", "external"}, sl: {0, FirstStop, Entry}]]
      /\ \A a \in Agents : agents'[a].pc # "idle" => real /\ agents'[a].sl # 0
      /\ faults' \in Nat /\ faults' # 0
  BY <1>1, <1>2 DEF NoSync
<1>4. /\ Typed' /\ (Sound' => Priced') /\ ~ Busy' /\ ~ Running' /\ pc' # "plan"
      /\ pc' # "sync" /\ part' = NoPart
      /\ InHand' = IF pos.closed THEN 0 ELSE pos.qty
  BY <1>1, <1>3, Idle
<1>5. part'.qty = 0 /\ part'.fees = 0
  BY <1>4 DEF NoPart
<1>6. Shaped(n, h, g)'
  BY <1>1, <1>4 DEF Ledger, Shaped
<1>7. Counted(n, h, g)'
  BY <1>1, <1>4 DEF Ledger, Counted
<1>8. ASSUME ~ real PROVE Paper(n, h, g)'
  <2>1. Paper(n, h, g)
    BY <1>8 DEF Ledger
  <2>2. pos.qty \in Nat /\ InHand \in Nat
    <3>1. pos.qty \in Nat /\ part.qty \in Nat /\ (Busy => sim.qty \in Nat)
      BY <1>2, PositionIs
    <3> QED
      BY <3>1 DEF InHand, Busy
  <2>3. PICK t \in Nat : t = Taken(plan, n, h)
    BY Bounds
  <2>4. pos.qty + t <= Lots /\ InHand + sold <= Lots * (1 + faults) /\ Lots \in Nat
    BY <2>1, <2>3, LotFees DEF Paper
  <2>5. pos.qty <= Lots
    BY <2>2, <2>4
  <2>6. InHand' <= Lots /\ InHand' \in Nat
    BY <1>4, <2>2, <2>4, <2>5
  <2>7. InHand' + sold <= Lots * (1 + faults')
    <3>1. PICK x \in Nat : x = Lots * (1 + faults)
      BY <1>2, <2>4
    <3>2. Lots * (1 + faults') = x + Lots
      BY <1>1, <1>2, <2>4, <3>1
    <3>3. sold <= x
      BY <1>2, <2>2, <2>4, <3>1
    <3> QED
      BY <1>2, <2>4, <2>6, <3>2, <3>3
  <2>8. LotFee * 0 = 0 /\ LotMin * 0 = 0
    BY LotFees
  <2> QED
    BY <1>1, <1>4, <1>5, <2>1, <2>7, <2>8 DEF Paper
<1>9. ~ real => Freed(h, g)'
  BY <1>1, <1>4 DEF Ledger, Freed
<1>10. Ledger(n, h, g)'
  BY <1>1, <1>3, <1>6, <1>7, <1>8, <1>9 DEF Ledger
<1> QED
  BY <1>1, <1>4, <1>10 DEF SimInv

LEMMA SimUnchanged ==
  ASSUME SimInv, UNCHANGED vars
  PROVE  SimInv'
<1>1. UNCHANGED <<dir, real, plan, pos, pc, sim, bar, exit, part, agents, faults, sold, gross, fees>>
  BY DEF vars
<1>2. Positions' = Positions /\ (Sound' <=> Sound) /\ FirstStop' = FirstStop
  BY <1>1, PositionsStay
<1>3. /\ (Busy' <=> Busy) /\ (Running' <=> Running) /\ InHand' = InHand
  BY <1>1 DEF Busy, Running, InHand
<1>4. Typed'
  BY <1>1, <1>2, <1>3 DEF SimInv, Typed
<1>5. Sound' => Priced'
  BY <1>1, <1>2 DEF SimInv, Priced
<1>6. PICK n \in 0..Len(plan) : \E h \in 0..n : \E g \in h..n : Ledger(n, h, g)
  BY DEF SimInv
<1>7. PICK h \in 0..n : \E g \in h..n : Ledger(n, h, g)
  BY <1>6
<1>8. PICK g \in h..n : Ledger(n, h, g)
  BY <1>7
<1>9. Shaped(n, h, g)' /\ Counted(n, h, g)'
  BY <1>1, <1>3, <1>8 DEF Ledger, Shaped, Counted
<1>10. ~ real => Paper(n, h, g)' /\ Freed(h, g)'
  BY <1>1, <1>3, <1>8 DEF Ledger, Paper, Freed
<1>11. ~ real /\ faults = 0 => Smooth(n, h, g)' /\ (Sound' => Profit(h)')
  BY <1>1, <1>2, <1>3, <1>8 DEF Ledger, Smooth, Profit
<1>12. Ledger(n, h, g)'
  BY <1>1, <1>9, <1>10, <1>11 DEF Ledger
<1>13. n \in 0..Len(plan')
  BY <1>1
<1> QED
  BY <1>4, <1>5, <1>12, <1>13 DEF SimInv

LEMMA SimStep ==
  ASSUME SimInv, Next
  PROVE  SimInv'
<1>1. Typed /\ (Sound => Priced)
  BY DEF SimInv
<1>2. PICK n \in 0..Len(plan) : \E h \in 0..n : \E g \in h..n : Ledger(n, h, g)
  BY DEF SimInv
<1>3. PICK h \in 0..n : \E g \in h..n : Ledger(n, h, g)
  BY <1>2
<1>4. PICK g \in h..n : Ledger(n, h, g)
  BY <1>3
<1>5. CASE SaveTarget
  BY <1>1, <1>4, <1>5, SimSaveTarget
<1>6. ASSUME NEW price \in Closes, Load(price) PROVE SimInv'
  BY <1>1, <1>4, <1>6, SimLoad
<1>7. CASE TakeTarget
  BY <1>1, <1>4, <1>7, SimTakeTarget
<1>8. CASE LeavePart
  BY <1>1, <1>4, <1>8, SimLeavePart
<1>9. CASE LeaveRest
  BY <1>1, <1>4, <1>9, SimLeaveRest
<1>10. CASE InsertTrade
  BY <1>1, <1>4, <1>10, SimInsertTrade
<1>11. CASE SyncPosition
  BY <1>1, <1>4, <1>11, SimSyncPosition
<1>12. CASE SyncTarget
  BY <1>1, <1>4, <1>12, SimSyncTarget
<1>13. CASE Finish
  BY <1>1, <1>4, <1>13, SimFinish
<1>14. ASSUME NEW a \in Agents, Sync(a) PROVE SimInv'
  BY <1>1, <1>4, <1>14, SimSync
<1>15. CASE HandlerThrows \/ Crash
  BY <1>1, <1>4, <1>15, SimFails
<1> QED
  BY <1>5, <1>6, <1>7, <1>8, <1>9, <1>10, <1>11, <1>12, <1>13, <1>14, <1>15 DEF Next, Handler

LEMMA SimInductive == Spec => []SimInv
<1>1. SimInv /\ [Next]_vars => SimInv'
  BY SimStep, SimUnchanged
<1> QED
  BY SimInit, <1>1, PTL DEF Spec

-----------------------------------------------------------------------------
(* The properties.                                                         *)

(* The rows, the handler's copy and the syncs stay of their types, whatever *)
(* the candles, the exchange and the failures: no quantity, stop, take      *)
(* profit or fee runs out of its range (simulator.ts:84-136,                *)
(* bot.service.ts:98-177, 335-393).                                         *)
THEOREM RowTypes == Spec => []TypeOK
<1>1. SimInv => TypeOK
  <2> SUFFICES ASSUME SimInv PROVE TypeOK
    OBVIOUS
  <2>1. Typed
    BY DEF SimInv
  <2>2. /\ FirstStop \in Nat \ {0} /\ Entry \in Nat \ {0} /\ Prices \subseteq Nat \ {0}
    BY <2>1, Knows
  <2>3. Positions \subseteq Rows
    <3>1. {FirstStop, Entry} \subseteq Nat /\ Prices \subseteq Nat
      BY <2>2
    <3> QED
      BY <3>1 DEF Positions, Rows, RowTargets
  <2>4. NoPosition \in Rows
    <3>1. <<>> \in Seq([price: Nat \ {0}, qty: Nat \ {0}, filledQty: Nat, hit: BOOLEAN])
      OBVIOUS
    <3> QED
      BY <3>1 DEF NoPosition, Rows
  <2>5. pos \in Rows /\ sim \in Rows
    BY <2>1, <2>3, <2>4 DEF Typed
  <2>6. agents \in [Agents -> [pc: {"idle", "apply", "external"}, sl: Nat]]
    <3>1. {0, FirstStop, Entry} \subseteq Nat
      BY <2>2
    <3> QED
      BY <2>1, <3>1 DEF Typed
  <2> QED
    BY <2>1, <2>5, <2>6 DEF Typed, TypeOK
<1> QED
  BY <1>1, SimInductive, PTL

(* No lot is sold twice or lost, but for the parts a failure makes the      *)
(* program forget, and every part pays its share of the fees, for any       *)
(* targets, closes, fee rates, syncs and failures (bot.service.ts:98-177,   *)
(* 335-393, simulator.ts:84-136, 190-202, bitget-sync.service.ts:66-92,     *)
(* 281-308).                                                                *)
THEOREM LotsAreConserved == Spec => []QtyConserved
<1>1. SimInv => QtyConserved
  <2> SUFFICES ASSUME SimInv PROVE QtyConserved
    OBVIOUS
  <2>1. Typed
    BY DEF SimInv
  <2>2. PICK n \in 0..Len(plan) : \E h \in 0..n : \E g \in h..n : Ledger(n, h, g)
    BY DEF SimInv
  <2>3. PICK h \in 0..n : \E g \in h..n : Ledger(n, h, g)
    BY <2>2
  <2>4. PICK g \in h..n : Ledger(n, h, g)
    BY <2>3
  <2>5. plan \in Seq(FreshTargets) /\ n \in Nat /\ h \in Nat
    BY <2>1, Knows, Bounds
  <2>6. pos.targets = Marked(plan, n, h) /\ Taken(plan, n, h) <= sold
    BY <2>4 DEF Ledger, Shaped, Counted
  <2>7. /\ DOMAIN pos.targets = 1..n
        /\ \A i \in 1..n : /\ pos.targets[i].qty = plan[i].qty
                           /\ (pos.targets[i].hit <=> i <= h)
                           /\ pos.targets[i].filledQty = IF i <= h THEN plan[i].qty ELSE 0
    <3>1. /\ DOMAIN Marked(plan, n, h) = 1..n
          /\ \A i \in 1..n : /\ Marked(plan, n, h)[i].qty = plan[i].qty
                             /\ (Marked(plan, n, h)[i].hit <=> i <= h)
                             /\ Marked(plan, n, h)[i].filledQty = IF i <= h THEN plan[i].qty ELSE 0
      BY <2>5, MarkedIs
    <3> QED
      BY <2>6, <3>1
  <2>8. Filled(pos) = Taken(plan, n, h)
    <3>1. Filled(pos) = Total([i \in 1..n |-> pos.targets[i].filledQty])
      BY <2>7 DEF Filled
    <3> QED
      BY <2>6, <3>1 DEF Taken
  <2>9. \A i \in DOMAIN pos.targets :
           LET t == pos.targets[i] IN
           /\ t.filledQty = IF t.hit THEN t.qty ELSE 0
           /\ t.hit => \A j \in 1..i : pos.targets[j].hit
    <3> SUFFICES ASSUME NEW i \in 1..n
                 PROVE  /\ pos.targets[i].filledQty
                             = IF pos.targets[i].hit THEN pos.targets[i].qty ELSE 0
                        /\ pos.targets[i].hit => \A j \in 1..i : pos.targets[j].hit
      BY <2>7
    <3>1. pos.targets[i].filledQty = IF pos.targets[i].hit THEN pos.targets[i].qty ELSE 0
      BY <2>7
    <3>2. ASSUME pos.targets[i].hit, NEW j \in 1..i PROVE pos.targets[j].hit
      <4>1. i <= h
        BY <2>7, <3>2
      <4>2. j \in 1..n /\ j <= h
        BY <2>5, <4>1
      <4> QED
        BY <2>7, <4>2
    <3> QED
      BY <3>1, <3>2
  <2>10. ASSUME ~ real
         PROVE  /\ pos.qty + Filled(pos) <= Lots
                /\ pos.closed <=> pos.qty = 0
                /\ ~ pos.closed => pos.feeLeft * Lots = EntryFeeTotal * pos.qty
                /\ fees * Lots >= Max({MinFee, EntryFeeTotal}) * sold
                /\ InHand + sold <= Lots * (1 + faults)
    <3>1. /\ pos.qty + Taken(plan, n, h) <= Lots
          /\ pos.closed <=> pos.qty = 0
          /\ ~ pos.closed => pos.feeLeft = LotFee * pos.qty
          /\ fees >= LotFee * sold /\ fees >= LotMin * sold
          /\ InHand + sold <= Lots * (1 + faults)
      BY <2>4, <2>10 DEF Ledger, Paper
    <3>2. pos.qty \in Nat /\ sold \in Nat /\ fees \in Nat
      BY <2>1, PositionIs DEF Typed
    <3>3. ~ pos.closed => pos.feeLeft * Lots = EntryFeeTotal * pos.qty
      <4>1. \A a, b, c \in Nat : (a * b) * c = (c * a) * b
        OBVIOUS
      <4>2. (LotFee * pos.qty) * Lots = (Lots * LotFee) * pos.qty
        BY <3>2, <4>1, LotFees
      <4> QED
        BY <3>1, <4>2, LotFees
    <3>4. fees * Lots >= Max({MinFee, EntryFeeTotal}) * sold
      <4>1. Max({MinFee, EntryFeeTotal}) \in {MinFee, EntryFeeTotal}
        <5>1. EntryFeeTotal \in Int /\ MinFee \in Int
          BY LotFees
        <5> QED
          BY <5>1, MaxPair
      <4>2. PICK e \in {LotFee, LotMin} : Max({MinFee, EntryFeeTotal}) = Lots * e
        BY <4>1, LotFees
      <4>3. fees >= e * sold /\ e \in Nat
        BY <3>1, LotFees
      <4>4. PICK x \in Nat : x = e * sold
        BY <3>2, <4>3
      <4>5. fees * Lots >= x * Lots
        BY <3>2, <4>3, <4>4, LotFees, TimesMonotone
      <4>6. \A a, b, c \in Nat : (b * c) * a = (a * b) * c
        OBVIOUS
      <4>7. x * Lots = (Lots * e) * sold
        BY <3>2, <4>3, <4>4, <4>6, LotFees
      <4> QED
        BY <4>2, <4>5, <4>7
    <3> QED
      BY <2>8, <3>1, <3>3, <3>4
  <2>11. ASSUME ~ real, faults = 0
         PROVE  /\ InHand + sold = Lots
                /\ pc = "idle" /\ ~ pos.closed => sold = Filled(pos)
    BY <2>4, <2>8, <2>11 DEF Ledger, Smooth, Busy
  <2> QED
    BY <2>6, <2>8, <2>9, <2>10, <2>11 DEF QtyConserved
<1> QED
  BY <1>1, SimInductive, PTL

(* A paper position whose first target's row is hit has its stop at the     *)
(* entry or better, however candles were cut short, and is in profit before *)
(* fees if its plan is sound and nothing failed, for any targets and closes *)
(* (simulator.ts:106, bot.service.ts:374-390).                              *)
THEOREM FirstTargetFreesOfRisk == Spec => []RiskFreeAfterFirstTarget
<1>1. SimInv => RiskFreeAfterFirstTarget
  <2> SUFFICES ASSUME SimInv, ~ real, ~ pos.closed, pos.targets # <<>>, pos.targets[1].hit
               PROVE  /\ Beyond(Stop, Entry) /\ Beyond(pos.sl, Entry)
                      /\ Sound /\ faults = 0 => gross > 0
    BY DEF RiskFreeAfterFirstTarget
  <2>1. Typed
    BY DEF SimInv
  <2>2. PICK n \in 0..Len(plan) : \E h \in 0..n : \E g \in h..n : Ledger(n, h, g)
    BY DEF SimInv
  <2>3. PICK h \in 0..n : \E g \in h..n : Ledger(n, h, g)
    BY <2>2
  <2>4. PICK g \in h..n : Ledger(n, h, g)
    BY <2>3
  <2>5. plan \in Seq(FreshTargets) /\ n \in Nat /\ h \in Nat
    BY <2>1, Knows, Bounds
  <2>6. pos.targets = Marked(plan, n, h)
    BY <2>4 DEF Ledger, Shaped
  <2>7. h >= 1 /\ h \in 1..n
    <3>1. /\ Marked(plan, n, h) \in Seq(RowTargets) /\ Len(Marked(plan, n, h)) = n
          /\ \A i \in 1..n : Marked(plan, n, h)[i].hit <=> i <= h
      BY <2>5, MarkedIs
    <3>2. n # 0
      BY <2>6, <3>1
    <3>3. 1 \in 1..n
      BY <2>5, <3>2
    <3>4. 1 <= h
      BY <2>6, <3>1, <3>3
    <3> QED
      BY <2>5, <3>4
  <2>8. pos.sl = Entry /\ Stop = Entry
    BY <2>4, <2>7 DEF Ledger, Freed, Stop, Busy
  <2>9. Entry \in Nat /\ dir \in {1, -1} /\ dir * Entry \in Int
    <3>1. Entry \in Nat /\ dir \in {1, -1}
      BY <2>1, Knows
    <3> QED
      BY <3>1
  <2>10. Beyond(Stop, Entry) /\ Beyond(pos.sl, Entry)
    BY <2>8, <2>9 DEF Beyond
  <2>11. ASSUME Sound, faults = 0 PROVE gross > 0
    <3>1. Smooth(n, h, g) /\ Profit(h)
      BY <2>4, <2>11 DEF Ledger
    <3>2. CASE Busy
      BY <2>7, <3>1, <3>2 DEF Profit
    <3>3. CASE ~ Busy
      <4>1. gross >= sold /\ sold = Taken(plan, n, h)
        BY <3>1, <3>3 DEF Profit, Smooth
      <4>2. Taken(plan, n, h) >= 1
        BY <2>5, <2>7, SomeTaken
      <4>3. gross \in Int /\ sold \in Nat
        BY <2>1 DEF Typed
      <4> QED
        BY <4>1, <4>2, <4>3
    <3> QED
      BY <3>2, <3>3
  <2> QED
    BY <2>10, <2>11
<1> QED
  BY <1>1, SimInductive, PTL

-----------------------------------------------------------------------------
(* The refinement.                                                         *)

LEMMA HeldAndStop ==
  ASSUME Typed
  PROVE  /\ InHand \in Nat /\ Stop \in {FirstStop, Entry}
         /\ FirstStop \in Nat /\ Entry \in Nat /\ dir \in {1, -1}
         /\ dir * Entry >= dir * FirstStop
<1>1. /\ pos \in Positions /\ (Busy => sim \in Positions) /\ part.qty \in Nat
  BY DEF Typed
<1>2. /\ pos.qty \in Nat /\ pos.sl \in {FirstStop, Entry}
      /\ Busy => sim.qty \in Nat /\ sim.sl \in {FirstStop, Entry}
  BY <1>1, PositionIs
<1> QED
  BY <1>1, <1>2, Knows DEF InHand, Stop, Busy

\* A step that sells nothing and moves the stop, if at all, to the entry.
LEMMA BookMoves ==
  ASSUME Typed, UNCHANGED <<dir, real, plan, gross, faults>>,
         InHand' = InHand, Stop' \in {Stop, Entry} \/ InHand' = 0
  PROVE  Book!Sell
<1>1. /\ InHand \in Nat /\ Stop \in {FirstStop, Entry}
      /\ FirstStop \in Nat /\ Entry \in Nat /\ dir \in {1, -1}
      /\ dir * Entry >= dir * FirstStop
  BY HeldAndStop
<1>2. InHand' \in 0..InHand /\ InHand - InHand' = 0
  BY <1>1
<1>3. InHand' > 0 => dir * Stop' >= dir * Stop
  BY <1>1
<1>4. Sound' = Sound
  BY DEF Sound
<1>5. gross' - gross >= (InHand - InHand') * dir * (Stop - Entry)
  <2>1. gross \in Int
    BY DEF Typed
  <2>2. 0 >= 0 * dir * (Stop - Entry)
    BY <1>1, NothingPriced
  <2> QED
    BY <1>2, <2>1, <2>2
<1> QED
  BY <1>2, <1>3, <1>4, <1>5 DEF Book!Sell

\* The trade of a part, priced at the stop or better.
LEMMA BookSells ==
  ASSUME Typed, Sound => Priced, InsertTrade
  PROVE  Book!Sell
<1>1. /\ pc = "trade" /\ pc' = "candle" /\ part' = NoPart /\ gross' = gross + part.gross
      /\ UNCHANGED <<dir, real, plan, sim, faults>>
  BY DEF InsertTrade
<1>2. /\ sim.qty \in Nat /\ sim.sl \in {FirstStop, Entry} /\ part.qty \in Nat
      /\ part.gross \in Int /\ gross \in Int
  BY <1>1, PositionIs DEF Typed, Busy
<1>3. Stop = sim.sl /\ Stop' = sim.sl /\ InHand = sim.qty + part.qty /\ InHand' = sim.qty
  BY <1>1, <1>2 DEF Stop, InHand, NoPart
<1>4. InHand' \in 0..InHand /\ InHand - InHand' = part.qty /\ gross' - gross = part.gross
  BY <1>1, <1>2, <1>3
<1>5. dir * Stop' >= dir * Stop
  <2>1. dir \in {1, -1} /\ Stop \in Nat
    BY HeldAndStop
  <2> QED
    BY <1>3, <2>1
<1>6. Sound => gross' - gross >= (InHand - InHand') * dir * (Stop - Entry)
  BY <1>3, <1>4 DEF Priced
<1>7. Sound' = Sound
  BY <1>1 DEF Sound
<1> QED
  BY <1>1, <1>4, <1>5, <1>6, <1>7 DEF Book!Sell

\* The handler is done: its copy is what a paper position's row says.
LEMMA BookFinishes ==
  ASSUME Typed, Typed', NEW n \in 0..Len(plan), NEW h \in 0..n, NEW g \in h..n, Ledger(n, h, g),
         Finish
  PROVE  Book!Next
<1>1. /\ Release /\ UNCHANGED <<dir, real, plan, pos, faults, gross>>
      /\ \/ pc = "sync" /\ Behind = {}
         \/ pc = "candle" /\ sim.closed
  BY DEF Finish, history
<1>2. /\ InHand' = (IF pos.closed THEN 0 ELSE pos.qty) /\ Stop' = pos.sl
      /\ InHand = sim.qty + part.qty /\ Stop = sim.sl /\ part = NoPart /\ Busy
  BY <1>1 DEF Release, InHand, Stop, Typed, Busy
<1>3. sim.qty \in Nat /\ InHand = sim.qty
  <2>1. sim \in Positions /\ part.qty = 0
    BY <1>2 DEF Typed, NoPart
  <2>2. sim.qty \in Nat
    BY <2>1, PositionIs
  <2> QED
    BY <1>2, <2>1, <2>2
<1>4. CASE ~ real
  <2>1. Paper(n, h, g)
    BY <1>4 DEF Ledger
  <2>2. CASE pc = "sync"
    <3>1. pos.qty = sim.qty /\ pos.sl = sim.sl /\ ~ pos.closed
      BY <1>2, <2>1, <2>2 DEF Paper, Typed
    <3> QED
      BY <1>1, <1>2, <1>3, <3>1, BookMoves DEF Book!Next
  <2>3. CASE pc = "candle" /\ sim.closed
    <3>1. pos.closed /\ sim.qty = 0
      BY <1>2, <2>1, <2>3 DEF Paper
    <3> QED
      BY <1>1, <1>2, <1>3, <3>1, BookMoves DEF Book!Next
  <2> QED
    BY <1>1, <2>2, <2>3
<1>5. CASE real
  <2>1. InHand' \in Nat /\ Stop' \in {FirstStop', Entry} /\ FirstStop' = FirstStop
    BY <1>1, HeldAndStop, PositionIs DEF FirstStop, Stop, InHand, Typed, Release
  <2>2. Sound' = Sound
    BY <1>1 DEF Sound
  <2> QED
    BY <1>1, <1>5, <2>1, <2>2 DEF Book!Next, Book!Resync, Book!FirstStop, FirstStop
<1> QED
  BY <1>4, <1>5 DEF Typed

\* A failure: what the handler had in hand is forgotten.
LEMMA BookFails ==
  ASSUME Typed, NEW n \in 0..Len(plan), NEW h \in 0..n, NEW g \in h..n, Ledger(n, h, g),
         HandlerThrows \/ Crash
  PROVE  Book!Cut
<1>1. /\ Release /\ faults' = faults + 1 /\ UNCHANGED <<dir, real, plan, pos, gross>>
  BY DEF HandlerThrows, Crash, history
<1>2. /\ InHand' = (IF pos.closed THEN 0 ELSE pos.qty) /\ Stop' = pos.sl
  BY <1>1 DEF Release, InHand, Stop
<1>3. /\ pos.qty \in Nat /\ pos.sl \in {FirstStop, Entry} /\ InHand \in Nat
  BY HeldAndStop, PositionIs DEF Typed
<1>4. InHand' \in Nat /\ Stop' \in {Stop, FirstStop, Entry}
  BY <1>2, <1>3
<1>5. ASSUME ~ real
      PROVE  IF InHand = 0 THEN InHand' = 0 ELSE InHand' \in {0} \union InHand..Lots
  <2>1. Paper(n, h, g)
    BY <1>5 DEF Ledger
  <2>2. pos.qty <= Lots /\ Lots \in Nat
    <3>1. PICK t \in Nat : t = Taken(plan, n, h)
      BY Bounds
    <3>2. pos.qty + t <= Lots /\ Lots \in Nat
      BY <2>1, <3>1, LotFees DEF Paper
    <3> QED
      BY <1>3, <3>2
  <2>3. ~ pos.closed => pos.qty >= InHand /\ InHand # 0
    <3>1. CASE Busy
      <4>1. InHand = sim.qty + part.qty /\ sim.qty \in Nat /\ part.qty \in Nat
        BY <3>1, PositionIs DEF InHand, Busy, Typed
      <4>2. ~ pos.closed => pos.qty >= sim.qty + part.qty /\ sim.qty # 0
        BY <2>1, <3>1 DEF Paper
      <4> QED
        BY <4>1, <4>2
    <3>2. CASE ~ Busy
      BY <1>3, <2>1, <3>2 DEF Paper, InHand, Busy
    <3> QED
      BY <3>1, <3>2
  <2> QED
    BY <1>2, <1>3, <2>2, <2>3
<1>6. Sound' = Sound
  BY <1>1 DEF Sound
<1> QED
  BY <1>1, <1>4, <1>5, <1>6 DEF Book!Cut, Book!FirstStop, FirstStop

LEMMA BookSyncs ==
  ASSUME Typed, Typed', NEW a \in Agents, Sync(a)
  PROVE  [Book!Next]_(Book!vars)
<1>1. /\ UNCHANGED <<dir, real, plan, pc, sim, part, gross>>
  BY DEF Sync, FindOpen, Reconcile, CloseRow, InsertExternal, SyncThrows, bot, history
<1>2. /\ Sound' = Sound /\ FirstStop' = FirstStop
  BY <1>1 DEF Sound, FirstStop
<1>3. /\ InHand \in Nat /\ InHand' \in Nat /\ Stop \in {FirstStop, Entry}
      /\ Stop' \in {FirstStop, Entry}
  <2>1. pos' \in Positions /\ (pc # "idle" => sim \in Positions) /\ part.qty \in Nat
    <3>1. pos' \in Positions' /\ Positions' = Positions
      BY <1>1, PositionsStay DEF Typed
    <3> QED
      BY <3>1 DEF Typed, Busy
  <2>2. /\ pos'.qty \in Nat /\ pos'.sl \in {FirstStop, Entry}
        /\ pc # "idle" => sim.qty \in Nat /\ sim.sl \in {FirstStop, Entry}
    BY <2>1, PositionIs
  <2>3. InHand' \in Nat /\ Stop' \in {FirstStop, Entry}
    BY <1>1, <2>1, <2>2 DEF InHand, Stop
  <2> QED
    BY <2>3, HeldAndStop
<1>4. CASE FindOpen(a) \/ InsertExternal(a)
  <2>1. UNCHANGED <<pos, faults>>
    BY <1>4 DEF FindOpen, InsertExternal
  <2>2. InHand' = InHand /\ Stop' = Stop
    BY <1>1, <2>1 DEF InHand, Stop
  <2> QED
    BY <1>1, <1>2, <2>1, <2>2 DEF Book!vars
<1>5. CASE CloseRow(a) \/ \E qty \in Sizes, sl \in {agents[a].sl, FirstStop} : Reconcile(a, qty, sl)
  <2>1. agents[a].pc = "apply" /\ faults' = faults
    BY <1>5 DEF CloseRow, Reconcile
  <2>2. real
    BY <2>1 DEF Typed
  <2> QED
    BY <1>1, <1>2, <1>3, <2>1, <2>2 DEF Book!Next, Book!Resync, Book!FirstStop, FirstStop
<1>6. CASE SyncThrows(a)
  <2>1. agents[a].pc # "idle" /\ faults' = faults + 1 /\ pos' = pos
    BY <1>6 DEF SyncThrows
  <2>2. real
    BY <2>1 DEF Typed
  <2>3. InHand' = InHand /\ Stop' = Stop
    BY <1>1, <2>1 DEF InHand, Stop
  <2> QED
    BY <1>1, <1>2, <1>3, <2>1, <2>2, <2>3 DEF Book!Next, Book!Cut, Book!FirstStop, FirstStop
<1> QED
  BY <1>4, <1>5, <1>6 DEF Sync

\* The awaits that neither sell nor move what the handler has in hand.
LEMMA BookStays ==
  ASSUME Typed, SaveTarget \/ (\E price \in Closes : Load(price)) \/ SyncPosition \/ SyncTarget
  PROVE  UNCHANGED Book!vars
<1>1. /\ UNCHANGED <<dir, real, plan, part, gross, faults>>
  BY DEF SaveTarget, Load, SyncPosition, SyncTarget, bot, history
<1>2. Sound' = Sound
  BY <1>1 DEF Sound
<1>3. CASE \E price \in Closes : Load(price)
  <2>1. pc = "idle" /\ ~ pos.closed /\ pc' = "candle" /\ sim' = pos /\ part = NoPart
    BY <1>3 DEF Load, Typed
  <2>2. pos.qty \in Nat
    BY PositionIs DEF Typed
  <2>3. InHand' = InHand /\ Stop' = Stop
    BY <1>1, <2>1, <2>2 DEF InHand, Stop, NoPart
  <2> QED
    BY <1>1, <1>2, <2>3 DEF Book!vars
<1>4. CASE SaveTarget \/ SyncPosition \/ SyncTarget
  <2>1. pc # "idle" /\ pc' # "idle" /\ sim' = sim
    BY <1>4 DEF SaveTarget, SyncPosition, SyncTarget, Settled, bot
  <2>2. InHand' = InHand /\ Stop' = Stop
    BY <1>1, <2>1 DEF InHand, Stop
  <2> QED
    BY <1>1, <1>2, <2>2 DEF Book!vars
<1> QED
  BY <1>3, <1>4

LEMMA BookStep ==
  ASSUME SimInv, SimInv', Next
  PROVE  [Book!Next]_(Book!vars)
<1>1. Typed /\ Typed' /\ (Sound => Priced)
  BY DEF SimInv
<1>2. PICK n \in 0..Len(plan) : \E h \in 0..n : \E g \in h..n : Ledger(n, h, g)
  BY DEF SimInv
<1>3. PICK h \in 0..n : \E g \in h..n : Ledger(n, h, g)
  BY <1>2
<1>4. PICK g \in h..n : Ledger(n, h, g)
  BY <1>3
<1>5. CASE SaveTarget \/ (\E price \in Closes : Load(price)) \/ SyncPosition \/ SyncTarget
  BY <1>1, <1>5, BookStays
<1>6. CASE TakeTarget \/ LeavePart \/ LeaveRest
  <2>1. InHand' = InHand /\ Stop' \in {Stop, Entry}
    BY <1>1, <1>4, <1>6, SimTakeTarget, SimLeavePart, SimLeaveRest
  <2>2. UNCHANGED <<dir, real, plan, gross, faults>>
    BY <1>6 DEF TakeTarget, LeavePart, LeaveRest, history
  <2> QED
    BY <1>1, <2>1, <2>2, BookMoves DEF Book!Next
<1>7. CASE InsertTrade
  BY <1>1, <1>7, BookSells DEF Book!Next
<1>8. CASE Finish
  BY <1>1, <1>4, <1>8, BookFinishes
<1>9. ASSUME NEW a \in Agents, Sync(a) PROVE [Book!Next]_(Book!vars)
  BY <1>1, <1>9, BookSyncs
<1>10. CASE HandlerThrows \/ Crash
  BY <1>1, <1>4, <1>10, BookFails DEF Book!Next
<1> QED
  BY <1>5, <1>6, <1>7, <1>8, <1>9, <1>10 DEF Next, Handler

(* The simulator and the writes around it implement PositionBook, for any   *)
(* targets, closes, reported sizes, syncs and failures: however many        *)
(* targets a candle reaches and however far beyond the stop it closes,      *)
(* every part of a sound plan is sold at the stop in force or better, the   *)
(* stop only tightens, and only failures and the exchange's numbers set a   *)
(* position back (simulator.ts:84-136, bot.service.ts:98-177, 335-393).     *)
THEOREM SimulatorKeepsTheBook == Spec => BookSpec
<1>1. Init => Book!Init
  <2> SUFFICES ASSUME Init PROVE Book!Init
    OBVIOUS
  <2>1. /\ dir \in {1, -1} /\ real \in BOOLEAN /\ sim.qty = Lots /\ sim.sl = FirstStop
        /\ pc = "plan" /\ part = NoPart /\ gross = 0 /\ faults = 0
    BY DEF Init
  <2>2. InHand = Lots /\ Stop = FirstStop
    BY <2>1, LotFees DEF InHand, Stop, NoPart
  <2>3. Sound \in BOOLEAN
    BY DEF Sound
  <2> QED
    BY <2>1, <2>2, <2>3 DEF Book!Init, Book!FirstStop, FirstStop
<1>2. SimInv /\ SimInv' /\ [Next]_vars => [Book!Next]_(Book!vars)
  <2>1. ASSUME UNCHANGED vars PROVE UNCHANGED Book!vars
    BY <2>1 DEF vars, Book!vars, Sound, InHand, Stop
  <2> QED
    BY <2>1, BookStep
<1> QED
  BY <1>1, <1>2, SimInductive, PTL DEF Spec, BookSpec, Book!Spec
==============================================================================
