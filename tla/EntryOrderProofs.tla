--------------------------- MODULE EntryOrderProofs ---------------------------
(***************************************************************************)
(* Theorems about EntryOrder, StrategyConfig and TakeProfitPlan, for any   *)
(* template lists, ratios, prices, quantities, requests and faults.        *)
(*                                                                         *)
(* The plan is made by folds.  What a fold yields is proved by an          *)
(* induction over values: a set of numbers that holds 0 and the successor  *)
(* of each of its members is Nat, by the least-element theorem WFMin.      *)
(***************************************************************************)
EXTENDS EntryOrder, SequenceTheorems, FiniteSetTheorems, WellFoundedInduction, TLAPS

LEMMA SetInduction ==
  ASSUME NEW S, 0 \in S, \A n \in Nat : n \in S => n + 1 \in S
  PROVE  Nat \subseteq S
<1> SUFFICES ASSUME NEW m \in Nat, m \notin S PROVE FALSE
  OBVIOUS
<1> DEFINE T == Nat \ S
<1>1. T \in SUBSET Nat /\ m \in T
  OBVIOUS
<1>2. PICK k \in T : \A j \in T : ~ (<<j, k>> \in OpToRel(<, Nat))
  BY <1>1, WFMin, NatLessThanWellFounded
<1>3. k # 0 /\ k - 1 \in Nat
  OBVIOUS
<1>4. <<k - 1, k>> \in OpToRel(<, Nat)
  BY <1>3 DEF OpToRel
<1>5. k - 1 \in S
  BY <1>2, <1>3, <1>4
<1> QED
  BY <1>3, <1>5

-----------------------------------------------------------------------------
(* Folds over 1..n from the left.                                          *)

LEMMA MaxInterval ==
  ASSUME NEW n \in Nat, NEW s \in SUBSET (1..(n + 1)), n + 1 \in s
  PROVE  Max(s) = n + 1
<1>1. n + 1 \in s /\ \A y \in s : n + 1 >= y
  OBVIOUS
<1>2. Max(s) \in s /\ \A y \in s : Max(s) >= y
  BY <1>1 DEF Max
<1>3. Max(s) \in 1..(n + 1) /\ Max(s) >= n + 1
  BY <1>1, <1>2
<1> HIDE DEF Max
<1> QED
  BY <1>3

LEMMA IntervalStep ==
  ASSUME NEW n \in Nat, NEW k \in Nat, k < n
  PROVE  /\ 1..(k + 1) \in SUBSET (1..n) /\ 1..(k + 1) # {} /\ k + 1 \in 1..(k + 1)
         /\ (1..(k + 1)) \ {k + 1} = 1..k
<1>1. 1..(k + 1) \in SUBSET (1..n) /\ k + 1 \in 1..(k + 1)
  OBVIOUS
<1>2. \A i : i \in (1..(k + 1)) \ {k + 1} <=> i \in 1..k
  OBVIOUS
<1> QED
  BY <1>1, <1>2

LEMMA MaxIn ==
  ASSUME NEW n \in Nat, NEW s \in SUBSET (1..n), s # {}
  PROVE  Max(s) \in s
<1> DEFINE S == {m \in Nat : \A u \in SUBSET (1..m) : u # {} => Max(u) \in u}
<1>1. 0 \in S
  <2>1. 1..0 = {}
    OBVIOUS
  <2> QED
    BY <2>1
<1>2. ASSUME NEW m \in Nat, m \in S PROVE m + 1 \in S
  <2> SUFFICES ASSUME NEW u \in SUBSET (1..(m + 1)), u # {} PROVE Max(u) \in u
    OBVIOUS
  <2>1. CASE m + 1 \in u
    BY <2>1, MaxInterval
  <2>2. CASE m + 1 \notin u
    <3>1. u \in SUBSET (1..m)
      BY <2>2
    <3> QED
      BY <1>2, <3>1
  <2> QED
    BY <2>1, <2>2
<1> HIDE DEF S
<1>3. n \in S
  BY <1>1, <1>2, SetInduction
<1> QED
  BY <1>3 DEF S

\* What the iteration of a fold with the function F is, set by set.
Folds(g, n, base, F) ==
    \A s \in SUBSET (1..n) :
        g[s] = IF s = {} THEN base ELSE F[<<g[s \ {Max(s)}], Max(s)>>]

(* There is one whenever F leads from a set back to the same set.          *)
LEMMA FoldExists ==
  ASSUME NEW n \in Nat, NEW B, NEW base \in B, NEW F \in [B \X (1..n) -> B]
  PROVE  \E g \in [SUBSET (1..n) -> B] : Folds(g, n, base, F)
<1> DEFINE Has(m) == \E g \in [SUBSET (1..m) -> B] : Folds(g, m, base, F)
           S == {m \in Nat : m <= n => Has(m)}
<1>1. 0 \in S
  <2>1. [s \in SUBSET (1..0) |-> base] \in [SUBSET (1..0) -> B]
    OBVIOUS
  <2>2. \A s \in SUBSET (1..0) : s = {}
    OBVIOUS
  <2>3. Folds([s \in SUBSET (1..0) |-> base], 0, base, F)
    BY <2>2 DEF Folds
  <2> QED
    BY <2>1, <2>3
<1>2. ASSUME NEW m \in Nat, m \in S PROVE m + 1 \in S
  <2> HIDE DEF Has
  <2> SUFFICES ASSUME m + 1 <= n PROVE Has(m + 1)
    OBVIOUS
  <2>0. Has(m)
    BY <1>2
  <2>1. PICK g \in [SUBSET (1..m) -> B] : Folds(g, m, base, F)
    BY <2>0 DEF Has
  <2> DEFINE h == [s \in SUBSET (1..(m + 1)) |->
                      IF m + 1 \in s THEN F[<<g[s \ {m + 1}], m + 1>>] ELSE g[s]]
  <2>2. ASSUME NEW s \in SUBSET (1..(m + 1)), m + 1 \in s
        PROVE  /\ h[s] = F[<<g[s \ {m + 1}], m + 1>>] /\ h[s] \in B
               /\ s \ {m + 1} \in SUBSET (1..m) /\ Max(s) = m + 1
    <3>1. s \ {m + 1} \in SUBSET (1..m) /\ Max(s) = m + 1
      BY <2>2, MaxInterval
    <3>2. g[s \ {m + 1}] \in B /\ m + 1 \in 1..n
      BY <3>1
    <3>3. h[s] = F[<<g[s \ {m + 1}], m + 1>>]
      BY <2>2
    <3> HIDE DEF h
    <3> QED
      BY <3>1, <3>2, <3>3
  <2>3. ASSUME NEW s \in SUBSET (1..(m + 1)), m + 1 \notin s
        PROVE  s \in SUBSET (1..m) /\ h[s] = g[s] /\ h[s] \in B
    BY <2>3
  <2>4. h \in [SUBSET (1..(m + 1)) -> B]
    <3>1. \A s \in SUBSET (1..(m + 1)) : h[s] \in B
      BY <2>2, <2>3
    <3>2. h = [s \in SUBSET (1..(m + 1)) |-> h[s]]
      OBVIOUS
    <3> HIDE DEF h
    <3> QED
      BY <3>1, <3>2
  <2> HIDE DEF h
  <2>5. ASSUME NEW s \in SUBSET (1..(m + 1))
        PROVE  h[s] = IF s = {} THEN base ELSE F[<<h[s \ {Max(s)}], Max(s)>>]
    <3>1. CASE m + 1 \in s
      <4>1. m + 1 \notin s \ {m + 1} /\ s \ {m + 1} \in SUBSET (1..(m + 1))
        OBVIOUS
      <4>2. h[s \ {m + 1}] = g[s \ {m + 1}]
        BY <2>3, <4>1
      <4> QED
        BY <2>2, <3>1, <4>2
    <3>2. CASE m + 1 \notin s
      <4>1. s \in SUBSET (1..m) /\ h[s] = g[s]
        BY <2>3, <3>2
      <4>2. /\ s \ {Max(s)} \in SUBSET (1..m) /\ s \ {Max(s)} \in SUBSET (1..(m + 1))
            /\ m + 1 \notin s \ {Max(s)}
        BY <3>2, <4>1
      <4>3. h[s \ {Max(s)}] = g[s \ {Max(s)}]
        BY <2>3, <4>2
      <4> QED
        BY <2>1, <4>1, <4>3 DEF Folds
    <3> QED
      BY <3>1, <3>2
  <2> QED
    BY <2>4, <2>5 DEF Folds, Has
<1> HIDE DEF S, Has
<1>3. n \in S
  BY <1>1, <1>2, SetInduction
<1>4. Has(n)
  BY <1>3 DEF S
<1> QED
  BY <1>4 DEF Has

\* The values of an iteration on 1..0, 1..1, up to 1..n.
LEMMA PrefixIn ==
  ASSUME NEW n \in Nat, NEW B, NEW g, g[{}] \in B,
         \A k \in Nat : k < n /\ g[1..k] \in B => g[1..(k + 1)] \in B
  PROVE  g[1..n] \in B
<1> DEFINE S == {k \in Nat : k <= n => g[1..k] \in B}
<1>1. 0 \in S
  <2>1. 1..0 = {}
    OBVIOUS
  <2> QED
    BY <2>1
<1>2. \A k \in Nat : k \in S => k + 1 \in S
  OBVIOUS
<1> HIDE DEF S
<1>3. n \in S
  BY <1>1, <1>2, SetInduction
<1> QED
  BY <1>3 DEF S

-----------------------------------------------------------------------------
(* Totals.                                                                 *)

\* An iteration that sums up the numbers w.
Sums(c, n, w) ==
    /\ c[{}] = 0
    /\ \A k \in Nat : k < n => c[1..(k + 1)] = c[1..k] + w[k + 1]

LEMMA SumsAgree ==
  ASSUME NEW n \in Nat, NEW w, NEW v, NEW c, NEW d,
         \A i \in 1..n : w[i] = v[i], Sums(c, n, w), Sums(d, n, v)
  PROVE  c[1..n] = d[1..n]
<1> DEFINE S == {k \in Nat : k <= n => c[1..k] = d[1..k]}
<1>1. 0 \in S
  <2>1. 1..0 = {}
    OBVIOUS
  <2> QED
    BY <2>1 DEF Sums
<1>2. ASSUME NEW k \in Nat, k \in S PROVE k + 1 \in S
  <2> SUFFICES ASSUME k + 1 <= n PROVE c[1..(k + 1)] = d[1..(k + 1)]
    OBVIOUS
  <2>1. k < n /\ c[1..k] = d[1..k] /\ w[k + 1] = v[k + 1]
    BY <1>2
  <2> QED
    BY <2>1 DEF Sums
<1> HIDE DEF S
<1>3. n \in S
  BY <1>1, <1>2, SetInduction
<1> QED
  BY <1>3 DEF S

(* A sequence of numbers has a total, and its iteration sums them up.      *)
LEMMA TotalSums ==
  ASSUME NEW w \in Seq(Nat)
  PROVE  /\ Total(w) \in Nat
         /\ \E c : Sums(c, Len(w), w) /\ Total(w) = c[1..Len(w)]
<1> DEFINE n == Len(w)
           F == [p \in Nat \X (1..n) |-> p[1] + w[p[2]]]
           Rec(c) == [s \in SUBSET (1..n) |->
                         IF s = {} THEN 0 ELSE c[s \ {Max(s)}] + w[Max(s)]]
           it == CHOOSE c : c = Rec(c)
<1>0. n \in Nat /\ DOMAIN w = 1..n /\ \A i \in 1..n : w[i] \in Nat
  OBVIOUS
<1> HIDE DEF n
<1>1. F \in [Nat \X (1..n) -> Nat] /\ 0 \in Nat
  BY <1>0
<1>2. \A a \in Nat, i \in 1..n : F[<<a, i>>] = a + w[i]
  OBVIOUS
<1> HIDE DEF F
<1>3. PICK g \in [SUBSET (1..n) -> Nat] : Folds(g, n, 0, F)
  BY <1>0, <1>1, FoldExists
<1>4. g = Rec(g)
  <2>1. ASSUME NEW s \in SUBSET (1..n)
        PROVE  g[s] = IF s = {} THEN 0 ELSE g[s \ {Max(s)}] + w[Max(s)]
    <3>1. CASE s = {}
      BY <1>3, <3>1 DEF Folds
    <3>2. CASE s # {}
      <4>1. Max(s) \in 1..n
        BY <1>0, <3>2, MaxIn
      <4>2. g[s \ {Max(s)}] \in Nat
        BY <4>1
      <4>3. g[s] = F[<<g[s \ {Max(s)}], Max(s)>>]
        BY <1>3, <3>2 DEF Folds
      <4> QED
        BY <1>2, <3>2, <4>1, <4>2, <4>3
    <3> QED
      BY <3>1, <3>2
  <2> QED
    BY <2>1
<1>5. it = Rec(it)
  BY <1>4
<1>6. Total(w) = it[1..n]
  BY <1>0 DEF Total, FoldLeft, MapThenFoldSet
<1> HIDE DEF it
<1>7. Sums(it, n, w)
  <2>1. it[{}] = 0
    BY <1>5
  <2>2. ASSUME NEW k \in Nat, k < n PROVE it[1..(k + 1)] = it[1..k] + w[k + 1]
    <3>1. /\ 1..(k + 1) \in SUBSET (1..n) /\ 1..(k + 1) # {} /\ k + 1 \in 1..(k + 1)
          /\ (1..(k + 1)) \ {k + 1} = 1..k
      BY <1>0, <2>2, IntervalStep
    <3>2. Max(1..(k + 1)) = k + 1
      BY <3>1, MaxInterval
    <3> QED
      BY <1>5, <3>1, <3>2
  <2> QED
    BY <2>1, <2>2 DEF Sums
<1>8. it[1..n] \in Nat
  <2>1. it[{}] \in Nat
    BY <1>7 DEF Sums
  <2>2. \A k \in Nat : k < n /\ it[1..k] \in Nat => it[1..(k + 1)] \in Nat
    BY <1>0, <1>7 DEF Sums
  <2> QED
    BY <1>0, <2>1, <2>2, PrefixIn
<1> QED
  BY <1>6, <1>7, <1>8 DEF n

LEMMA TotalEmpty == Total(<<>>) = 0
<1>1. <<>> \in Seq(Nat) /\ Len(<<>>) = 0
  OBVIOUS
<1>2. PICK c : Sums(c, 0, <<>>) /\ Total(<<>>) = c[1..0]
  BY <1>1, TotalSums
<1>3. 1..0 = {}
  OBVIOUS
<1> QED
  BY <1>2, <1>3 DEF Sums

LEMMA TotalAppend ==
  ASSUME NEW w \in Seq(Nat), NEW v \in Seq(Nat), Len(v) = Len(w) + 1,
         \A i \in 1..Len(w) : v[i] = w[i]
  PROVE  Total(v) = Total(w) + v[Len(v)]
<1>1. PICK n \in Nat : n = Len(w)
  OBVIOUS
<1>2. Len(v) = n + 1 /\ \A i \in 1..n : w[i] = v[i]
  BY <1>1
<1>3. PICK c : Sums(c, n, w) /\ Total(w) = c[1..n]
  BY <1>1, TotalSums
<1>4. PICK d : Sums(d, n + 1, v) /\ Total(v) = d[1..(n + 1)]
  BY <1>2, TotalSums
<1>5. Sums(d, n, v) /\ d[1..(n + 1)] = d[1..n] + v[n + 1]
  <2>1. d[{}] = 0 /\ \A k \in Nat : k < n + 1 => d[1..(k + 1)] = d[1..k] + v[k + 1]
    BY <1>4 DEF Sums
  <2>2. \A k \in Nat : k < n => k < n + 1
    OBVIOUS
  <2>3. n < n + 1
    OBVIOUS
  <2> QED
    BY <2>1, <2>2, <2>3 DEF Sums
<1>6. c[1..n] = d[1..n]
  BY <1>2, <1>3, <1>5, SumsAgree
<1> QED
  BY <1>2, <1>3, <1>4, <1>5, <1>6

-----------------------------------------------------------------------------
(* The take-profit plan.                                                   *)

LEMMA MinPair ==
  ASSUME NEW a \in Int, NEW b \in Int
  PROVE  Min({a, b}) \in {a, b} /\ Min({a, b}) <= a /\ Min({a, b}) <= b
<1>1. \E x \in {a, b} : \A y \in {a, b} : x <= y
  OBVIOUS
<1> QED
  BY <1>1 DEF Min

LEMMA RatioEmpty == RatioOf(<<>>) = 0
<1>1. [i \in DOMAIN <<>> |-> <<>>[i].ratio] = <<>>
  OBVIOUS
<1> QED
  BY <1>1, TotalEmpty DEF RatioOf

LEMMA RatioTyped ==
  ASSUME NEW S, \A e \in S : e.ratio \in Nat, NEW o \in Seq(S)
  PROVE  /\ [i \in DOMAIN o |-> o[i].ratio] \in Seq(Nat)
         /\ Len([i \in DOMAIN o |-> o[i].ratio]) = Len(o)
         /\ RatioOf(o) \in Nat
<1>1. DOMAIN o = 1..Len(o) /\ Len(o) \in Nat /\ \A i \in 1..Len(o) : o[i].ratio \in Nat
  OBVIOUS
<1>2. [i \in DOMAIN o |-> o[i].ratio] \in [1..Len(o) -> Nat]
  BY <1>1
<1>3. /\ [i \in DOMAIN o |-> o[i].ratio] \in Seq(Nat)
      /\ Len([i \in DOMAIN o |-> o[i].ratio]) = Len(o)
  BY <1>1, <1>2
<1> QED
  BY <1>3, TotalSums DEF RatioOf

LEMMA RatioAppend ==
  ASSUME NEW S, \A e \in S : e.ratio \in Nat, NEW o \in Seq(S), NEW e \in S
  PROVE  RatioOf(Append(o, e)) = RatioOf(o) + e.ratio
<1> DEFINE w == [i \in DOMAIN o |-> o[i].ratio]
           u == Append(o, e)
           v == [i \in DOMAIN u |-> u[i].ratio]
<1>1. /\ u \in Seq(S) /\ Len(u) = Len(o) + 1 /\ u[Len(u)] = e
      /\ \A i \in 1..Len(o) : u[i] = o[i]
  OBVIOUS
<1>2. /\ w \in Seq(Nat) /\ Len(w) = Len(o) /\ v \in Seq(Nat) /\ Len(v) = Len(u)
  BY <1>1, RatioTyped
<1>3. DOMAIN o = 1..Len(o) /\ DOMAIN u = 1..Len(u) /\ Len(u) \in 1..Len(u)
  BY <1>1
<1> HIDE DEF u
<1>4. \A i \in 1..Len(w) : v[i] = w[i]
  BY <1>1, <1>2, <1>3
<1>5. v[Len(v)] = e.ratio
  BY <1>1, <1>2, <1>3
<1>6. RatioOf(u) = Total(v) /\ RatioOf(o) = Total(w)
  BY DEF RatioOf
<1> HIDE DEF v, w
<1>7. Total(v) = Total(w) + v[Len(v)]
  BY <1>1, <1>2, <1>4, TotalAppend
<1> QED
  BY <1>5, <1>6, <1>7 DEF u

Entries == [r: Int, ratio: Int]
UsedEntries == [r: Nat \ {0}, ratio: Nat \ {0}]

LEMMA EntryRatios ==
  ASSUME NEW o \in Seq(UsedEntries)
  PROVE  RatioOf(o) \in Nat /\ Lots \in Int
<1>1. \A e \in UsedEntries : e.ratio \in Nat
  BY DEF UsedEntries
<1>2. RatioOf(o) \in Nat
  BY <1>1, RatioTyped
<1> QED
  BY <1>2, PlanAssumption

(* What normTpl makes of a template sells something at every entry.        *)
LEMMA NormTplTyped ==
  ASSUME NEW template \in Seq(Entries)
  PROVE  NormTpl(template) \in Seq(UsedEntries)
<1> DEFINE n == Len(template)
           B == Seq(UsedEntries)
           Step(o, e) ==
               LET rem == Lots - RatioOf(o) IN
               IF e.ratio <= 0 \/ e.r <= 0 \/ rem <= 0 THEN o
               ELSE Append(o, [r |-> e.r, ratio |-> Min({e.ratio, rem})])
           F == [p \in B \X (1..n) |-> Step(p[1], template[p[2]])]
           Rec(c) == [s \in SUBSET (1..n) |->
                         IF s = {} THEN <<>> ELSE Step(c[s \ {Max(s)}], template[Max(s)])]
           it == CHOOSE c : c = Rec(c)
<1>0. n \in Nat /\ DOMAIN template = 1..n /\ \A i \in 1..n : template[i] \in Entries
  OBVIOUS
<1>1. NormTpl(template) = it[1..n]
  BY <1>0 DEF NormTpl, FoldLeft, MapThenFoldSet
<1>2. ASSUME NEW o \in B, NEW e \in Entries PROVE Step(o, e) \in B
  <2> DEFINE rem == Lots - RatioOf(o)
             m == Min({e.ratio, rem})
  <2>1. RatioOf(o) \in Nat /\ Lots \in Int
    BY EntryRatios
  <2>2. e.r \in Int /\ e.ratio \in Int /\ rem \in Int
    BY <2>1 DEF Entries
  <2>3. m \in {e.ratio, rem}
    BY <2>2, MinPair
  <2> HIDE DEF m
  <2>4. CASE e.ratio <= 0 \/ e.r <= 0 \/ rem <= 0
    BY <2>4
  <2>5. CASE ~ (e.ratio <= 0 \/ e.r <= 0 \/ rem <= 0)
    <3>1. [r |-> e.r, ratio |-> m] \in UsedEntries
      BY <2>2, <2>3, <2>5 DEF UsedEntries
    <3>2. Step(o, e) = Append(o, [r |-> e.r, ratio |-> m])
      BY <2>5 DEF m
    <3> HIDE DEF Step
    <3> QED
      BY <3>1, <3>2
  <2> QED
    BY <2>4, <2>5
<1> HIDE DEF n, Step
<1>3. \A o \in B, i \in 1..n : Step(o, template[i]) \in B
  BY <1>0, <1>2
<1>4. F \in [B \X (1..n) -> B] /\ \A o \in B, i \in 1..n : F[<<o, i>>] = Step(o, template[i])
  BY <1>3
<1>5. <<>> \in B
  OBVIOUS
<1> HIDE DEF F, B
<1>6. PICK g \in [SUBSET (1..n) -> B] : Folds(g, n, <<>>, F)
  BY <1>0, <1>4, <1>5, FoldExists
<1>7. g = Rec(g)
  <2>1. ASSUME NEW s \in SUBSET (1..n)
        PROVE  g[s] = IF s = {} THEN <<>> ELSE Step(g[s \ {Max(s)}], template[Max(s)])
    <3>1. CASE s = {}
      BY <1>6, <3>1 DEF Folds
    <3>2. CASE s # {}
      <4>1. Max(s) \in 1..n /\ s \ {Max(s)} \in SUBSET (1..n)
        BY <1>0, <3>2, MaxIn
      <4>2. g[s \ {Max(s)}] \in B
        BY <4>1
      <4>3. g[s] = F[<<g[s \ {Max(s)}], Max(s)>>]
        BY <1>6, <3>2 DEF Folds
      <4> QED
        BY <1>4, <3>2, <4>1, <4>2, <4>3
    <3> QED
      BY <3>1, <3>2
  <2> QED
    BY <2>1
<1>8. it = Rec(it)
  BY <1>7
<1> HIDE DEF it
<1>9. it[{}] \in B
  BY <1>5, <1>8
<1>10. ASSUME NEW k \in Nat, k < n, it[1..k] \in B PROVE it[1..(k + 1)] \in B
  <2>1. /\ 1..(k + 1) \in SUBSET (1..n) /\ 1..(k + 1) # {} /\ k + 1 \in 1..(k + 1)
        /\ (1..(k + 1)) \ {k + 1} = 1..k
    BY <1>0, <1>10, IntervalStep
  <2>2. Max(1..(k + 1)) = k + 1
    BY <2>1, MaxInterval
  <2>3. it[1..(k + 1)] = Step(it[1..k], template[k + 1])
    BY <1>8, <2>1, <2>2
  <2> QED
    BY <1>3, <1>10, <2>1, <2>3
<1>11. it[1..n] \in B
  BY <1>0, <1>9, <1>10, PrefixIn
<1> QED
  BY <1>1, <1>11 DEF B

\* Where a target may be: beyond the entry, or where one of the strategy's columns
\* puts it that is not positive.
ColumnValues == [ratio: Int, r1: Int, r2: Int]
Placed(d, c, price) ==
    \/ d * price > d * Entry
    \/ \E r \in {c.r1, c.r2} : r <= 0 /\ price = PriceAt(d, r)

(* The targets of a side: they have a price and sell something.            *)
Targets(d, c) == {t \in [price: Nat \ {0}, ratio: Nat \ {0}] : Placed(d, c, t.price)}

LEMMA TargetTyped ==
  ASSUME NEW d \in {1, -1}, NEW c, NEW r \in Nat \ {0}, NEW q \in Nat \ {0}
  PROVE  /\ PriceAt(d, r) \in Int
         /\ PriceAt(d, r) > 0 => Target(PriceAt(d, r), q) \in Targets(d, c)
<1>1. r * StopDist \in Nat \ {0} /\ Entry \in Nat
  BY PlanAssumption
<1>2. CASE d = 1
  <2>1. PriceAt(d, r) = Entry + r * StopDist
    BY <1>1, <1>2, PlanAssumption DEF PriceAt
  <2> HIDE DEF PriceAt
  <2> QED
    BY <1>1, <1>2, <2>1 DEF Target, Targets, Placed
<1>3. CASE d = -1
  <2>1. PriceAt(d, r) = Entry - r * StopDist
    BY <1>1, <1>3, PlanAssumption DEF PriceAt
  <2> HIDE DEF PriceAt
  <2> QED
    BY <1>1, <1>3, <2>1 DEF Target, Targets, Placed
<1> QED
  BY <1>2, <1>3

LEMMA ColumnTargetTyped ==
  ASSUME NEW d \in {1, -1}, NEW c \in ColumnValues, NEW r \in {c.r1, c.r2},
         NEW q \in Nat \ {0}
  PROVE  /\ PriceAt(d, r) \in Int
         /\ PriceAt(d, r) > 0 => Target(PriceAt(d, r), q) \in Targets(d, c)
<1>1. r \in Int /\ r * StopDist \in Int /\ d * r * StopDist \in Int
  BY PlanAssumption DEF ColumnValues
<1>2. PriceAt(d, r) \in Int
  BY <1>1, PlanAssumption DEF PriceAt
<1>3. CASE r > 0
  BY <1>1, <1>3, TargetTyped
<1>4. CASE r <= 0
  <2> HIDE DEF PriceAt
  <2> QED
    BY <1>2, <1>4 DEF Target, Targets, Placed
<1> QED
  BY <1>1, <1>3, <1>4

LEMMA TargetRatios ==
  ASSUME NEW d, NEW c, NEW o \in Seq(Targets(d, c))
  PROVE  RatioOf(o) \in Nat /\ Lots \in Int
<1>1. \A t \in Targets(d, c) : t.ratio \in Nat
  BY DEF Targets
<1>2. RatioOf(o) \in Nat
  BY <1>1, RatioTyped
<1> QED
  BY <1>2, PlanAssumption

LEMMA TargetRatioAppend ==
  ASSUME NEW d, NEW c, NEW o \in Seq(Targets(d, c)), NEW t \in Targets(d, c)
  PROVE  RatioOf(Append(o, t)) = RatioOf(o) + t.ratio
<1>1. \A u \in Targets(d, c) : u.ratio \in Nat
  BY DEF Targets
<1> QED
  BY <1>1, RatioAppend

(* The targets made of a template, before the rest.                        *)
LEMMA FromTplTyped ==
  ASSUME NEW t \in Seq(UsedEntries), t # <<>>, NEW dir0 \in {1, -1}, NEW c
  PROVE  FromTpl(t, dir0) \in Seq(Targets(dir0, c))
<1> DEFINE n == Len(t)
           B == Seq(Targets(dir0, c))
           Step(o, e) == IF PriceAt(dir0, e.r) <= 0 THEN o
                         ELSE Append(o, Target(PriceAt(dir0, e.r), e.ratio))
           F == [p \in B \X (1..n) |-> Step(p[1], t[p[2]])]
           Rec(w) == [s \in SUBSET (1..n) |->
                         IF s = {} THEN <<>> ELSE Step(w[s \ {Max(s)}], t[Max(s)])]
           it == CHOOSE w : w = Rec(w)
           out == it[1..n]
           rest == Lots - RatioOf(out)
           p0 == PriceAt(dir0, Last(t).r)
<1>0. n \in Nat /\ DOMAIN t = 1..n /\ \A i \in 1..n : t[i] \in UsedEntries
  OBVIOUS
<1>1. FromTpl(t, dir0) = IF rest > 0 /\ p0 > 0 THEN Append(out, Target(p0, rest)) ELSE out
  BY <1>0 DEF FromTpl, FoldLeft, MapThenFoldSet
<1>l. Last(t) \in UsedEntries
  BY DEF Last
<1>2. ASSUME NEW o \in B, NEW e \in UsedEntries PROVE Step(o, e) \in B
  <2>1. e.r \in Nat \ {0} /\ e.ratio \in Nat \ {0}
    BY DEF UsedEntries
  <2>2. /\ PriceAt(dir0, e.r) \in Int
        /\ PriceAt(dir0, e.r) > 0 => Target(PriceAt(dir0, e.r), e.ratio) \in Targets(dir0, c)
    BY <2>1, TargetTyped
  <2> QED
    BY <2>2
<1>5. <<>> \in B
  OBVIOUS
<1> HIDE DEF n, Step
<1>3. \A o \in B, i \in 1..n : Step(o, t[i]) \in B
  BY <1>0, <1>2
<1>4. F \in [B \X (1..n) -> B] /\ \A o \in B, i \in 1..n : F[<<o, i>>] = Step(o, t[i])
  BY <1>3
<1> HIDE DEF F, B
<1>6. PICK g \in [SUBSET (1..n) -> B] : Folds(g, n, <<>>, F)
  BY <1>0, <1>4, <1>5, FoldExists
<1>7. g = Rec(g)
  <2>1. ASSUME NEW s \in SUBSET (1..n)
        PROVE  g[s] = IF s = {} THEN <<>> ELSE Step(g[s \ {Max(s)}], t[Max(s)])
    <3>1. CASE s = {}
      BY <1>6, <3>1 DEF Folds
    <3>2. CASE s # {}
      <4>1. Max(s) \in 1..n /\ s \ {Max(s)} \in SUBSET (1..n)
        BY <1>0, <3>2, MaxIn
      <4>2. g[s \ {Max(s)}] \in B
        BY <4>1
      <4>3. g[s] = F[<<g[s \ {Max(s)}], Max(s)>>]
        BY <1>6, <3>2 DEF Folds
      <4> QED
        BY <1>4, <3>2, <4>1, <4>2, <4>3
    <3> QED
      BY <3>1, <3>2
  <2> QED
    BY <2>1
<1>8. it = Rec(it)
  BY <1>7
<1> HIDE DEF it
<1>9. it[{}] \in B
  BY <1>5, <1>8
<1>10. ASSUME NEW k \in Nat, k < n, it[1..k] \in B PROVE it[1..(k + 1)] \in B
  <2>1. /\ 1..(k + 1) \in SUBSET (1..n) /\ 1..(k + 1) # {} /\ k + 1 \in 1..(k + 1)
        /\ (1..(k + 1)) \ {k + 1} = 1..k
    BY <1>0, <1>10, IntervalStep
  <2>2. Max(1..(k + 1)) = k + 1
    BY <2>1, MaxInterval
  <2>3. it[1..(k + 1)] = Step(it[1..k], t[k + 1])
    BY <1>8, <2>1, <2>2
  <2> QED
    BY <1>3, <1>10, <2>1, <2>3
<1>11. it[1..n] \in B
  BY <1>0, <1>9, <1>10, PrefixIn
<1>12. out \in Seq(Targets(dir0, c))
  BY <1>11 DEF B
<1> HIDE DEF out
<1>13. rest \in Int
  BY <1>12, TargetRatios
<1>14. Last(t).r \in Nat \ {0}
  BY <1>l DEF UsedEntries
<1>15. rest > 0 /\ p0 > 0 => Target(p0, rest) \in Targets(dir0, c)
  <2> SUFFICES ASSUME rest > 0, p0 > 0 PROVE Target(p0, rest) \in Targets(dir0, c)
    OBVIOUS
  <2>1. rest \in Nat \ {0}
    BY <1>13
  <2> HIDE DEF rest
  <2> QED
    BY <1>14, <2>1, TargetTyped
<1> QED
  BY <1>1, <1>12, <1>15

(* Without a template.                                                     *)
LEMMA TwoTargetsTyped ==
  ASSUME NEW c \in ColumnValues, NEW d \in {1, -1}
  PROVE  TwoTargets(c, d) \in Seq(Targets(d, c))
<1> DEFINE ratio == c.ratio
           p1 == PriceAt(d, c.r1)
           pf == PriceAt(d, c.r2)
           first == IF ratio > 0 /\ p1 > 0 THEN <<Target(p1, ratio)>> ELSE <<>>
           last == IF first # <<>> THEN Lots - ratio ELSE Lots
<1>1. ratio \in Int /\ Lots \in Nat \ {0}
  BY PlanAssumption DEF ColumnValues
<1>2. /\ p1 \in Int /\ pf \in Int
      /\ ratio > 0 /\ p1 > 0 => Target(p1, ratio) \in Targets(d, c)
      /\ \A q \in Nat \ {0} : pf > 0 => Target(pf, q) \in Targets(d, c)
  BY <1>1, ColumnTargetTyped
<1>3. first \in Seq(Targets(d, c)) /\ (first # <<>> => ratio > 0)
  BY <1>2
<1>4. TwoTargets(c, d) = CASE pf <= 0 -> <<>>
                           [] pf > 0 /\ ratio >= Lots -> <<Target(pf, Lots)>>
                           [] pf > 0 /\ ratio < Lots -> Append(first, Target(pf, last))
  BY DEF TwoTargets
<1>5. ratio < Lots => last \in Nat \ {0}
  BY <1>1, <1>3
<1> HIDE DEF ratio, p1, pf, first, last
<1>6. CASE pf <= 0
  BY <1>2, <1>4, <1>6
<1>7. CASE pf > 0 /\ ratio >= Lots
  BY <1>1, <1>2, <1>4, <1>7
<1>8. CASE pf > 0 /\ ratio < Lots
  BY <1>1, <1>2, <1>3, <1>4, <1>5, <1>8
<1> QED
  BY <1>1, <1>2, <1>6, <1>7, <1>8

LEMMA BuildTpsTyped ==
  ASSUME NEW template \in Seq(Entries), NEW c \in ColumnValues, NEW d \in {1, -1}
  PROVE  BuildTps(template, c, d) \in Seq(Targets(d, c))
<1> DEFINE t == NormTpl(template)
           planned == IF t = <<>> THEN <<>> ELSE FromTpl(t, d)
<1>1. t \in Seq(UsedEntries)
  BY NormTplTyped
<1> HIDE DEF t
<1>2. planned \in Seq(Targets(d, c))
  BY <1>1, FromTplTyped
<1>3. BuildTps(template, c, d) = IF planned # <<>> THEN planned ELSE TwoTargets(c, d)
  BY DEF BuildTps, t
<1> HIDE DEF planned
<1> QED
  BY <1>2, <1>3, TwoTargetsTyped

\* The targets of the simulator's position, nothing of them sold yet.
SimTargets(d, c) ==
    {s \in [price: Nat \ {0}, qty: Nat \ {0}, filledQty: {0}, hit: {FALSE}] :
        Placed(d, c, s.price)}

(* Whatever it is given, normalizeTargets sells exactly what was bought.   *)
LEMMA NormalizeTargetsTyped ==
  ASSUME NEW d \in {1, -1}, NEW c, NEW tps \in Seq(Targets(d, c)), tps # <<>>
  PROVE  /\ NormalizeTargets(tps) \in Seq(SimTargets(d, c))
         /\ NormalizeTargets(tps) # <<>>
         /\ Total([i \in DOMAIN NormalizeTargets(tps) |-> NormalizeTargets(tps)[i].qty]) = Lots
<1> DEFINE n == Len(tps)
           B == {o \in Seq(Targets(d, c)) : RatioOf(o) <= Lots}
           Step(o, x) ==
               LET rem == Lots - RatioOf(o) IN
               IF x.price <= 0 \/ x.ratio <= 0 \/ rem <= 0 THEN o
               ELSE Append(o, Target(x.price, Min({x.ratio, rem})))
           F == [p \in B \X (1..n) |-> Step(p[1], tps[p[2]])]
           Rec(w) == [s \in SUBSET (1..n) |->
                         IF s = {} THEN <<>> ELSE Step(w[s \ {Max(s)}], tps[Max(s)])]
           it == CHOOSE w : w = Rec(w)
           cut == it[1..n]
           rest == Lots - RatioOf(cut)
           all == IF rest > 0 THEN Append(cut, Target(Last(tps).price, rest)) ELSE cut
<1>0. n \in Nat /\ DOMAIN tps = 1..n /\ \A i \in 1..n : tps[i] \in Targets(d, c)
  OBVIOUS
<1>1. NormalizeTargets(tps) = [i \in DOMAIN all |-> SimTarget(all[i].price, all[i].ratio)]
  BY <1>0 DEF NormalizeTargets, FoldLeft, MapThenFoldSet
<1>l. Last(tps) \in Targets(d, c)
  BY DEF Last
<1>2. ASSUME NEW o \in B, NEW x \in Targets(d, c) PROVE Step(o, x) \in B
  <2> DEFINE rem == Lots - RatioOf(o)
             m == Min({x.ratio, rem})
  <2>1. o \in Seq(Targets(d, c)) /\ RatioOf(o) <= Lots
    OBVIOUS
  <2>r. RatioOf(o) \in Nat /\ Lots \in Int
    BY <2>1, TargetRatios
  <2>2. x.ratio \in Nat \ {0} /\ x.price \in Nat \ {0} /\ Placed(d, c, x.price)
    BY DEF Targets
  <2>s. x.ratio \in Int /\ rem \in Int
    BY <2>r, <2>2
  <2>3. m \in {x.ratio, rem} /\ m <= rem
    BY <2>s, MinPair
  <2> HIDE DEF m
  <2>4. CASE x.price <= 0 \/ x.ratio <= 0 \/ rem <= 0
    BY <2>4
  <2>5. CASE ~ (x.price <= 0 \/ x.ratio <= 0 \/ rem <= 0)
    <3>1. Target(x.price, m) \in Targets(d, c) /\ Target(x.price, m).ratio = m
      BY <2>2, <2>s, <2>3, <2>5 DEF Target, Targets
    <3>2. Step(o, x) = Append(o, Target(x.price, m))
      BY <2>5 DEF m
    <3>3. RatioOf(Append(o, Target(x.price, m))) = RatioOf(o) + m
      BY <2>1, <3>1, TargetRatioAppend
    <3>4. RatioOf(o) + m <= Lots
      BY <2>r, <2>2, <2>s, <2>3, <2>5
    <3>5. Append(o, Target(x.price, m)) \in Seq(Targets(d, c))
      BY <2>1, <3>1
    <3> HIDE DEF Step
    <3> QED
      BY <3>2, <3>3, <3>4, <3>5
  <2> QED
    BY <2>4, <2>5
<1>5. <<>> \in B
  BY RatioEmpty, PlanAssumption
<1> HIDE DEF n, Step
<1>3. \A o \in B, i \in 1..n : Step(o, tps[i]) \in B
  BY <1>0, <1>2
<1>4. F \in [B \X (1..n) -> B] /\ \A o \in B, i \in 1..n : F[<<o, i>>] = Step(o, tps[i])
  BY <1>3
<1> HIDE DEF F, B
<1>6. PICK g \in [SUBSET (1..n) -> B] : Folds(g, n, <<>>, F)
  BY <1>0, <1>4, <1>5, FoldExists
<1>7. g = Rec(g)
  <2>1. ASSUME NEW s \in SUBSET (1..n)
        PROVE  g[s] = IF s = {} THEN <<>> ELSE Step(g[s \ {Max(s)}], tps[Max(s)])
    <3>1. CASE s = {}
      BY <1>6, <3>1 DEF Folds
    <3>2. CASE s # {}
      <4>1. Max(s) \in 1..n /\ s \ {Max(s)} \in SUBSET (1..n)
        BY <1>0, <3>2, MaxIn
      <4>2. g[s \ {Max(s)}] \in B
        BY <4>1
      <4>3. g[s] = F[<<g[s \ {Max(s)}], Max(s)>>]
        BY <1>6, <3>2 DEF Folds
      <4> QED
        BY <1>4, <3>2, <4>1, <4>2, <4>3
    <3> QED
      BY <3>1, <3>2
  <2> QED
    BY <2>1
<1>8. it = Rec(it)
  BY <1>7
<1> HIDE DEF it
<1>9. it[{}] \in B
  BY <1>5, <1>8
<1>10. ASSUME NEW k \in Nat, k < n, it[1..k] \in B PROVE it[1..(k + 1)] \in B
  <2>1. /\ 1..(k + 1) \in SUBSET (1..n) /\ 1..(k + 1) # {} /\ k + 1 \in 1..(k + 1)
        /\ (1..(k + 1)) \ {k + 1} = 1..k
    BY <1>0, <1>10, IntervalStep
  <2>2. Max(1..(k + 1)) = k + 1
    BY <2>1, MaxInterval
  <2>3. it[1..(k + 1)] = Step(it[1..k], tps[k + 1])
    BY <1>8, <2>1, <2>2
  <2> QED
    BY <1>3, <1>10, <2>1, <2>3
<1>11. it[1..n] \in B
  BY <1>0, <1>9, <1>10, PrefixIn
<1>12. cut \in Seq(Targets(d, c)) /\ RatioOf(cut) <= Lots
  BY <1>11 DEF B
<1> HIDE DEF cut
<1>13. RatioOf(cut) \in Nat /\ Lots \in Nat \ {0}
  BY <1>12, TargetRatios, PlanAssumption
<1>14. all \in Seq(Targets(d, c)) /\ RatioOf(all) = Lots
  <2>1. CASE rest > 0
    <3>1. /\ Target(Last(tps).price, rest) \in Targets(d, c)
          /\ Target(Last(tps).price, rest).ratio = rest
      BY <1>l, <1>13, <2>1 DEF Targets, Target
    <3> HIDE DEF rest
    <3>2. all = Append(cut, Target(Last(tps).price, rest))
      BY <2>1
    <3>3. RatioOf(all) = RatioOf(cut) + rest
      BY <1>12, <3>1, <3>2, TargetRatioAppend
    <3>4. all \in Seq(Targets(d, c))
      BY <1>12, <3>1, <3>2
    <3> QED
      BY <1>13, <3>3, <3>4 DEF rest
  <2>2. CASE ~ (rest > 0)
    BY <1>12, <1>13, <2>2
  <2> QED
    BY <2>1, <2>2
<1> HIDE DEF all
<1> DEFINE sim == [i \in DOMAIN all |-> SimTarget(all[i].price, all[i].ratio)]
<1>15. DOMAIN all = 1..Len(all) /\ Len(all) \in Nat /\ \A i \in 1..Len(all) : all[i] \in Targets(d, c)
  BY <1>14
<1>16. ASSUME NEW i \in 1..Len(all)
       PROVE  sim[i] \in SimTargets(d, c) /\ sim[i].qty = all[i].ratio
  BY <1>15 DEF Targets, SimTargets, SimTarget
<1>17. sim \in Seq(SimTargets(d, c)) /\ Len(sim) = Len(all) /\ DOMAIN sim = DOMAIN all
  <2>1. sim \in [1..Len(all) -> SimTargets(d, c)]
    BY <1>15, <1>16
  <2> HIDE DEF sim
  <2> QED
    BY <1>15, <2>1
<1>18. [i \in DOMAIN sim |-> sim[i].qty] = [i \in DOMAIN all |-> all[i].ratio]
  <2> HIDE DEF sim
  <2> QED
    BY <1>15, <1>16, <1>17
<1>19. all # <<>>
  BY <1>13, <1>14, RatioEmpty
<1>20. sim # <<>>
  <2> HIDE DEF sim
  <2> QED
    BY <1>15, <1>17, <1>19
<1> QED
  BY <1>1, <1>14, <1>17, <1>18, <1>20 DEF RatioOf

-----------------------------------------------------------------------------
(* What a candle reads.                                                    *)

TemplateRows == [by: Nat, sort: Nat, entry: Entries]
Stmts == [op: {"insert"}, table: Tables, sort: Nat, entry: Entries]
            \cup [op: {"delete"}, table: Tables] \cup [op: {"fields"}, columns: Columns]

\* The rows of a table are finitely many, and what is still to be run are statements.
ConfigTyped ==
    /\ templates \in [Tables -> SUBSET TemplateRows]
    /\ \A t \in Tables : IsFiniteSet(templates[t])
    /\ tp \in Columns /\ faults \in Nat /\ edits \in Nat
    /\ todo \in [Edits -> Seq(Stmts)]

(* A template is read as a sequence of entries, whatever rows are there.   *)
LEMMA ResolvedTyped ==
  ASSUME ConfigTyped, NEW template \in Resolved
  PROVE  template \in Seq(Entries)
<1>1. PICK t \in Tables : Resolved = InOrder(templates[t])
  BY DEF Resolved, Tables
<1> DEFINE rows == templates[t]
<1>2. rows \in SUBSET TemplateRows /\ IsFiniteSet(rows)
  BY DEF ConfigTyped
<1>3. PICK s \in SetToSeqs(rows) : template = [i \in DOMAIN s |-> s[i].entry]
  BY <1>1 DEF InOrder
<1> HIDE DEF rows
<1>4. PICK n \in Nat : n = Cardinality(rows)
  BY <1>2, FS_CardinalityType
<1>5. s \in [1..n -> rows]
  BY <1>3, <1>4 DEF SetToSeqs
<1>6. \A i \in 1..n : s[i].entry \in Entries
  BY <1>2, <1>5 DEF TemplateRows
<1>7. template \in [1..n -> Entries]
  BY <1>3, <1>5, <1>6
<1> QED
  BY <1>7

LEMMA RowsOfTyped ==
  ASSUME NEW list \in Lists, NEW n \in 0..Len(list)
  PROVE  RowsOf(0, list, n) \in SUBSET TemplateRows /\ IsFiniteSet(RowsOf(0, list, n))
<1> DEFINE R == RowsOf(0, list, n)
           f == [i \in 1..n |-> [by |-> 0, sort |-> i, entry |-> list[i]]]
<1>1. list \in Seq(Entries) /\ n \in Nat
  BY ConfigAssumption DEF Entries
<1>2. \A i \in 1..n : list[i] \in Entries
  BY <1>1
<1>3. R \in SUBSET TemplateRows
  BY <1>2 DEF RowsOf, TemplateRows
<1>4. f \in Surjection(1..n, R)
  BY DEF RowsOf, Surjection
<1>5. IsFiniteSet(1..n)
  BY <1>1, FS_Interval
<1> HIDE DEF R, f
<1>6. IsFiniteSet(R)
  BY <1>4, <1>5, FS_Surjection
<1> QED
  BY <1>3, <1>6 DEF R

LEMMA ConfigInit == InitConfig => ConfigTyped
<1> SUFFICES ASSUME InitConfig PROVE ConfigTyped
  OBVIOUS
<1>0. PICK list \in Lists, over \in Lists : \E n \in 0..Len(list), m \in 0..Len(over) :
         templates = [t \in Tables |-> IF t = "base" THEN RowsOf(0, list, n)
                                       ELSE RowsOf(0, over, m)]
  BY DEF InitConfig
<1>1. PICK n \in 0..Len(list), m \in 0..Len(over) :
         templates = [t \in Tables |-> IF t = "base" THEN RowsOf(0, list, n)
                                       ELSE RowsOf(0, over, m)]
  BY <1>0
<1>2. /\ RowsOf(0, list, n) \in SUBSET TemplateRows /\ IsFiniteSet(RowsOf(0, list, n))
      /\ RowsOf(0, over, m) \in SUBSET TemplateRows /\ IsFiniteSet(RowsOf(0, over, m))
  BY RowsOfTyped
<1>3. /\ templates \in [Tables -> SUBSET TemplateRows]
      /\ \A t \in Tables : IsFiniteSet(templates[t])
  BY <1>1, <1>2
<1>4. tp \in Columns /\ faults \in Nat /\ edits = 0 /\ todo = [k \in Edits |-> <<>>]
  BY ConfigAssumption DEF InitConfig
<1> QED
  BY <1>3, <1>4 DEF ConfigTyped

(* An update consists of statements.                                       *)
LEMMA StatementsTyped ==
  ASSUME NEW ts \in SUBSET Tables, NEW given \in [ts -> Lists], NEW columns \in Columns
  PROVE  <<Fields(columns)>> \o Statements(given) \in Seq(Stmts)
<1> DEFINE Replace(t) == IF t \notin DOMAIN given THEN <<>>
                         ELSE <<Delete(t)>> \o [i \in DOMAIN given[t] |-> Insert(t, given[t], i)]
<1>1. ASSUME NEW t \in Tables PROVE Replace(t) \in Seq(Stmts)
  <2>1. CASE t \notin DOMAIN given
    BY <2>1
  <2>2. CASE t \in DOMAIN given
    <3>1. given[t] \in Seq(Entries)
      BY <2>2, ConfigAssumption DEF Entries
    <3>2. /\ DOMAIN given[t] = 1..Len(given[t]) /\ Len(given[t]) \in Nat
          /\ \A i \in 1..Len(given[t]) : given[t][i] \in Entries
      BY <3>1
    <3>3. \A i \in 1..Len(given[t]) : Insert(t, given[t], i) \in Stmts
      BY <3>2 DEF Insert, Stmts
    <3>4. [i \in DOMAIN given[t] |-> Insert(t, given[t], i)] \in Seq(Stmts)
      BY <3>2, <3>3
    <3>5. <<Delete(t)>> \in Seq(Stmts)
      BY DEF Delete, Stmts
    <3> QED
      BY <2>2, <3>4, <3>5
  <2> QED
    BY <2>1, <2>2
<1>2. Statements(given) = Replace("base") \o Replace("override")
  BY DEF Statements
<1>3. <<Fields(columns)>> \in Seq(Stmts)
  BY DEF Fields, Stmts
<1> HIDE DEF Replace
<1>4. Replace("base") \in Seq(Stmts) /\ Replace("override") \in Seq(Stmts)
  BY <1>1 DEF Tables
<1> QED
  BY <1>2, <1>3, <1>4

LEMMA ConfigStep ==
  ASSUME ConfigTyped, ConfigNext
  PROVE  ConfigTyped'
<1> USE DEF ConfigTyped
<1>1. ASSUME NEW ts \in SUBSET Tables, NEW given \in [ts -> Lists], NEW columns \in Columns,
             Update(given, columns)
      PROVE  ConfigTyped'
  <2>1. <<Fields(columns)>> \o Statements(given) \in Seq(Stmts)
    BY StatementsTyped
  <2> DEFINE all == <<Fields(columns)>> \o Statements(given)
  <2>2. /\ todo' = [todo EXCEPT ![edits + 1] = all]
        /\ edits' = edits + 1 /\ UNCHANGED <<templates, tp, faults>>
    BY <1>1 DEF Update
  <2> HIDE DEF all
  <2>3. todo' \in [Edits -> Seq(Stmts)]
    BY <2>1, <2>2 DEF all
  <2>4. edits' \in Nat
    BY <2>2
  <2>5. \A t \in Tables : IsFiniteSet(templates'[t])
    BY <2>2
  <2> QED
    BY <2>2, <2>3, <2>4, <2>5
<1>2. ASSUME NEW n \in Edits, Execute(n) PROVE ConfigTyped'
  <2> DEFINE s == Head(todo[n])
  <2>1. todo[n] \in Seq(Stmts) /\ todo[n] # <<>>
    BY <1>2 DEF Execute
  <2>2. s \in Stmts /\ Tail(todo[n]) \in Seq(Stmts)
    BY <2>1
  <2>3. todo' \in [Edits -> Seq(Stmts)] /\ UNCHANGED <<edits, faults>>
    BY <1>2, <2>2 DEF Execute
  <2>4. /\ s.op = "insert" => /\ s.table \in Tables
                               /\ [by |-> n, sort |-> s.sort, entry |-> s.entry] \in TemplateRows
        /\ s.op = "delete" => s.table \in Tables
        /\ s.op = "fields" => s.columns \in Columns
    BY <2>2 DEF Stmts, TemplateRows, Edits
  <2>5. tp' \in Columns
    BY <1>2, <2>4 DEF Execute
  <2>6. CASE s.op = "insert"
    <3> DEFINE new == [by |-> n, sort |-> s.sort, entry |-> s.entry]
    <3>1. templates' = [templates EXCEPT ![s.table] = @ \cup {new}]
      BY <1>2, <2>6 DEF Execute
    <3> HIDE DEF new
    <3>2. IsFiniteSet(templates[s.table] \cup {new})
      BY <2>4, <2>6, FS_AddElement
    <3> QED
      BY <2>3, <2>4, <2>5, <2>6, <3>1, <3>2 DEF new
  <2>7. CASE s.op = "delete"
    <3>1. templates' = [templates EXCEPT ![s.table] = {}]
      BY <1>2, <2>7 DEF Execute
    <3> QED
      BY <2>3, <2>4, <2>5, <2>7, <3>1, FS_EmptySet
  <2>8. CASE s.op \notin {"insert", "delete"}
    <3>1. templates' = templates
      BY <1>2, <2>8 DEF Execute
    <3> QED
      BY <2>3, <2>5, <3>1
  <2> QED
    BY <2>6, <2>7, <2>8
<1>3. ASSUME NEW n \in Edits, Reject(n) PROVE ConfigTyped'
  BY <1>3 DEF Reject, Fault
<1> QED
  BY <1>1, <1>2, <1>3 DEF ConfigNext

-----------------------------------------------------------------------------
(* The entry.                                                              *)

Nothing == [size |-> 0, sl |-> 0, tp |-> 0]
NoRow == [n |-> 0, sl |-> 0, tp |-> 0]

\* The plan of an entry is empty, or sells what was bought where targets may be.
Planned ==
    plan # <<>> => /\ dir \in {1, -1} /\ plan \in Seq(SimTargets(dir, tp))
                   /\ Total([i \in DOMAIN plan |-> plan[i].qty]) = Lots

\* Every variable of the entry, with the side drawn and the plan made by Signal.
Typed ==
    /\ pc \in Pcs /\ real \in BOOLEAN /\ failed \subseteq Pcs \cup {"crash"}
    /\ dir \in {-1, 0, 1} /\ (dir = 0 <=> pc = "idle")
    /\ account \in [keys: BOOLEAN, hedge: BOOLEAN, levered: BOOLEAN]
    /\ exchange \in [size: {0, Truncated}, sl: {0, Stop}, tp: Nat]
    /\ row \in [n: {0, 1}, sl: {0, Stop}, tp: Nat]
    /\ Planned
    /\ saved \in 0..Len(plan)

\* Where the handler has not been, nothing is held, placed or stored yet.
Staged ==
    /\ pc = "idle" => plan = <<>>
    /\ plan = <<>> => pc \in {"idle", "done"} /\ exchange = Nothing /\ row = NoRow
    /\ pc \in {"idle", "hedge", "leverage", "submit"} => exchange = Nothing
    /\ pc \notin {"target", "done"} => row = NoRow /\ saved = 0
    /\ pc = "target" => row.n = 1
    /\ pc \in {"stop", "tp"} => exchange.size > 0

Lost(call) == call \in failed \/ "crash" \in failed

\* Every call the handler has passed left its mark or its failure, the ones
\* DamageIsLocal does not mention included: the refusal of an order is put down
\* to the hedge mode, which the handler sets two calls before.
Accounted ==
    /\ pc \in {"leverage", "submit"} => account.hedge \/ Lost("hedge")
    /\ pc = "submit" \/ exchange.size > 0 => account.levered \/ Lost("leverage")
    /\ exchange.size > 0 /\ exchange.sl = 0 => pc = "stop" \/ Lost("submit") \/ Lost("stop")
    /\ exchange.size > 0 /\ exchange.tp = 0 =>
          pc \in {"stop", "tp"} \/ Lost("submit") \/ Lost("tp")
    /\ exchange.size > 0 /\ pc = "done" /\ row.n = 0 => Lost("row")
    /\ pc = "done" /\ row.n = 1 /\ saved < Len(plan) => Lost("target")
    /\ (pc = "row" \/ row.n = 1) /\ real /\ exchange.size = 0 =>
          Truncated = 0 \/ ~ account.keys \/ Lost("hedge") \/ Lost("submit")

EntryInv == ConfigTyped /\ Typed /\ Staged /\ Accounted

\* Nothing is bought for a quantity below the size step; a stop is a price.
LEMMA Sizes ==
  /\ Truncated \in Nat
  /\ dir \in {1, -1} => Stop \in Nat \ {0}
<1>1. Lots \in Nat \ {0} /\ SizeStep \in Nat \ {0}
  BY PlanAssumption, EntryAssumption
<1>2. Lots % SizeStep \in 0..(SizeStep - 1) /\ Lots % SizeStep <= Lots
  BY <1>1
<1>3. Truncated \in Nat
  BY <1>1, <1>2 DEF Truncated
<1>4. dir \in {1, -1} => Stop \in Nat \ {0}
  <2>1. CASE dir = 1
    BY <2>1, PlanAssumption DEF Stop
  <2>2. CASE dir = -1
    BY <2>2, PlanAssumption DEF Stop
  <2> QED
    BY <2>1, <2>2
<1> QED
  BY <1>3, <1>4

LEMMA SigTpTyped ==
  ASSUME NEW d \in {1, -1}, NEW c, NEW p \in Seq(SimTargets(d, c)), p # <<>>
  PROVE  Len(p) \in Nat \ {0} /\ Last(p).price \in Nat \ {0}
<1>1. Len(p) \in Nat \ {0}
  BY EmptySeq
<1>2. Last(p) = p[Len(p)] /\ p[Len(p)] \in SimTargets(d, c)
  BY <1>1 DEF Last
<1> QED
  BY <1>1, <1>2 DEF SimTargets

LEMMA EntryInit == Init => EntryInv
<1> SUFFICES ASSUME Init PROVE EntryInv
  OBVIOUS
<1>1. ConfigTyped
  BY ConfigInit DEF Init
<1>2. Truncated \in Nat
  BY Sizes
<1>3. Len(<<>>) = 0
  OBVIOUS
<1>4. Planned
  BY DEF Init, Planned
<1>5. Typed
  <2>1. saved \in 0..Len(plan)
    BY <1>3 DEF Init
  <2>2. /\ account \in [keys: BOOLEAN, hedge: BOOLEAN, levered: BOOLEAN]
        /\ exchange \in [size: {0, Truncated}, sl: {0, Stop}, tp: Nat]
        /\ row \in [n: {0, 1}, sl: {0, Stop}, tp: Nat]
    BY DEF Init
  <2>3. /\ pc \in Pcs /\ real \in BOOLEAN /\ failed \subseteq Pcs \cup {"crash"}
        /\ dir \in {-1, 0, 1} /\ (dir = 0 <=> pc = "idle")
    BY DEF Init, Pcs
  <2> QED
    BY <1>4, <2>1, <2>2, <2>3 DEF Typed
<1>6. Staged
  BY DEF Init, Staged, Nothing, NoRow
<1>7. Accounted
  BY DEF Init, Accounted
<1> QED
  BY <1>1, <1>5, <1>6, <1>7 DEF EntryInv

LEMMA ConfigKept ==
  ASSUME ConfigTyped, UNCHANGED config \/ Forget, UNCHANGED faults \/ Fault
  PROVE  ConfigTyped'
<1>1. faults' \in Nat
  BY DEF ConfigTyped, Fault
<1>2. UNCHANGED <<templates, tp, edits>> /\ todo' \in [Edits -> Seq(Stmts)]
  <2>1. CASE UNCHANGED config
    BY <2>1 DEF ConfigTyped, config
  <2>2. CASE Forget
    <3>1. todo' \in [Edits -> Seq(Stmts)]
      BY <2>2 DEF Forget
    <3> QED
      BY <2>2, <3>1 DEF Forget
  <2> QED
    BY <2>1, <2>2
<1> QED
  BY <1>1, <1>2 DEF ConfigTyped

\* A plan that is not touched stays one.
LEMMA PlannedKept ==
  ASSUME Planned, UNCHANGED <<dir, plan>>, plan = <<>> \/ UNCHANGED config \/ Forget
  PROVE  Planned'
<1>1. plan = <<>> \/ UNCHANGED <<tp, dir, plan>>
  BY DEF config, Forget
<1> QED
  BY <1>1 DEF Planned

LEMMA SignalStep ==
  ASSUME EntryInv, Signal
  PROVE  EntryInv'
<1>1. ConfigTyped'
  BY ConfigKept DEF EntryInv, Signal
<1>2. /\ pc = "idle" /\ dir' \in {1, -1} /\ real' \in BOOLEAN /\ plan = <<>>
      /\ UNCHANGED <<exchange, row, saved, failed>>
      /\ exchange = Nothing /\ row = NoRow /\ saved = 0
  BY DEF EntryInv, Signal, At, Staged
<1>3. PICK template \in Resolved :
         LET tps == BuildTps(template, tp, dir') IN
         IF tps = <<>> THEN Goto("done") /\ UNCHANGED plan
         ELSE Goto(IF real' /\ account'.keys THEN "hedge" ELSE "row") /\ plan' = NormalizeTargets(tps)
  BY DEF Signal
<1> DEFINE tps == BuildTps(template, tp, dir')
<1>4. tps \in Seq(Targets(dir', tp'))
  <2>1. template \in Seq(Entries) /\ tp \in ColumnValues
    BY ResolvedTyped, ConfigAssumption DEF EntryInv, ConfigTyped, ColumnValues
  <2>2. tp' = tp
    BY DEF Signal, config
  <2> QED
    BY <1>2, <2>1, <2>2, BuildTpsTyped
<1>5. \/ tps = <<>> /\ pc' = "done" /\ plan' = <<>>
      \/ /\ tps # <<>> /\ plan' = NormalizeTargets(tps)
         /\ pc' = IF real' /\ account'.keys THEN "hedge" ELSE "row"
  BY <1>2, <1>3 DEF Goto
<1> HIDE DEF tps
<1>6. Planned' /\ Len(plan') \in Nat /\ (plan' = <<>> <=> pc' = "done")
      /\ pc' \in {"hedge", "row", "done"}
  <2>1. CASE tps = <<>>
    BY <1>5, <2>1 DEF Planned
  <2>2. CASE tps # <<>>
    <3>1. /\ NormalizeTargets(tps) \in Seq(SimTargets(dir', tp')) /\ NormalizeTargets(tps) # <<>>
          /\ Total([i \in DOMAIN NormalizeTargets(tps) |-> NormalizeTargets(tps)[i].qty]) = Lots
      BY <1>2, <1>4, <2>2, NormalizeTargetsTyped
    <3>2. plan' = NormalizeTargets(tps)
      BY <1>5, <2>2
    <3>3. plan' # <<>> /\ plan' \in Seq(SimTargets(dir', tp'))
          /\ Total([i \in DOMAIN plan' |-> plan'[i].qty]) = Lots
      BY <3>1, <3>2
    <3>4. Planned'
      BY <1>2, <3>3 DEF Planned
    <3>5. Len(plan') \in Nat
      BY <3>3
    <3>6. pc' \in {"hedge", "row"}
      BY <1>2, <1>5, <2>2
    <3> QED
      BY <3>3, <3>4, <3>5, <3>6
  <2> QED
    BY <2>1, <2>2
<1>7. account' \in [keys: BOOLEAN, hedge: BOOLEAN, levered: BOOLEAN]
  BY DEF EntryInv, Typed, Signal
<1>8. Typed'
  BY <1>2, <1>6, <1>7 DEF Typed, EntryInv, Pcs, Nothing, NoRow
<1>9. Staged'
  BY <1>2, <1>6 DEF Staged
<1>10. real' /\ account'.keys => pc' # "row"
  BY <1>5
<1>11. exchange'.size = 0 /\ row'.n = 0
  BY <1>2 DEF Nothing, NoRow
<1>12. Accounted'
  BY <1>6, <1>10, <1>11 DEF Accounted
<1> QED
  BY <1>1, <1>8, <1>9, <1>12 DEF EntryInv

LEMMA AccountSteps ==
  ASSUME EntryInv, EnsureHedgeMode \/ SetLeverage
  PROVE  EntryInv'
<1> USE DEF At, Goto, Fails, Succeeds, Fault
<1>1. ConfigTyped'
  BY ConfigKept DEF EntryInv, EnsureHedgeMode, SetLeverage
<1>2. UNCHANGED <<dir, real, plan, exchange, row, saved>>
  BY DEF EnsureHedgeMode, SetLeverage
<1>3. Planned'
  BY <1>2, PlannedKept DEF EntryInv, Typed, EnsureHedgeMode, SetLeverage
<1>4. CASE EnsureHedgeMode
  <2>1. pc = "hedge" /\ pc' = "leverage"
    BY <1>4 DEF EnsureHedgeMode
  <2>2. Typed'
    BY <1>2, <1>3, <1>4, <2>1 DEF EntryInv, Typed, EnsureHedgeMode, Pcs, Truncated, Stop
  <2>3. Staged'
    BY <1>2, <2>1 DEF EntryInv, Staged
  <2>4. account'.hedge \/ Lost("hedge")'
    BY <1>4, <2>1 DEF EntryInv, Typed, EnsureHedgeMode, Lost
  <2>5. exchange'.size = 0 /\ row'.n = 0
    BY <1>2, <2>1 DEF EntryInv, Staged, Nothing, NoRow
  <2>6. Accounted'
    BY <2>1, <2>4, <2>5 DEF Accounted
  <2> QED
    BY <1>1, <2>2, <2>3, <2>6 DEF EntryInv
<1>5. CASE SetLeverage
  <2>1. pc = "leverage" /\ pc' = "submit"
    BY <1>5 DEF SetLeverage
  <2>2. Typed'
    BY <1>2, <1>3, <1>5, <2>1 DEF EntryInv, Typed, SetLeverage, Pcs, Truncated, Stop
  <2>3. Staged'
    BY <1>2, <2>1 DEF EntryInv, Staged
  <2>4. account'.hedge \/ Lost("hedge")'
    BY <1>5, <2>1 DEF EntryInv, Typed, Accounted, SetLeverage, Lost
  <2>5. account'.levered \/ Lost("leverage")'
    BY <1>5, <2>1 DEF EntryInv, Typed, SetLeverage, Lost
  <2>6. exchange'.size = 0 /\ row'.n = 0
    BY <1>2, <2>1 DEF EntryInv, Staged, Nothing, NoRow
  <2>7. Accounted'
    BY <2>1, <2>4, <2>5, <2>6 DEF Accounted
  <2> QED
    BY <1>1, <2>2, <2>3, <2>7 DEF EntryInv
<1> QED
  BY <1>4, <1>5

LEMMA SubmitStep ==
  ASSUME EntryInv, SubmitOrder
  PROVE  EntryInv'
<1> USE DEF At, Goto, Fails, Succeeds, Fault
<1>1. ConfigTyped'
  BY ConfigKept DEF EntryInv, SubmitOrder
<1>2. /\ pc = "submit" /\ UNCHANGED <<dir, real, plan, account, row, saved>>
      /\ exchange = Nothing /\ row = NoRow /\ saved = 0 /\ plan # <<>> /\ dir \in {1, -1}
  BY DEF SubmitOrder, EntryInv, Staged, Typed
<1>3. Planned'
  BY <1>2, PlannedKept DEF EntryInv, Typed, SubmitOrder
<1>4. Truncated \in Nat
  BY Sizes
<1>5. \/ pc' = "stop" /\ Truncated > 0 /\ exchange' = [Nothing EXCEPT !.size = Truncated]
         /\ failed' = failed
      \/ pc' = "row" /\ exchange' = Nothing /\ failed' = failed
         /\ (~ account.hedge \/ Truncated = 0)
      \/ pc' = "row" /\ failed' = failed \cup {"submit"}
         /\ exchange' \in {Nothing, [Nothing EXCEPT !.size = Truncated]}
  BY <1>2, <1>4 DEF SubmitOrder, Accepted, Held, Nothing
<1>6. /\ exchange'.size \in {0, Truncated} /\ exchange'.sl = 0 /\ exchange'.tp = 0
      /\ exchange' \in [size: {0, Truncated}, sl: {0, Stop}, tp: Nat]
  BY <1>5 DEF Nothing
<1>7. Typed'
  BY <1>2, <1>3, <1>5, <1>6 DEF EntryInv, Typed, Pcs, Truncated, Stop
<1>8. Staged'
  BY <1>2, <1>5 DEF Staged, Nothing
<1>9. /\ failed \subseteq failed' /\ account' = account
      /\ account.levered \/ Lost("leverage")
      /\ account.hedge \/ Lost("hedge")
  BY <1>2, <1>5 DEF EntryInv, Accounted
<1>10. account'.levered \/ Lost("leverage")'
  BY <1>9 DEF Lost
<1>11. pc' = "stop" \/ Lost("submit")' \/ exchange'.size = 0
  BY <1>5 DEF Lost, Nothing
<1>12. pc' = "row" /\ exchange'.size = 0 => Truncated' = 0 \/ Lost("hedge")' \/ Lost("submit")'
  BY <1>5, <1>9 DEF Lost, Truncated
<1>13. row'.n = 0 /\ pc' \in {"stop", "row"}
  BY <1>2, <1>5 DEF NoRow
<1>14. Accounted'
  <2>1. pc' \notin {"leverage", "submit", "done"}
    BY <1>13
  <2> QED
    BY <1>4, <1>6, <1>10, <1>11, <1>12, <1>13, <2>1 DEF Accounted
<1> QED
  BY <1>1, <1>7, <1>8, <1>14 DEF EntryInv

LEMMA TpslSteps ==
  ASSUME EntryInv, PlaceStop \/ PlaceTarget
  PROVE  EntryInv'
<1> USE DEF At, Goto, Fails, Succeeds, Fault
<1>1. ConfigTyped'
  BY ConfigKept DEF EntryInv, PlaceStop, PlaceTarget
<1>2. /\ UNCHANGED <<dir, real, plan, account, row, saved>>
      /\ row = NoRow /\ saved = 0 /\ plan # <<>> /\ dir \in {1, -1} /\ exchange.size > 0
      /\ exchange \in [size: {0, Truncated}, sl: {0, Stop}, tp: Nat]
      /\ pc \in {"stop", "tp"}
  BY DEF PlaceStop, PlaceTarget, EntryInv, Staged, Typed
<1>3. Planned'
  BY <1>2, PlannedKept DEF EntryInv, Typed, PlaceStop, PlaceTarget
<1>4. Stop \in Nat \ {0} /\ Truncated \in Nat
  BY <1>2, Sizes
<1>5. SigTp \in Nat \ {0}
  BY <1>2, SigTpTyped DEF EntryInv, Typed, Planned, SigTp
<1>6. /\ account.levered \/ Lost("leverage")
      /\ exchange.sl = 0 => pc = "stop" \/ Lost("submit") \/ Lost("stop")
  BY <1>2 DEF EntryInv, Accounted
<1>7. CASE PlaceStop
  <2>1. /\ pc = "stop" /\ pc' = "tp"
        /\ \/ exchange' = [exchange EXCEPT !.sl = Stop] /\ failed' = failed
           \/ exchange' = exchange /\ failed' = failed \cup {"stop"}
    BY <1>7 DEF PlaceStop
  <2>2. /\ exchange' \in [size: {0, Truncated}, sl: {0, Stop}, tp: Nat]
        /\ exchange'.size = exchange.size /\ (exchange'.sl # 0 \/ Lost("stop")')
    BY <1>2, <1>4, <2>1 DEF Lost
  <2>3. Typed'
    BY <1>2, <1>3, <2>1, <2>2 DEF EntryInv, Typed, Pcs, Truncated, Stop
  <2>4. Staged'
    BY <1>2, <2>1, <2>2 DEF Staged
  <2>5. account'.levered \/ Lost("leverage")'
    BY <1>2, <1>6, <2>1 DEF Lost
  <2>6. Accounted'
    BY <1>2, <2>1, <2>2, <2>5 DEF Accounted, NoRow
  <2> QED
    BY <1>1, <2>3, <2>4, <2>6 DEF EntryInv
<1>8. CASE PlaceTarget
  <2>1. /\ pc = "tp" /\ pc' = "row"
        /\ \/ exchange' = [exchange EXCEPT !.tp = SigTp] /\ failed' = failed
           \/ exchange' = exchange /\ failed' = failed \cup {"tp"}
    BY <1>8 DEF PlaceTarget
  <2>2. /\ exchange' \in [size: {0, Truncated}, sl: {0, Stop}, tp: Nat]
        /\ exchange'.size = exchange.size /\ exchange'.sl = exchange.sl
        /\ (exchange'.tp # 0 \/ Lost("tp")')
    BY <1>2, <1>5, <2>1 DEF Lost
  <2>3. Typed'
    BY <1>2, <1>3, <2>1, <2>2 DEF EntryInv, Typed, Pcs, Truncated, Stop
  <2>4. Staged'
    BY <1>2, <2>1, <2>2 DEF Staged
  <2>5. /\ account'.levered \/ Lost("leverage")'
        /\ exchange'.sl = 0 => Lost("submit")' \/ Lost("stop")'
    BY <1>2, <1>6, <2>1, <2>2 DEF Lost
  <2>6. exchange'.size \in Nat /\ exchange'.size > 0
    BY <1>2, <1>4, <2>2
  <2>7. Accounted'
    BY <1>2, <2>1, <2>2, <2>5, <2>6 DEF Accounted, NoRow
  <2> QED
    BY <1>1, <2>3, <2>4, <2>7 DEF EntryInv
<1> QED
  BY <1>7, <1>8

LEMMA RowSteps ==
  ASSUME EntryInv, InsertRow \/ InsertTarget
  PROVE  EntryInv'
<1> USE DEF At, Goto, Fails, Succeeds, Fault
<1>1. ConfigTyped'
  BY ConfigKept DEF EntryInv, InsertRow, InsertTarget
<1>2. /\ UNCHANGED <<dir, real, plan, account, exchange>> /\ failed \subseteq failed'
      /\ pc \in {"row", "target"}
  BY DEF InsertRow, InsertTarget
<1>3. Planned'
  BY <1>2, PlannedKept DEF EntryInv, Typed, InsertRow, InsertTarget
<1>4. plan # <<>> /\ dir \in {1, -1}
  BY <1>2 DEF EntryInv, Staged, Typed
<1>5. Stop \in Nat \ {0} /\ Truncated \in Nat /\ exchange.size \in Nat
  BY <1>4, Sizes DEF EntryInv, Typed
<1>6. SigTp \in Nat \ {0} /\ Len(plan) \in Nat \ {0}
  BY <1>4, SigTpTyped DEF EntryInv, Typed, Planned, SigTp
<1>7. /\ exchange.size > 0 => account.levered \/ Lost("leverage")
      /\ exchange.size > 0 /\ exchange.sl = 0 => Lost("submit") \/ Lost("stop")
      /\ exchange.size > 0 /\ exchange.tp = 0 => Lost("submit") \/ Lost("tp")
      /\ real /\ exchange.size = 0 => Truncated = 0 \/ ~ account.keys \/ Lost("hedge") \/ Lost("submit")
  BY <1>2 DEF EntryInv, Accounted, Staged
<1>8. /\ exchange'.size > 0 => account'.levered \/ Lost("leverage")'
      /\ exchange'.size > 0 /\ exchange'.sl = 0 => Lost("submit")' \/ Lost("stop")'
      /\ exchange'.size > 0 /\ exchange'.tp = 0 => Lost("submit")' \/ Lost("tp")'
      /\ real' /\ exchange'.size = 0 => Truncated' = 0 \/ ~ account'.keys \/ Lost("hedge")' \/ Lost("submit")'
  <2>1. \A call : Lost(call) => Lost(call)'
    BY <1>2 DEF Lost
  <2>2. Truncated' = Truncated
    BY DEF Truncated
  <2> QED
    BY <1>2, <1>7, <2>1, <2>2
<1>9. CASE InsertRow
  <2>1. /\ pc = "row" /\ row = NoRow /\ saved = 0 /\ saved' = saved
        /\ \/ pc' = "target" /\ row' = [n |-> row.n + 1, sl |-> Stop, tp |-> SigTp]
              /\ failed' = failed
           \/ pc' = "done" /\ row' = row /\ failed' = failed \cup {"row"}
    BY <1>9 DEF InsertRow, EntryInv, Staged
  <2>2. row' \in [n: {0, 1}, sl: {0, Stop}, tp: Nat]
    BY <1>5, <1>6, <2>1 DEF NoRow
  <2>3. \/ pc' = "target" /\ row'.n = 1
        \/ pc' = "done" /\ row'.n = 0 /\ Lost("row")'
    BY <2>1 DEF NoRow, Lost
  <2>4. Typed'
    BY <1>2, <1>3, <2>1, <2>2 DEF EntryInv, Typed, Pcs, Truncated, Stop
  <2>5. Staged'
    BY <1>2, <1>4, <2>3 DEF Staged
  <2>6. Accounted'
    BY <1>8, <2>3 DEF Accounted
  <2> QED
    BY <1>1, <2>4, <2>5, <2>6 DEF EntryInv
<1>10. CASE InsertTarget
  <2>1. /\ pc = "target" /\ row' = row /\ row.n = 1 /\ saved \in 0..Len(plan)
        /\ \/ pc' = "target" /\ saved < Len(plan) /\ saved' = saved + 1 /\ failed' = failed
           \/ pc' = "done" /\ saved' = saved /\ failed' = failed \cup {"target"}
           \/ pc' = "done" /\ saved' = saved /\ saved = Len(plan) /\ failed' = failed
    BY <1>10 DEF InsertTarget, EntryInv, Staged, Typed
  <2>2. saved' \in 0..Len(plan')
    BY <1>2, <1>6, <2>1
  <2>3. pc' = "done" /\ saved' < Len(plan') => Lost("target")'
    BY <1>2, <1>6, <2>1 DEF Lost
  <2>4. Typed'
    BY <1>2, <1>3, <2>1, <2>2 DEF EntryInv, Typed, Pcs, Truncated, Stop
  <2>5. Staged'
    BY <1>2, <1>4, <2>1 DEF Staged
  <2>6. Accounted'
    BY <1>8, <2>1, <2>3 DEF Accounted
  <2> QED
    BY <1>1, <2>4, <2>5, <2>6 DEF EntryInv
<1> QED
  BY <1>9, <1>10

LEMMA CrashStep ==
  ASSUME EntryInv, Crash
  PROVE  EntryInv'
<1>1. /\ pc \notin {"idle", "done"} /\ pc' = "done" /\ "crash" \in failed'
      /\ UNCHANGED <<dir, real, plan, account, exchange, row, saved>>
      /\ failed' = failed \cup {"crash"}
  BY DEF Crash, Goto
<1>2. ConfigTyped'
  BY ConfigKept DEF EntryInv, Crash
<1>3. Planned'
  BY <1>1, PlannedKept DEF EntryInv, Typed, Crash
<1>4. Typed'
  BY <1>1, <1>3 DEF EntryInv, Typed, Pcs, Truncated, Stop
<1>5. Staged'
  BY <1>1 DEF EntryInv, Staged
<1>6. Accounted'
  BY <1>1 DEF Accounted, Lost
<1> QED
  BY <1>2, <1>4, <1>5, <1>6 DEF EntryInv

LEMMA EntryKept ==
  ASSUME EntryInv, ConfigTyped', UNCHANGED entry, plan = <<>> \/ UNCHANGED config
  PROVE  EntryInv'
<1>1. UNCHANGED <<pc, dir, real, plan, account, exchange, row, saved, failed>>
  BY DEF entry
<1>2. Planned'
  BY <1>1, PlannedKept DEF EntryInv, Typed
<1>3. Typed'
  BY <1>1, <1>2 DEF EntryInv, Typed, Pcs, Truncated, Stop
<1>4. Staged'
  BY <1>1 DEF EntryInv, Staged
<1>5. Accounted'
  BY <1>1 DEF EntryInv, Accounted, Lost, Truncated
<1> QED
  BY <1>3, <1>4, <1>5 DEF EntryInv

LEMMA EntryNext == EntryInv /\ [Next]_vars => EntryInv'
<1> SUFFICES ASSUME EntryInv, [Next]_vars PROVE EntryInv'
  OBVIOUS
<1>1. CASE Configure
  <2>1. ConfigTyped'
    BY <1>1, ConfigStep DEF Configure, EntryInv
  <2>2. plan = <<>>
    BY <1>1 DEF Configure, At, EntryInv, Staged
  <2> QED
    BY <1>1, <2>1, <2>2, EntryKept DEF Configure
<1>2. CASE UNCHANGED vars
  <2>1. UNCHANGED config /\ UNCHANGED faults /\ UNCHANGED entry
    BY <1>2 DEF vars
  <2>2. ConfigTyped'
    BY <2>1, ConfigKept DEF EntryInv
  <2> QED
    BY <2>1, <2>2, EntryKept
<1> QED
  BY <1>1, <1>2, SignalStep, AccountSteps, SubmitStep, TpslSteps, RowSteps, CrashStep
     DEF Next

LEMMA EntryInvariant == Spec => []EntryInv
BY EntryInit, EntryNext, PTL DEF Spec

-----------------------------------------------------------------------------

(* TypeOK of the entry: what every step of placeOrder and openFromSignal,  *)
(* and every plan that buildTps and normalizeTargets make, has the type of *)
(* the columns and requests it goes to.                                    *)
THEOREM EntryTypes == Spec => []TypeOK
<1>1. EntryInv => TypeOK
  <2> SUFFICES ASSUME EntryInv PROVE TypeOK
    OBVIOUS
  <2>1. plan \in Seq([price: Nat \ {0}, qty: Nat \ {0}, filledQty: {0}, hit: {FALSE}])
    <3> DEFINE T == [price: Nat \ {0}, qty: Nat \ {0}, filledQty: {0}, hit: {FALSE}]
    <3>1. CASE plan = <<>>
      BY <3>1
    <3>2. CASE plan # <<>>
      <4>1. plan \in Seq(SimTargets(dir, tp))
        BY <3>2 DEF EntryInv, Typed, Planned
      <4>2. SimTargets(dir, tp) \subseteq T
        BY DEF SimTargets
      <4> HIDE DEF T
      <4>3. plan \in Seq(T)
        BY <4>1, <4>2
      <4> QED
        BY <4>3 DEF T
    <3> QED
      BY <3>1, <3>2
  <2>2. tp \in Columns /\ faults \in Nat
    BY DEF EntryInv, ConfigTyped
  <2> QED
    BY <2>1, <2>2 DEF EntryInv, Typed, TypeOK
<1> QED
  BY <1>1, EntryInvariant, PTL

(* Whatever rows a candle finds between the statements of the requests     *)
(* that rewrite a strategy, whatever numbers the template lists and the    *)
(* columns hold, the targets it trades on sell exactly what was bought, at *)
(* prices on the profitable side, unless it is a column that is not        *)
(* positive.                                                               *)
THEOREM PlansCover == Spec => []PlanCovers
<1>1. EntryInv => PlanCovers
  <2> SUFFICES ASSUME EntryInv, plan # <<>>
               PROVE  /\ Total([i \in DOMAIN plan |-> plan[i].qty]) = Lots
                      /\ \A i \in DOMAIN plan :
                            \/ dir * plan[i].price > dir * Entry
                            \/ \E r \in {tp.r1, tp.r2} :
                                  r <= 0 /\ plan[i].price = PriceAt(dir, r)
    BY DEF PlanCovers
  <2>1. /\ plan \in Seq(SimTargets(dir, tp))
        /\ Total([i \in DOMAIN plan |-> plan[i].qty]) = Lots
    BY DEF EntryInv, Typed, Planned
  <2>2. \A i \in DOMAIN plan : plan[i] \in SimTargets(dir, tp)
    BY <2>1
  <2> QED
    BY <2>1, <2>2 DEF SimTargets, Placed
<1> QED
  BY <1>1, EntryInvariant, PTL

(* A position that misses its stop, its target, its leverage, its row or a *)
(* part of its targets, and a row that misses its position, does so        *)
(* because the call that makes the missing piece failed or the process     *)
(* died: no failure of one call costs more than its own piece.             *)
THEOREM DamageStaysLocal == Spec => []DamageIsLocal
<1>1. EntryInv => DamageIsLocal
  <2> SUFFICES ASSUME EntryInv PROVE DamageIsLocal
    OBVIOUS
  <2>1. Accounted
    BY DEF EntryInv
  <2> QED
    BY <2>1 DEF Accounted, Lost, DamageIsLocal
<1> QED
  BY <1>1, EntryInvariant, PTL
==============================================================================
