-------------------------- MODULE TrafficModelProofs --------------------------
(***************************************************************************)
(* Theorems about TrafficModel, for every number of destinations, every    *)
(* smoothing factor, every weights and any trip times.                     *)
(***************************************************************************)
EXTENDS TrafficModel, TLAPS

\* What update_traffic keeps for a destination fits its trip times.
Fits(s, w) ==
  /\ s \in Traffic /\ s.mean.den # 0 /\ s.var.den # 0
  /\ w = <<>> => s = NoTraffic
  /\ w # <<>> => /\ s.best \in Range(w)
                 /\ AtMost(s.best, s.mean)
                 /\ \E tt \in Range(w) : AtLeast(tt, s.mean)
                 /\ \A tt \in Range(w) : s.best <= tt

\* Inductive: r is computed from what fits.
TrafficInv ==
  /\ window \in [Dest -> Seq(TripTime)]
  /\ state \in [Dest -> Traffic]
  /\ \A d \in Dest : Fits(state[d], window[d])
  /\ r \in Fraction
  /\ ReinforcementInUnit

----------------------------------------------------------------------------
LEMMA Monotone ==
  ASSUME NEW a \in Nat, NEW b \in Nat, NEW c \in Nat, a <= b
  PROVE  c * a <= c * b /\ c * a \in Nat /\ c * b \in Nat
OBVIOUS

LEMMA Product ==
  ASSUME NEW a \in Nat, NEW b \in Nat
  PROVE  a * b \in Nat /\ (a * b = 0 <=> a = 0 \/ b = 0)
OBVIOUS

\* The exponential mean is a mean: it stays between bounds that hold for
\* what it is made of.
LEMMA SmoothedBetween ==
  ASSUME NEW f \in Fraction, f.den # 0, NEW tt \in Nat
  PROVE  /\ Smoothed(f, tt) \in Fraction /\ Smoothed(f, tt).den # 0
         /\ \A b \in Nat : AtMost(b, f) /\ b <= tt => AtMost(b, Smoothed(f, tt))
         /\ \A m \in Nat : AtLeast(m, f) /\ tt <= m => AtLeast(m, Smoothed(f, tt))
<1> DEFINE n == f.num
           d == f.den
           v == VarNum
           u == VarDen - VarNum
<1>1. n \in Nat /\ d \in Nat /\ d # 0 /\ v \in Nat /\ u \in Nat /\ VarDen = u + v /\ VarDen # 0
  BY SmoothingAssumption DEF Fraction
<1>2. Smoothed(f, tt) = [num |-> VarDen * n + v * (tt * d - n), den |-> VarDen * d]
  BY DEF Smoothed
<1> HIDE DEF n, d, v, u
<1>3. VarDen * n + v * (tt * d - n) = u * n + v * (tt * d)
  BY <1>1
<1>4. tt * d \in Nat /\ u * n \in Nat /\ v * (tt * d) \in Nat
  BY <1>1, Product
<1>5. VarDen * d \in Nat /\ VarDen * d # 0
  BY <1>1, Product
<1>6. Smoothed(f, tt) \in Fraction /\ Smoothed(f, tt).den # 0
  BY <1>2, <1>3, <1>4, <1>5 DEF Fraction
<1>7. ASSUME NEW b \in Nat, b * d <= n, b <= tt
      PROVE  b * (VarDen * d) <= VarDen * n + v * (tt * d - n)
  <2>1. b * d \in Nat /\ b * d <= tt * d
    BY <1>1, <1>7, Product, Monotone
  <2>2. u * (b * d) <= u * n /\ v * (b * d) <= v * (tt * d)
    BY <1>1, <1>4, <1>7, <2>1, Monotone
  <2>3. b * (VarDen * d) = u * (b * d) + v * (b * d)
    BY <1>1
  <2>4. u * (b * d) \in Nat /\ v * (b * d) \in Nat
    BY <1>1, <2>1, Product
  <2> QED
    BY <1>3, <1>4, <2>2, <2>3, <2>4
<1>8. ASSUME NEW m \in Nat, m * d >= n, tt <= m
      PROVE  m * (VarDen * d) >= VarDen * n + v * (tt * d - n)
  <2>1. m * d \in Nat /\ tt * d <= m * d
    BY <1>1, <1>8, Product, Monotone
  <2>2. u * n <= u * (m * d) /\ v * (tt * d) <= v * (m * d)
    BY <1>1, <1>4, <1>8, <2>1, Monotone
  <2>3. m * (VarDen * d) = u * (m * d) + v * (m * d)
    BY <1>1
  <2>4. u * (m * d) \in Nat /\ v * (m * d) \in Nat
    BY <1>1, <2>1, Product
  <2> QED
    BY <1>3, <1>4, <2>2, <2>3, <2>4
<1> QED
  BY <1>2, <1>6, <1>7, <1>8 DEF AtMost, AtLeast, n, d

\* No variance is negative.
LEMMA SpreadNotNegative ==
  ASSUME NEW o \in Fraction, o.den # 0, NEW f \in Fraction, f.den # 0, NEW tt \in Nat
  PROVE  Spread(o, f, tt) \in Fraction /\ Spread(o, f, tt).den # 0
<1> DEFINE diff == tt * f.den - f.num
           o2 == o.num * o.num * f.den * f.den
           d2 == diff * diff * o.den * o.den
           den == VarDen * o.den * o.den * f.den * f.den
<1>1. /\ o.num \in Nat /\ o.den \in Nat /\ f.num \in Nat /\ f.den \in Nat
      /\ VarNum \in Nat /\ VarDen \in Nat /\ VarDen # 0 /\ VarDen - VarNum \in Nat
  BY SmoothingAssumption DEF Fraction
<1>2. o2 \in Nat
  BY <1>1, Product
<1>3. diff * diff \in Nat
  <2>1. diff \in Int
    BY <1>1
  <2> HIDE DEF diff
  <2> QED
    BY <2>1
<1>4. d2 \in Nat
  <2> HIDE DEF diff
  <2> QED
    BY <1>1, <1>3, Product
<1>5. den \in Nat /\ den # 0
  <2>1. VarDen * o.den \in Nat /\ VarDen * o.den # 0
    BY <1>1, Product
  <2>2. VarDen * o.den * o.den \in Nat /\ VarDen * o.den * o.den # 0
    BY <1>1, <2>1, Product
  <2>3. VarDen * o.den * o.den * f.den \in Nat /\ VarDen * o.den * o.den * f.den # 0
    BY <1>1, <2>2, Product
  <2> QED
    BY <1>1, <2>3, Product
<1>6. Spread(o, f, tt) = [num |-> VarDen * o2 + VarNum * (d2 - o2), den |-> den]
  BY DEF Spread
<1> HIDE DEF o2, d2, den
<1>7. VarDen * o2 + VarNum * (d2 - o2) = (VarDen - VarNum) * o2 + VarNum * d2
  BY <1>1, <1>2, <1>4
<1>8. (VarDen - VarNum) * o2 \in Nat /\ VarNum * d2 \in Nat
  BY <1>1, <1>2, <1>4, Product
<1> QED
  BY <1>5, <1>6, <1>7, <1>8 DEF Fraction

----------------------------------------------------------------------------
\* The window with one more trip time, and the best of them.
LEMMA WindowGrows ==
  ASSUME NEW w \in Seq(TripTime), NEW tt \in TripTime
  PROVE  /\ Append(w, tt) \in Seq(TripTime) /\ Append(w, tt) # <<>>
         /\ Range(Append(w, tt)) = Range(w) \cup {tt}
         /\ Len(Append(w, tt)) = 1 => w = <<>>
         /\ w = <<>> => Range(w) = {} /\ Len(Append(w, tt)) = 1
<1> DEFINE a == Append(w, tt)
<1>1. /\ Len(w) \in Nat /\ Len(a) = Len(w) + 1 /\ a \in Seq(TripTime)
      /\ DOMAIN w = 1 .. Len(w) /\ DOMAIN a = 1 .. Len(w) + 1
      /\ \A i \in 1 .. Len(w) : a[i] = w[i]
      /\ a[Len(w) + 1] = tt
  OBVIOUS
<1> HIDE DEF a
<1>2. Range(a) = Range(w) \cup {tt}
  <2>1. \A i \in DOMAIN a : i \in 1 .. Len(w) \/ i = Len(w) + 1
    BY <1>1
  <2>2. DOMAIN w \subseteq DOMAIN a /\ Len(w) + 1 \in DOMAIN a
    BY <1>1
  <2> QED
    BY <1>1, <2>1, <2>2 DEF Range
<1>3. Len(a) = 1 => w = <<>>
  BY <1>1
<1>4. a # <<>>
  BY <1>1
<1>5. w = <<>> => Range(w) = {} /\ Len(a) = 1
  BY <1>1 DEF Range
<1> QED
  BY <1>1, <1>2, <1>3, <1>4, <1>5 DEF a

LEMMA BestOf ==
  ASSUME NEW S, S \subseteq Nat, NEW b \in S, \A x \in S : b <= x
  PROVE  Min(S) = b
<1>1. Min(S) \in S /\ \A x \in S : Min(S) <= x
  BY DEF Min
<1>2. Min(S) <= b /\ b <= Min(S) /\ Min(S) \in Nat /\ b \in Nat
  BY <1>1
<1> QED
  BY <1>2

LEMMA ObservedFits ==
  ASSUME NEW s, NEW w \in Seq(TripTime), Fits(s, w), NEW tt \in TripTime
  PROVE  Fits(Observed(s, Append(w, tt), tt), Append(w, tt))
<1> DEFINE a == Append(w, tt)
           t == Observed(s, a, tt)
<1>1. /\ a \in Seq(TripTime) /\ a # <<>> /\ Range(a) = Range(w) \cup {tt}
      /\ Len(a) = 1 <=> w = <<>>
      /\ w = <<>> => Range(w) = {}
  BY WindowGrows
<1>2. tt \in Nat /\ Range(w) \subseteq Nat
  <2>1. \A i \in DOMAIN w : w[i] \in TripTime
    OBVIOUS
  <2> QED
    BY <2>1, TripTimeAssumption DEF Range
<1>3. /\ s.mean \in Fraction /\ s.var \in Fraction /\ s.best \in Nat
      /\ s.mean.den # 0 /\ s.var.den # 0
  BY DEF Fits, Traffic
<1>4. t = [mean |-> t.mean, var |-> t.var, best |-> t.best] /\ t.best = Min(Range(a))
  BY DEF Observed
<1>5. CASE w = <<>>
  <2>1. t.mean = Whole(tt) /\ t.var = Whole(tt) /\ Range(a) = {tt}
    BY <1>1, <1>5 DEF Observed
  <2>2. t.best = tt
    <3>1. {tt} \subseteq Nat /\ tt \in {tt} /\ \A x \in {tt} : tt <= x
      BY <1>2
    <3>2. \A S : S = {tt} => Min(S) = tt
      BY <3>1, BestOf
    <3> QED
      BY <1>4, <2>1, <3>2
  <2> HIDE DEF t, a
  <2>3. t \in Traffic /\ t.mean.den # 0 /\ t.var.den # 0
    BY <1>2, <1>4, <2>1, <2>2 DEF Traffic, Whole, Fraction
  <2>4. AtMost(tt, Whole(tt)) /\ AtLeast(tt, Whole(tt))
    BY <1>2 DEF AtMost, AtLeast, Whole
  <2> QED
    BY <1>1, <1>2, <2>1, <2>2, <2>3, <2>4 DEF Fits, a, t
<1>6. CASE w # <<>>
  <2>1. t.mean = Smoothed(s.mean, tt) /\ t.var = Spread(s.var, s.mean, tt)
    BY <1>1, <1>6 DEF Observed
  <2>2. /\ s.best \in Range(w) /\ AtMost(s.best, s.mean)
        /\ \A x \in Range(w) : s.best <= x
    BY <1>6 DEF Fits
  <2>3. PICK m \in Range(w) : AtLeast(m, s.mean)
    BY <1>6 DEF Fits
  <2> DEFINE best == IF s.best <= tt THEN s.best ELSE tt
             worst == IF m >= tt THEN m ELSE tt
  <2>4. /\ best \in Range(a) /\ best \in Nat /\ best <= s.best /\ best <= tt
        /\ \A x \in Range(a) : best <= x
    BY <1>1, <1>2, <1>3, <2>2
  <2>5. worst \in Range(a) /\ worst \in Nat /\ m <= worst /\ tt <= worst /\ m \in Nat
    BY <1>1, <1>2, <2>3
  <2> HIDE DEF best, worst, t, a
  <2>6. Range(a) \subseteq Nat
    BY <1>1, <1>2
  <2>7. t.best = best
    BY <1>4, <2>4, <2>6, BestOf
  <2>8. AtMost(best, s.mean)
    <3>1. s.mean.den \in Nat /\ s.mean.num \in Nat
      BY <1>3 DEF Fraction
    <3>2. s.mean.den * best <= s.mean.den * s.best
      BY <1>3, <2>4, <3>1, Monotone
    <3>3. best * s.mean.den = s.mean.den * best /\ s.best * s.mean.den = s.mean.den * s.best
      BY <1>3, <2>4, <3>1
    <3> QED
      <4>1. s.mean.den * s.best \in Nat /\ s.mean.den * best \in Nat
        BY <1>3, <2>4, <3>1, Product
      <4>2. s.mean.den * s.best <= s.mean.num
        BY <2>2, <3>3 DEF AtMost
      <4>3. s.mean.den * best <= s.mean.num
        BY <3>1, <3>2, <4>1, <4>2
      <4> QED
        BY <3>3, <4>3 DEF AtMost
  <2>9. AtLeast(worst, s.mean)
    <3>1. s.mean.den \in Nat /\ s.mean.num \in Nat
      BY <1>3 DEF Fraction
    <3>2. s.mean.den * m <= s.mean.den * worst
      BY <2>5, <3>1, Monotone
    <3>3. m * s.mean.den = s.mean.den * m /\ worst * s.mean.den = s.mean.den * worst
      BY <2>5, <3>1
    <3> QED
      BY <2>3, <2>5, <3>1, <3>2, <3>3, Product DEF AtLeast
  <2>10. /\ t.mean \in Fraction /\ t.mean.den # 0
         /\ AtMost(best, t.mean) /\ AtLeast(worst, t.mean)
    BY <1>2, <1>3, <2>1, <2>4, <2>5, <2>8, <2>9, SmoothedBetween
  <2>11. t.var \in Fraction /\ t.var.den # 0
    BY <1>2, <1>3, <2>1, SpreadNotNegative
  <2>12. t \in Traffic
    BY <1>4, <2>4, <2>7, <2>10, <2>11 DEF Traffic
  <2>13. Fits(t, a)
    BY <1>1, <2>4, <2>5, <2>7, <2>10, <2>11, <2>12 DEF Fits
  <2> QED
    BY <2>13 DEF a, t
<1> QED
  BY <1>5, <1>6

\* The two parts of r, of which one is at most c1 and the other at most c2.
LEMMA ReinforcementBounds ==
  ASSUME NEW s \in Traffic, s.mean.den # 0, AtMost(s.best, s.mean),
         NEW tt \in Nat, s.best <= tt, NEW dev \in Nat
  PROVE  LET f == Reinforcement(s, tt, dev)
         IN  f \in Fraction /\ f.num <= f.den /\ (f.den = 0 => tt = 0)
<1> DEFINE sup  == s.mean.num + Zee * dev * s.mean.den - s.best * s.mean.den
           over == (tt - s.best) * s.mean.den
           x == C1 * s.best * (sup + over) + C2 * sup * tt
           y == CDen * tt * (sup + over)
<1>1. /\ s.mean.num \in Nat /\ s.mean.den \in Nat /\ s.best \in Nat
      /\ Zee \in Nat /\ C1 \in Nat /\ C2 \in Nat /\ CDen \in Nat /\ CDen # 0
      /\ C1 + C2 <= CDen
  BY WeightAssumption, DeviationAssumption DEF Traffic, Fraction
<1>2. sup \in Nat
  <2>1. Zee * dev * s.mean.den \in Nat /\ s.best * s.mean.den \in Nat
    BY <1>1, Product
  <2>2. s.best * s.mean.den <= s.mean.num
    BY DEF AtMost
  <2> QED
    BY <1>1, <2>1, <2>2
<1>3. over \in Nat
  <2>1. tt - s.best \in Nat
    BY <1>1
  <2> QED
    BY <1>1, <2>1, Product
<1>4. Reinforcement(s, tt, dev) =
        IF sup = 0 /\ over = 0 THEN Whole(0) ELSE [num |-> x, den |-> y]
  BY DEF Reinforcement
<1>5. CASE sup = 0 /\ over = 0
  BY <1>4, <1>5 DEF Whole, Fraction
<1>6. CASE ~(sup = 0 /\ over = 0)
  <2> HIDE DEF sup, over
  <2> DEFINE all == sup + over
  <2>1. all \in Nat /\ sup <= all /\ all # 0
    BY <1>2, <1>3, <1>6
  <2>2. x = C1 * (all * s.best) + C2 * (tt * sup) /\ y = CDen * (tt * all)
    BY <1>1, <1>2, <1>3
  <2> HIDE DEF all, x, y
  <2>3. all * s.best <= all * tt /\ all * s.best \in Nat /\ all * tt \in Nat /\ all * tt = tt * all
    BY <1>1, <2>1, Monotone
  <2>4. tt * sup <= tt * all /\ tt * sup \in Nat
    BY <1>2, <2>1, Monotone
  <2>5. C1 * (all * s.best) <= C1 * (tt * all) /\ C1 * (all * s.best) \in Nat
    BY <1>1, <2>3, Monotone
  <2>6. C2 * (tt * sup) <= C2 * (tt * all) /\ C2 * (tt * sup) \in Nat
    BY <1>1, <2>3, <2>4, Monotone
  <2>7. (tt * all) * (C1 + C2) <= (tt * all) * CDen
    BY <1>1, <2>3, Monotone
  <2>8. /\ (tt * all) * (C1 + C2) = C1 * (tt * all) + C2 * (tt * all)
        /\ (tt * all) * CDen = CDen * (tt * all)
        /\ C1 * (tt * all) \in Nat /\ C2 * (tt * all) \in Nat /\ CDen * (tt * all) \in Nat
    BY <1>1, <2>3, Product
  <2>9. x \in Nat /\ y \in Nat /\ x <= y
    BY <2>2, <2>5, <2>6, <2>7, <2>8
  <2>10. y = 0 => tt = 0
    BY <1>1, <2>1, <2>2, <2>3, Product
  <2> QED
    BY <1>4, <1>6, <2>9, <2>10 DEF Fraction
<1> QED
  BY <1>5, <1>6

----------------------------------------------------------------------------
\* The trip time to each destination of a path.
Destinations(path) == {path[i][1] : i \in DOMAIN path}
TimeTo(path) ==
  [d \in Destinations(path) |-> path[CHOOSE i \in DOMAIN path : path[i][1] = d][2]]

LEMMA PathFacts ==
  ASSUME NEW path \in Path
  PROVE  /\ Destinations(path) \subseteq Dest
         /\ \A d \in Destinations(path) : TimeTo(path)[d] \in TripTime
         /\ path[Len(path)][1] \in Destinations(path)
<1>1. PICK k \in 1 .. Cardinality(Dest) : path \in [1 .. k -> Dest \X TripTime]
  BY DEF Path
<1>2. k \in Int /\ k >= 1 /\ DOMAIN path = 1 .. k
  BY <1>1
<1>3. Len(path) = k /\ k \in DOMAIN path
  BY <1>1, <1>2
<1>4. \A i \in DOMAIN path : path[i][1] \in Dest /\ path[i][2] \in TripTime
  BY <1>1
<1>5. ASSUME NEW d \in Destinations(path)
      PROVE  TimeTo(path)[d] \in TripTime
  <2>1. \E i \in DOMAIN path : path[i][1] = d
    BY DEF Destinations
  <2> QED
    BY <1>4, <2>1 DEF TimeTo
<1> QED
  BY <1>3, <1>4, <1>5 DEF Destinations

LEMMA UpdateTrafficInv ==
  ASSUME TrafficInv, NEW path \in Path, UpdateTraffic(path)
  PROVE  TrafficInv'
<1> DEFINE to == Destinations(path)
           tt == TimeTo(path)
           end == path[Len(path)][1]
<1>1. /\ to \subseteq Dest /\ DOMAIN tt = to /\ end \in to
      /\ \A d \in to : tt[d] \in TripTime /\ tt[d] \in Nat
  BY PathFacts, TripTimeAssumption DEF TimeTo
<1>2. /\ window' = [d \in Dest |-> IF d \in to THEN Append(window[d], tt[d]) ELSE window[d]]
      /\ state' = [d \in Dest |-> IF d \in to
                                    THEN Observed(state[d], window'[d], tt[d]) ELSE state[d]]
      /\ \E dev \in Deviations(state'[end]) : r' = Reinforcement(state'[end], tt[end], dev)
  <2>1. window' = [d \in Dest |-> IF d \in DOMAIN tt THEN Append(window[d], tt[d]) ELSE window[d]]
    BY DEF UpdateTraffic, TimeTo, Destinations
  <2>2. state' = [d \in Dest |-> IF d \in DOMAIN tt
                                 THEN Observed(state[d], window'[d], tt[d]) ELSE state[d]]
    BY DEF UpdateTraffic, TimeTo, Destinations
  <2>3. \E dev \in Deviations(state'[end]) : r' = Reinforcement(state'[end], tt[end], dev)
    BY DEF UpdateTraffic, TimeTo, Destinations
  <2> HIDE DEF tt, to, end
  <2> QED
    BY <1>1, <2>1, <2>2, <2>3
<1> HIDE DEF to, tt, end
<1>3. ASSUME NEW d \in Dest
      PROVE  /\ window'[d] \in Seq(TripTime)
             /\ Fits(state'[d], window'[d])
             /\ Range(window[d]) \subseteq Range(window'[d])
             /\ d \in to => tt[d] \in Range(window'[d])
  <2>1. window[d] \in Seq(TripTime) /\ Fits(state[d], window[d])
    BY DEF TrafficInv
  <2>2. CASE d \in to
    <3>1. /\ window'[d] = Append(window[d], tt[d]) /\ tt[d] \in TripTime
          /\ state'[d] = Observed(state[d], Append(window[d], tt[d]), tt[d])
      BY <1>1, <1>2, <2>2
    <3> QED
      BY <2>1, <2>2, <3>1, WindowGrows, ObservedFits
  <2>3. CASE d \notin to
    BY <1>2, <2>1, <2>3
  <2> QED
    BY <2>2, <2>3
<1>4. /\ window' \in [Dest -> Seq(TripTime)] /\ \A d \in Dest : Fits(state'[d], window'[d])
      /\ \A d \in Dest : state'[d] \in Traffic
  BY <1>2, <1>3 DEF Fits
<1>5. state' \in [Dest -> Traffic]
  BY <1>2, <1>4
<1>6. /\ state'[end] \in Traffic /\ state'[end].mean.den # 0
      /\ AtMost(state'[end].best, state'[end].mean)
      /\ tt[end] \in Nat /\ state'[end].best <= tt[end]
      /\ end \in Dest /\ tt[end] \in Range(window'[end])
  <2>1. end \in Dest /\ tt[end] \in Range(window'[end]) /\ Fits(state'[end], window'[end])
    BY <1>1, <1>3
  <2>2. window'[end] # <<>>
    BY <1>1, <1>2, WindowGrows DEF TrafficInv
  <2> QED
    BY <1>1, <2>1, <2>2 DEF Fits
<1>7. PICK dev \in Deviations(state'[end]) : r' = Reinforcement(state'[end], tt[end], dev)
  BY <1>2
<1>8. dev \in Nat
  BY DeviationAssumption DEF Deviations
<1>9. r' \in Fraction /\ r'.num <= r'.den /\ (r'.den = 0 => tt[end] = 0)
  BY <1>6, <1>7, <1>8, ReinforcementBounds
<1>10. ReinforcementInUnit'
  BY <1>6, <1>9 DEF ReinforcementInUnit
<1> QED
  BY <1>4, <1>5, <1>9, <1>10 DEF TrafficInv

LEMMA TrafficInvariance == TrafficSpec => []TrafficInv
<1>1. TrafficInit => TrafficInv
  <2> SUFFICES ASSUME TrafficInit PROVE TrafficInv
    OBVIOUS
  <2>1. NoTraffic \in Traffic /\ NoTraffic.mean.den # 0 /\ NoTraffic.var.den # 0
    BY DEF NoTraffic, Traffic, Fraction
  <2>2. /\ window \in [Dest -> Seq(TripTime)] /\ state \in [Dest -> Traffic]
        /\ \A d \in Dest : window[d] = <<>> /\ state[d] = NoTraffic
    BY <2>1 DEF TrafficInit
  <2>3. \A d \in Dest : Fits(state[d], window[d])
    BY <2>1, <2>2 DEF Fits
  <2>4. r \in Fraction /\ r.num <= r.den /\ r.den # 0
    BY DEF TrafficInit, Whole, Fraction
  <2> QED
    BY <2>2, <2>3, <2>4 DEF TrafficInv, ReinforcementInUnit
<1>2. TrafficInv /\ [TrafficNext]_tvars => TrafficInv'
  <2>1. CASE UNCHANGED tvars
    BY <2>1 DEF tvars, TrafficInv, ReinforcementInUnit
  <2> QED
    BY <2>1, UpdateTrafficInv DEF TrafficNext
<1> QED
  BY <1>1, <1>2, PTL DEF TrafficSpec

(* The square root of the variance is always defined, whatever is squared  *)
(* in it, and an entry without samples is the one it began with.           *)
THEOREM TrafficTypeCorrect == TrafficSpec => []TrafficTypeOK
<1>1. TrafficInv => TrafficTypeOK
  BY DEF TrafficInv, TrafficTypeOK, Fits
<1> QED
  BY <1>1, TrafficInvariance, PTL

(* The mean of any number of trip times is between the best and the worst  *)
(* of them, for every VARSIGMA in [0,1].                                   *)
THEOREM MeanIsBetween == TrafficSpec => []MeanBetweenSamples
<1>1. TrafficInv => MeanBetweenSamples
  BY DEF TrafficInv, MeanBetweenSamples, Fits
<1> QED
  BY <1>1, TrafficInvariance, PTL

(* r is in [0,1] for every zee and all weights with c1 + c2 <= 1.          *)
THEOREM ReinforcementIsInUnit == TrafficSpec => []ReinforcementInUnit
<1>1. TrafficInv => ReinforcementInUnit
  BY DEF TrafficInv
<1> QED
  BY <1>1, TrafficInvariance, PTL
=============================================================================
