------------------------------ MODULE SumProofs ------------------------------
(***************************************************************************)
(* Theorems about Total, for sequences of any length.                      *)
(***************************************************************************)
EXTENDS SequenceSums, SequenceTheorems, WellFoundedInduction, TLAPS

----------------------------------------------------------------------------
(***************************************************************************)
(* Induction over the natural numbers, for a set instead of a predicate:   *)
(* the least number outside it has a predecessor in it.                    *)
(***************************************************************************)
LEMMA InductionOnSet ==
  ASSUME NEW S, 0 \in S, \A n \in Nat : n \in S => n + 1 \in S
  PROVE  Nat \subseteq S
<1> DEFINE R == {ss \in Nat \X Nat : ss[1] < ss[2]}
           T == {n \in Nat : n \notin S}
<1> SUFFICES ASSUME T # {} PROVE FALSE
  OBVIOUS
<1>1. IsWellFoundedOn(R, Nat)
  BY NatLessThanWellFounded DEF OpToRel
<1>2. T \subseteq Nat
  OBVIOUS
<1>3. \A x, y \in Nat : x < y => <<x, y>> \in R
  OBVIOUS
<1> HIDE DEF R, T
<1>4. PICK x \in T : \A y \in T : ~ (<<y, x>> \in R)
  BY <1>1, <1>2, WFMin
<1>5. x \in Nat /\ x # 0 /\ x - 1 \in Nat /\ x - 1 < x /\ x - 1 + 1 = x
  BY <1>4 DEF T
<1>6. x - 1 \notin T
  BY <1>2, <1>3, <1>4, <1>5
<1> QED
  BY <1>4, <1>5, <1>6 DEF T

\* The same up to a bound: from one index of a sequence to the next.
LEMMA InductionUpTo ==
  ASSUME NEW n \in Nat, NEW S, 0 \in S,
         \A k \in 0 .. n : k < n /\ k \in S => k + 1 \in S
  PROVE  0 .. n \subseteq S
<1> DEFINE T == {k \in Nat : k <= n => k \in S}
<1>1. 0 \in T
  OBVIOUS
<1>2. ASSUME NEW k \in Nat, k \in T PROVE k + 1 \in T
  <2>1. CASE k < n
    <3>1. k \in 0 .. n /\ k \in S
      BY <1>2, <2>1
    <3> QED
      BY <2>1, <3>1
  <2>2. CASE ~(k < n)
    BY <2>2
  <2> QED
    BY <2>1, <2>2
<1> HIDE DEF T
<1>3. Nat \subseteq T
  BY <1>1, <1>2, InductionOnSet
<1>4. \A k \in 0 .. n : k \in T /\ k <= n
  BY <1>3
<1> QED
  BY <1>4 DEF T

----------------------------------------------------------------------------
(***************************************************************************)
(* FoldLeft is defined by a recursive function over the subsets of the     *)
(* domain.  That it exists is shown by induction over the length; its      *)
(* values on 1 .. k are the partial sums.                                  *)
(***************************************************************************)
SumUpTo(D, s, g) ==
  g = [t \in SUBSET D |-> IF t = {} THEN 0 ELSE g[t \ {Max(t)}] + s[Max(t)]]

LEMMA TotalIsChosen ==
  ASSUME NEW s
  PROVE  Total(s) = (CHOOSE g : SumUpTo(DOMAIN s, s, g))[DOMAIN s]
BY DEF Total, FoldLeft, MapThenFoldSet, SumUpTo

LEMMA MaxIsTop ==
  ASSUME NEW n \in Nat, NEW t \in SUBSET (1 .. n + 1), n + 1 \in t
  PROVE  Max(t) = n + 1
<1>1. \A y \in t : y \in Int /\ n + 1 >= y
  OBVIOUS
<1>2. PICK x \in t : x = Max(t) /\ \A y \in t : x >= y
  BY <1>1 DEF Max
<1> QED
  BY <1>1, <1>2

LEMMA SumExists ==
  ASSUME NEW s, NEW n \in Nat
  PROVE  \E g : SumUpTo(1 .. n, s, g)
<1> DEFINE S == {m \in Nat : \E g : SumUpTo(1 .. m, s, g)}
<1>1. 0 \in S
  <2> DEFINE g == [t \in SUBSET (1 .. 0) |-> 0]
  <2>1. SUBSET (1 .. 0) = {{}}
    OBVIOUS
  <2>2. SumUpTo(1 .. 0, s, g)
    BY <2>1 DEF SumUpTo
  <2> QED
    BY <2>2
<1>2. ASSUME NEW m \in Nat, m \in S PROVE m + 1 \in S
  <2>1. PICK g : SumUpTo(1 .. m, s, g)
    BY <1>2
  <2> DEFINE D == 1 .. m + 1
             h == [t \in SUBSET D |->
                     IF m + 1 \in t THEN g[t \ {m + 1}] + s[m + 1] ELSE g[t]]
             body(t) == IF t = {} THEN 0 ELSE h[t \ {Max(t)}] + s[Max(t)]
  <2>2. ASSUME NEW t \in SUBSET D PROVE h[t] = body(t)
    <3>1. \A u \in SUBSET D : m + 1 \notin u =>
            u \in SUBSET (1 .. m) /\ h[u] = g[u]
      <4>1. \A x \in D : x # m + 1 => x \in 1 .. m
        OBVIOUS
      <4> QED
        BY <4>1
    <3>2. CASE m + 1 \in t
      <4>1. Max(t) = m + 1
        BY <3>2, MaxIsTop
      <4>2. t \ {m + 1} \in SUBSET D /\ m + 1 \notin t \ {m + 1}
        OBVIOUS
      <4>3. h[t \ {m + 1}] = g[t \ {m + 1}]
        BY <3>1, <4>2
      <4>4. h[t] = g[t \ {m + 1}] + s[m + 1]
        BY <3>2
      <4> HIDE DEF h
      <4> QED
        BY <3>2, <4>1, <4>3, <4>4
    <3>3. CASE m + 1 \notin t
      <4>1. t \in SUBSET (1 .. m) /\ h[t] = g[t]
        BY <3>1, <3>3
      <4>2. g[t] = IF t = {} THEN 0 ELSE g[t \ {Max(t)}] + s[Max(t)]
        BY <2>1, <4>1 DEF SumUpTo
      <4>3. h[t \ {Max(t)}] = g[t \ {Max(t)}]
        <5>1. t \ {Max(t)} \in SUBSET D /\ m + 1 \notin t \ {Max(t)}
          BY <3>3
        <5> QED
          BY <3>1, <5>1
      <4> HIDE DEF h
      <4> QED
        BY <4>1, <4>2, <4>3
    <3> QED
      BY <3>2, <3>3
  <2>3. h = [t \in SUBSET D |-> body(t)]
    <3>1. h = [t \in SUBSET D |-> h[t]]
      OBVIOUS
    <3> HIDE DEF h, body
    <3> QED
      BY <2>2, <3>1
  <2>4. SumUpTo(D, s, h)
    BY ONLY <2>3 DEF SumUpTo, body
  <2> QED
    BY <2>4
<1> HIDE DEF S
<1>3. Nat \subseteq S
  BY <1>1, <1>2, InductionOnSet
<1> QED
  BY <1>3 DEF S

(***************************************************************************)
(* Partials(f, s, n): f has the sums of the first 0, 1, ..., n elements.   *)
(***************************************************************************)
Partials(f, s, n) ==
  f[0] = 0 /\ \A k \in 1 .. n : f[k] = f[k - 1] + s[k]

\* Total is the last of the partial sums.
LEMMA TotalPartials ==
  ASSUME NEW s, NEW n \in Nat, DOMAIN s = 1 .. n
  PROVE  \E f : Partials(f, s, n) /\ Total(s) = f[n]
<1> DEFINE D == 1 .. n
           g == CHOOSE h : SumUpTo(D, s, h)
           f == [k \in 0 .. n |-> g[1 .. k]]
<1>1. SumUpTo(D, s, g)
  BY SumExists
<1>2. Total(s) = g[D]
  BY TotalIsChosen
<1> HIDE DEF g
<1>3. \A t \in SUBSET D : g[t] = IF t = {} THEN 0 ELSE g[t \ {Max(t)}] + s[Max(t)]
  BY <1>1 DEF SumUpTo
<1>4. f[0] = 0
  <2>1. 1 .. 0 = {} /\ 0 \in 0 .. n
    OBVIOUS
  <2> QED
    BY <1>3, <2>1
<1>5. ASSUME NEW k \in 1 .. n PROVE f[k] = f[k - 1] + s[k]
  <2>1. /\ k \in 0 .. n /\ k - 1 \in 0 .. n /\ k - 1 \in Nat /\ (k - 1) + 1 = k
        /\ k \in 1 .. k
    OBVIOUS
  <2>2. f[k] = g[1 .. k] /\ f[k - 1] = g[1 .. k - 1]
    BY <2>1
  <2>3. Max(1 .. k) = k
    <3>1. 1 .. k \in SUBSET (1 .. (k - 1) + 1) /\ (k - 1) + 1 \in 1 .. k
      OBVIOUS
    <3>2. Max(1 .. k) = (k - 1) + 1
      BY <2>1, <3>1, MaxIsTop
    <3> QED
      BY <2>1, <3>2
  <2>4. (1 .. k) \ {k} = 1 .. k - 1
    <3>1. \A x \in Int : x <= k /\ x # k <=> x <= k - 1
      BY <2>1
    <3> QED
      BY <3>1
  <2>5. 1 .. k \in SUBSET D /\ 1 .. k # {}
    BY <2>1
  <2>6. g[1 .. k] = g[(1 .. k) \ {Max(1 .. k)}] + s[Max(1 .. k)]
    BY <1>3, <2>5
  <2> HIDE DEF f
  <2> QED
    BY <2>2, <2>3, <2>4, <2>6
<1>6. f[n] = g[D]
  OBVIOUS
<1> HIDE DEF f
<1> QED
  BY <1>2, <1>4, <1>5, <1>6 DEF Partials

\* The partial sums of integers are integers, and those of naturals naturals
\* that never decrease.
LEMMA PartialsType ==
  ASSUME NEW n \in Nat, NEW s, \A k \in 1 .. n : s[k] \in Int,
         NEW f, Partials(f, s, n)
  PROVE  \A k \in 0 .. n : f[k] \in Int
<1> DEFINE S == {k \in 0 .. n : f[k] \in Int}
<1>1. 0 \in S
  BY DEF Partials
<1>2. ASSUME NEW k \in 0 .. n, k < n /\ k \in S PROVE k + 1 \in S
  <2>1. k + 1 \in 1 .. n /\ k + 1 \in 0 .. n /\ (k + 1) - 1 = k
    BY <1>2
  <2>2. f[k + 1] = f[k] + s[k + 1] /\ s[k + 1] \in Int /\ f[k] \in Int
    BY <1>2, <2>1 DEF Partials
  <2> QED
    BY <2>1, <2>2
<1> HIDE DEF S
<1>3. 0 .. n \subseteq S
  BY <1>1, <1>2, InductionUpTo
<1> QED
  BY <1>3 DEF S

LEMMA PartialsGrow ==
  ASSUME NEW n \in Nat, NEW s, \A k \in 1 .. n : s[k] \in Nat,
         NEW f, Partials(f, s, n)
  PROVE  /\ \A k \in 0 .. n : f[k] \in Nat
         /\ \A j, k \in 0 .. n : j <= k => f[j] <= f[k]
<1> DEFINE S == {k \in 0 .. n : f[k] \in Nat /\ \A j \in 0 .. k : f[j] <= f[k]}
<1>1. 0 \in S
  <2>1. \A j \in 0 .. 0 : j = 0
    OBVIOUS
  <2>2. f[0] = 0 /\ 0 \in 0 .. n
    BY DEF Partials
  <2> QED
    BY <2>1, <2>2
<1>2. ASSUME NEW k \in 0 .. n, k < n /\ k \in S PROVE k + 1 \in S
  <2>1. k + 1 \in 1 .. n /\ k + 1 \in 0 .. n /\ (k + 1) - 1 = k
    BY <1>2
  <2>2. f[k + 1] = f[k] + s[k + 1] /\ s[k + 1] \in Nat /\ f[k] \in Nat
    BY <1>2, <2>1 DEF Partials
  <2>3. f[k + 1] \in Nat /\ f[k] <= f[k + 1]
    BY <2>2
  <2>4. ASSUME NEW j \in 0 .. k + 1 PROVE f[j] <= f[k + 1]
    <3>1. CASE j = k + 1
      BY <2>3, <3>1
    <3>2. CASE j # k + 1
      <4> DEFINE a == f[j]  b == f[k]  c == f[k + 1]
      <4>1. j \in 0 .. k
        BY <3>2
      <4>2. b \in Nat /\ c \in Nat /\ b <= c
        BY <2>2, <2>3
      <4>3. a <= b
        BY <1>2, <4>1
      <4>4. a \in Int
        <5>1. \A i \in 1 .. n : s[i] \in Int
          OBVIOUS
        <5>2. j \in 0 .. n
          BY <1>2, <4>1
        <5> QED
          BY <5>1, <5>2, PartialsType
      <4> HIDE DEF a, b, c
      <4>5. a <= c
        BY <4>2, <4>3, <4>4
      <4> QED
        BY <4>5 DEF a, c
    <3> QED
      BY <3>1, <3>2
  <2> QED
    BY <2>1, <2>3, <2>4
<1> HIDE DEF S
<1>3. 0 .. n \subseteq S
  BY <1>1, <1>2, InductionUpTo
<1>4. ASSUME NEW j \in 0 .. n, NEW k \in 0 .. n, j <= k PROVE f[j] <= f[k]
  <2>1. k \in S /\ j \in 0 .. k
    BY <1>3, <1>4
  <2> QED
    BY <2>1 DEF S
<1>5. \A k \in 0 .. n : f[k] \in Nat
  BY <1>3 DEF S
<1> QED
  BY <1>4, <1>5

----------------------------------------------------------------------------
(***************************************************************************)
(* The lemmas about Total that other modules cite.  Sequences are given by *)
(* their elements:                                                         *)
(*   Ints, Nats           n integers, n naturals                           *)
(*   Combination          a times one sequence plus b times another        *)
(*   Joined               one sequence after another                       *)
(*   Single               c at i, 0 elsewhere                              *)
(*   Thinned              some elements of another sequence, in order      *)
(***************************************************************************)
Ints(s, n) == n \in Nat /\ DOMAIN s = 1 .. n /\ \A k \in 1 .. n : s[k] \in Int

Nats(s, n) == n \in Nat /\ DOMAIN s = 1 .. n /\ \A k \in 1 .. n : s[k] \in Nat

Combination(t, a, r, b, s, n) ==
  DOMAIN t = 1 .. n /\ \A k \in 1 .. n : t[k] = a * r[k] + b * s[k]

Joined(t, r, m, s, n) ==
  /\ DOMAIN t = 1 .. m + n
  /\ \A k \in 1 .. m : t[k] = r[k]
  /\ \A k \in 1 .. n : t[m + k] = s[k]

Single(s, i, c, n) ==
  /\ n \in Nat /\ i \in 1 .. n
  /\ DOMAIN s = 1 .. n /\ \A k \in 1 .. n : s[k] = IF k = i THEN c ELSE 0

Thinned(r, m, s, n) ==
  /\ m \in Nat /\ DOMAIN r = 1 .. m
  /\ \E f \in [1 .. m -> 1 .. n] :
       /\ \A j, k \in 1 .. m : j < k => f[j] < f[k]
       /\ \A k \in 1 .. m : r[k] = s[f[k]]

LEMMA TotalEmpty == Total(<<>>) = 0
<1>1. DOMAIN <<>> = 1 .. 0
  OBVIOUS
<1>2. PICK f : Partials(f, <<>>, 0) /\ Total(<<>>) = f[0]
  BY <1>1, TotalPartials
<1> QED
  BY <1>2 DEF Partials

LEMMA TotalInt ==
  ASSUME NEW n, NEW s, Ints(s, n) PROVE Total(s) \in Int
<1> USE DEF Ints
<1>1. PICK f : Partials(f, s, n) /\ Total(s) = f[n]
  BY TotalPartials
<1>2. n \in 0 .. n
  OBVIOUS
<1> QED
  BY <1>1, <1>2, PartialsType

\* No summand of naturals exceeds the sum.
LEMMA TotalNat ==
  ASSUME NEW n, NEW s, Nats(s, n)
  PROVE  Total(s) \in Nat /\ \A k \in 1 .. n : s[k] <= Total(s)
<1> USE DEF Nats
<1>1. PICK f : Partials(f, s, n) /\ Total(s) = f[n]
  BY TotalPartials
<1>2. /\ \A k \in 0 .. n : f[k] \in Nat
      /\ \A j, k \in 0 .. n : j <= k => f[j] <= f[k]
  BY <1>1, PartialsGrow
<1>3. ASSUME NEW k \in 1 .. n PROVE s[k] <= f[n]
  <2>1. k \in 0 .. n /\ k - 1 \in 0 .. n /\ n \in 0 .. n /\ k <= n
    OBVIOUS
  <2>2. f[k] = f[k - 1] + s[k]
    BY <1>1 DEF Partials
  <2>3. f[k] \in Nat /\ f[k - 1] \in Nat /\ f[n] \in Nat /\ f[k] <= f[n] /\ s[k] \in Nat
    BY <1>2, <2>1
  <2> QED
    BY <2>2, <2>3
<1>4. n \in 0 .. n
  OBVIOUS
<1> QED
  BY <1>1, <1>2, <1>3, <1>4

\* Sums are linear.
LEMMA TotalLinear ==
  ASSUME NEW n, NEW a \in Int, NEW b \in Int, NEW r, NEW s, NEW t,
         Ints(r, n), Ints(s, n), Combination(t, a, r, b, s, n)
  PROVE  Total(t) = a * Total(r) + b * Total(s)
<1>0. /\ n \in Nat
      /\ DOMAIN r = 1 .. n /\ \A k \in 1 .. n : r[k] \in Int
      /\ DOMAIN s = 1 .. n /\ \A k \in 1 .. n : s[k] \in Int
      /\ DOMAIN t = 1 .. n /\ \A k \in 1 .. n : t[k] = a * r[k] + b * s[k]
  BY DEF Ints, Combination
<1> USE <1>0
<1>1. PICK f : Partials(f, r, n) /\ Total(r) = f[n]
  BY TotalPartials
<1>2. PICK g : Partials(g, s, n) /\ Total(s) = g[n]
  BY TotalPartials
<1>3. PICK h : Partials(h, t, n) /\ Total(t) = h[n]
  BY TotalPartials
<1>4. \A k \in 0 .. n : f[k] \in Int /\ g[k] \in Int
  BY <1>1, <1>2, PartialsType
<1> DEFINE S == {k \in 0 .. n : h[k] = a * f[k] + b * g[k]}
<1>5. 0 \in S
  <2>1. h[0] = 0 /\ f[0] = 0 /\ g[0] = 0
    BY <1>1, <1>2, <1>3 DEF Partials
  <2> QED
    BY <2>1
<1>6. ASSUME NEW k \in 0 .. n, k < n /\ k \in S PROVE k + 1 \in S
  <2>1. k + 1 \in 1 .. n /\ k + 1 \in 0 .. n /\ (k + 1) - 1 = k
    BY <1>6
  <2> DEFINE x == f[k]  y == g[k]  u == r[k + 1]  v == s[k + 1]
  <2>2. /\ f[k + 1] = x + u /\ g[k + 1] = y + v
        /\ h[k + 1] = h[k] + t[k + 1] /\ t[k + 1] = a * u + b * v
        /\ h[k] = a * x + b * y
    BY <1>1, <1>2, <1>3, <1>6, <2>1 DEF Partials
  <2>3. x \in Int /\ y \in Int /\ u \in Int /\ v \in Int
    BY <1>4, <2>1
  <2> HIDE DEF x, y, u, v
  <2>4. (a * x + b * y) + (a * u + b * v) = a * (x + u) + b * (y + v)
    BY <2>3
  <2>5. h[k + 1] = a * f[k + 1] + b * g[k + 1]
    BY <2>2, <2>4
  <2> QED
    BY <2>1, <2>5
<1>7. 0 .. n \subseteq S
  <2> HIDE DEF S
  <2> QED
    BY ONLY <1>0, <1>5, <1>6, InductionUpTo
<1>8. n \in 0 .. n
  OBVIOUS
<1>9. h[n] = a * f[n] + b * g[n]
  BY ONLY <1>7, <1>8 DEF S
<1> QED
  BY <1>1, <1>2, <1>3, <1>9

\* A sum of n equal numbers.
LEMMA TotalConstant ==
  ASSUME NEW n \in Nat, NEW c \in Int,
         NEW s, DOMAIN s = 1 .. n, \A k \in 1 .. n : s[k] = c
  PROVE  Total(s) = n * c
<1>1. PICK f : Partials(f, s, n) /\ Total(s) = f[n]
  BY TotalPartials
<1> DEFINE S == {k \in 0 .. n : f[k] = k * c}
<1>2. 0 \in S
  BY <1>1 DEF Partials
<1>3. ASSUME NEW k \in 0 .. n, k < n /\ k \in S PROVE k + 1 \in S
  <2>1. k + 1 \in 1 .. n /\ k + 1 \in 0 .. n /\ (k + 1) - 1 = k /\ k \in Int
    BY <1>3
  <2>2. f[k + 1] = k * c + c
    BY <1>1, <1>3, <2>1 DEF Partials
  <2>3. k * c + c = (k + 1) * c
    BY <2>1
  <2> QED
    BY <2>1, <2>2, <2>3
<1> HIDE DEF S
<1>4. 0 .. n \subseteq S /\ n \in 0 .. n
  BY <1>2, <1>3, InductionUpTo
<1> QED
  BY <1>1, <1>4 DEF S

\* A sum with one term that is not zero.
LEMMA TotalOfOne ==
  ASSUME NEW n, NEW i, NEW c \in Int, NEW s, Single(s, i, c, n)
  PROVE  Total(s) = c
<1> USE DEF Single
<1>1. PICK f : Partials(f, s, n) /\ Total(s) = f[n]
  BY TotalPartials
<1> DEFINE S == {k \in 0 .. n : f[k] = IF k < i THEN 0 ELSE c}
<1>2. 0 \in S
  BY <1>1 DEF Partials
<1>3. ASSUME NEW k \in 0 .. n, k < n /\ k \in S PROVE k + 1 \in S
  <2>1. k + 1 \in 1 .. n /\ k + 1 \in 0 .. n /\ (k + 1) - 1 = k /\ k \in Int
    BY <1>3
  <2>2. f[k + 1] = f[k] + s[k + 1]
    BY <1>1, <2>1 DEF Partials
  <2>3. f[k] = IF k < i THEN 0 ELSE c
    BY <1>3
  <2>4. s[k + 1] = IF k + 1 = i THEN c ELSE 0
    BY <2>1
  <2>5. f[k + 1] = IF k + 1 < i THEN 0 ELSE c
    BY <2>1, <2>2, <2>3, <2>4
  <2> QED
    BY <2>1, <2>5
<1> HIDE DEF S
<1>4. 0 .. n \subseteq S /\ n \in 0 .. n /\ ~(n < i)
  BY <1>2, <1>3, InductionUpTo
<1> QED
  BY <1>1, <1>4 DEF S

\* The sum of one sequence after another.
LEMMA TotalJoined ==
  ASSUME NEW m, NEW n, NEW r, NEW s, NEW t,
         Ints(r, m), Ints(s, n), Joined(t, r, m, s, n)
  PROVE  Total(t) = Total(r) + Total(s)
<1>1. /\ m \in Nat /\ DOMAIN r = 1 .. m /\ \A k \in 1 .. m : r[k] \in Int
      /\ n \in Nat /\ DOMAIN s = 1 .. n /\ \A k \in 1 .. n : s[k] \in Int
  BY DEF Ints
<1>2. /\ DOMAIN t = 1 .. m + n
      /\ \A k \in 1 .. m : t[k] = r[k]
      /\ \A k \in 1 .. n : t[m + k] = s[k]
  BY DEF Joined
<1>3. PICK f : Partials(f, r, m) /\ Total(r) = f[m]
  BY <1>1, TotalPartials
<1>4. PICK g : Partials(g, s, n) /\ Total(s) = g[n]
  BY <1>1, TotalPartials
<1>5. m + n \in Nat
  BY <1>1
<1>6. PICK h : Partials(h, t, m + n) /\ Total(t) = h[m + n]
  BY <1>2, <1>5, TotalPartials
<1>7. /\ \A k \in 0 .. m : f[k] \in Int
      /\ \A k \in 0 .. n : g[k] \in Int
  BY <1>1, <1>3, <1>4, PartialsType
<1> DEFINE S == {k \in 0 .. m : h[k] = f[k]}
           T == {k \in 0 .. n : h[m + k] = f[m] + g[k]}
<1>8. 0 .. m \subseteq S
  <2>1. 0 \in S
    BY <1>1, <1>3, <1>6 DEF Partials
  <2>2. ASSUME NEW k \in 0 .. m, k < m /\ k \in S PROVE k + 1 \in S
    <3>1. k + 1 \in 1 .. m /\ k + 1 \in 1 .. m + n /\ k + 1 \in 0 .. m /\ (k + 1) - 1 = k
      BY <1>1, <2>2
    <3>2. h[k + 1] = h[k] + t[k + 1] /\ f[k + 1] = f[k] + r[k + 1]
      BY <1>3, <1>6, <3>1 DEF Partials
    <3> QED
      BY <1>2, <2>2, <3>1, <3>2
  <2> HIDE DEF S
  <2> QED
    BY <1>1, <2>1, <2>2, InductionUpTo
<1>9. 0 .. n \subseteq T
  <2>1. 0 \in T
    <3>1. m \in 0 .. m /\ m + 0 = m /\ 0 \in 0 .. n
      BY <1>1
    <3>2. h[m] = f[m] /\ g[0] = 0 /\ f[m] \in Int
      BY <1>4, <1>7, <1>8, <3>1 DEF Partials
    <3> QED
      BY <3>1, <3>2
  <2>2. ASSUME NEW k \in 0 .. n, k < n /\ k \in T PROVE k + 1 \in T
    <3>1. /\ k + 1 \in 1 .. n /\ k + 1 \in 0 .. n /\ (k + 1) - 1 = k
          /\ m + (k + 1) \in 1 .. m + n /\ (m + (k + 1)) - 1 = m + k
          /\ m \in 0 .. m
      BY <1>1, <2>2
    <3>2. h[m + (k + 1)] = h[m + k] + t[m + (k + 1)] /\ g[k + 1] = g[k] + s[k + 1]
      BY <1>4, <1>6, <3>1 DEF Partials
    <3>3. h[m + k] = f[m] + g[k] /\ t[m + (k + 1)] = s[k + 1]
      BY <1>2, <2>2, <3>1
    <3>4. f[m] \in Int /\ g[k] \in Int /\ s[k + 1] \in Int
      BY <1>1, <1>7, <3>1
    <3>5. h[m + (k + 1)] = f[m] + g[k + 1]
      BY <3>2, <3>3, <3>4
    <3> QED
      BY <3>1, <3>5
  <2> HIDE DEF T
  <2> QED
    BY <1>1, <2>1, <2>2, InductionUpTo
<1>10. n \in 0 .. n
  BY <1>1
<1>11. h[m + n] = f[m] + g[n]
  BY <1>9, <1>10
<1> QED
  BY <1>3, <1>4, <1>6, <1>11

\* Leaving out some of the naturals in a sum does not increase it.
LEMMA TotalOfSelection ==
  ASSUME NEW m, NEW n, NEW r, NEW s, Nats(s, n), Thinned(r, m, s, n)
  PROVE  Total(r) <= Total(s)
<1> SUFFICES ASSUME m \in Nat, n \in Nat,
                    DOMAIN s = 1 .. n, \A k \in 1 .. n : s[k] \in Nat,
                    DOMAIN r = 1 .. m,
                    NEW f \in [1 .. m -> 1 .. n],
                    \A j, k \in 1 .. m : j < k => f[j] < f[k],
                    \A k \in 1 .. m : r[k] = s[f[k]]
             PROVE  Total(r) <= Total(s)
  BY DEF Nats, Thinned
<1>1. PICK g : Partials(g, s, n) /\ Total(s) = g[n]
  BY TotalPartials
<1>2. PICK h : Partials(h, r, m) /\ Total(r) = h[m]
  BY TotalPartials
<1>3. \A k \in 1 .. m : f[k] \in 1 .. n /\ r[k] \in Nat
  OBVIOUS
<1>4. /\ \A k \in 0 .. n : g[k] \in Nat
      /\ \A j, k \in 0 .. n : j <= k => g[j] <= g[k]
  BY <1>1, PartialsGrow
<1>5. \A k \in 0 .. m : h[k] \in Nat
  BY <1>2, <1>3, PartialsGrow
<1> DEFINE last(k) == IF k = 0 THEN 0 ELSE f[k]
           S == {k \in 0 .. m : h[k] <= g[last(k)]}
<1>6. 0 \in S
  BY <1>1, <1>2 DEF Partials
<1>7. ASSUME NEW k \in 0 .. m, k < m /\ k \in S PROVE k + 1 \in S
  <2> DEFINE i == last(k)  j == f[k + 1]
  <2>1. k + 1 \in 1 .. m /\ k + 1 \in 0 .. m /\ (k + 1) - 1 = k /\ k + 1 # 0
    BY <1>7
  <2>2. j \in 1 .. n /\ i \in 0 .. n /\ i <= j - 1
    <3>1. j \in 1 .. n
      BY <1>3, <2>1
    <3>2. CASE k = 0
      BY <3>1, <3>2
    <3>3. CASE k # 0
      <4>1. k \in 1 .. m /\ k < k + 1
        BY <3>3
      <4>2. f[k] \in 1 .. n /\ f[k] < f[k + 1]
        BY <1>3, <2>1, <4>1
      <4> QED
        BY <3>1, <3>3, <4>2
    <3> QED
      BY <3>2, <3>3
  <2> HIDE DEF i, j
  <2>3. g[j] = g[j - 1] + s[j] /\ j - 1 \in 0 .. n /\ s[j] \in Nat
    BY <1>1, <2>2 DEF Partials
  <2>4. h[k + 1] = h[k] + s[j]
    BY <1>2, <2>1 DEF Partials, j
  <2>5. h[k] <= g[i]
    BY <1>7 DEF i
  <2>6. g[i] <= g[j - 1]
    BY <1>4, <2>2, <2>3
  <2>7. h[k] \in Nat /\ g[i] \in Nat /\ g[j - 1] \in Nat
    BY <1>4, <1>5, <2>2, <2>3
  <2>8. h[k + 1] <= g[j]
    <3>1. \A x, y, z, v \in Nat : x <= y /\ y <= z => x + v <= z + v
      OBVIOUS
    <3>2. h[k] + s[j] <= g[j - 1] + s[j]
      BY ONLY <2>3, <2>5, <2>6, <2>7, <3>1
    <3> QED
      BY ONLY <2>3, <2>4, <3>2
  <2> QED
    BY <2>1, <2>8 DEF j
<1>8. last(m) \in 0 .. n
  <2>1. m = 0 \/ m \in 1 .. m
    OBVIOUS
  <2> QED
    BY <1>3, <2>1
<1>9. m \in 0 .. m /\ n \in 0 .. n /\ last(m) <= n
  BY <1>8
<1> HIDE DEF S, last
<1>10. 0 .. m \subseteq S
  BY <1>6, <1>7, InductionUpTo
<1>11. h[m] <= g[last(m)]
  BY <1>9, <1>10 DEF S
<1>12. g[last(m)] <= g[n] /\ g[last(m)] \in Nat /\ g[n] \in Nat /\ h[m] \in Nat
  BY <1>4, <1>5, <1>8, <1>9
<1> QED
  BY <1>1, <1>2, <1>11, <1>12
=============================================================================
