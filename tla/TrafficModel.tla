----------------------------- MODULE TrafficModel -----------------------------
(***************************************************************************)
(* The local traffic model of an agent (Antnet::update_traffic): for every *)
(* destination a window of trip times, their exponential mean and          *)
(* variance, the best of them, and the reinforcement factor they give.     *)
(* The code is compiled and not called: r_factor_ is used instead of r.    *)
(*                                                                         *)
(* Times are integers, means and variances exact fractions.                *)
(***************************************************************************)
EXTENDS Integers, Sequences, FiniteSets, FiniteSetsExt, Functions

CONSTANTS
  Dest,            \* destinations an ant may have gone on to
  VarNum, VarDen,  \* VARSIGMA
  C1, C2, CDen,    \* c1 and c2, over a common denominator
  Zee,             \* zee
  TripTime,        \* trip times of ants
  Deviation,       \* bound: values of sigma / sqrt(w), when it is not zero
  MaxSamples       \* bound: samples of a destination

ASSUME SmoothingAssumption ==
  VarNum \in Nat /\ VarDen \in Nat \ {0} /\ VarNum <= VarDen
ASSUME WeightAssumption ==
  C1 \in Nat /\ C2 \in Nat /\ CDen \in Nat \ {0} /\ C1 + C2 <= CDen
ASSUME DeviationAssumption == Zee \in Nat \ {0} /\ Deviation \subseteq Nat \ {0}
ASSUME TripTimeAssumption == TripTime \subseteq Nat

Fraction == [num : Nat, den : Nat]
Traffic  == [mean : Fraction, var : Fraction, best : Nat]
NoTraffic == [mean |-> [num |-> 0, den |-> 1], var |-> [num |-> 0, den |-> 1], best |-> 0]

VARIABLES
  window,      \* window_: trip times per destination
  state,       \* state_: an entry counts where the window has one
  r            \* the factor computed last

tvars == <<window, state, r>>

Whole(n) == [num |-> n, den |-> 1]

TrafficInit ==
  /\ window = [d \in Dest |-> <<>>]
  /\ state = [d \in Dest |-> NoTraffic]
  /\ r = Whole(0)

----------------------------------------------------------------------------
SmoothedAdded(old, tt) ==       \* mutant: the sample is added, not the difference
  [num |-> VarDen * old.num + VarNum * tt * old.den, den |-> VarDen * old.den]

\* oldtt + varsigma * (tt - oldtt)
Smoothed(old, tt) ==
  [num |-> VarDen * old.num + VarNum * (tt * old.den - old.num),
   den |-> VarDen * old.den]

SpreadOfSquares(old, mean, tt) ==  \* mutant: the old variance is taken off whole
  LET diff == tt * mean.den - mean.num
  IN  [num |-> VarNum * (diff * diff * old.den * old.den - old.num * old.num * mean.den * mean.den),
       den |-> VarDen * old.den * old.den * mean.den * mean.den]

\* oldvar*oldvar + varsigma * ((tt - oldtt)*(tt - oldtt) - oldvar*oldvar): the
\* code squares the variance it has stored.
Spread(old, mean, tt) ==
  LET diff == tt * mean.den - mean.num
      o2 == old.num * old.num * mean.den * mean.den
      d2 == diff * diff * old.den * old.den
  IN  [num |-> VarDen * o2 + VarNum * (d2 - o2),
       den |-> VarDen * old.den * old.den * mean.den * mean.den]

\* The entry of a destination after its window has become w.
Observed(old, w, tt) ==
  LET best == Min(Range(w))
  IN  IF Len(w) = 1
        THEN [mean |-> Whole(tt), var |-> Whole(tt), best |-> best]
        ELSE [mean |-> Smoothed(old.mean, tt),
              var |-> Spread(old.var, old.mean, tt), best |-> best]

ReinforcementOfMean(s, tt, dev) ==  \* mutant: the mean in place of the best
  LET sup  == s.mean.num + Zee * dev * s.mean.den - s.best * s.mean.den
      over == (tt - s.best) * s.mean.den
  IN  IF sup = 0 /\ over = 0 THEN Whole(0)
      ELSE [num |-> C1 * s.mean.num * (sup + over) + C2 * sup * tt * s.mean.den,
            den |-> CDen * tt * (sup + over) * s.mean.den]

\* c1*(W_best/tt) + c2*((I_sup - I_inf) / ((I_sup - I_inf) + (tt - I_inf))),
\* where I_sup = mu + zee * dev and I_inf = W_best; no value if den is 0.
Reinforcement(s, tt, dev) ==
  LET sup  == s.mean.num + Zee * dev * s.mean.den - s.best * s.mean.den
      over == (tt - s.best) * s.mean.den
  IN  IF sup = 0 /\ over = 0 THEN Whole(0)
      ELSE [num |-> C1 * s.best * (sup + over) + C2 * sup * tt,
            den |-> CDen * tt * (sup + over)]

Deviations(s) == IF s.var.num = 0 THEN {0} ELSE Deviation

\* update_traffic: path holds the destinations after this node with their
\* trip times from here.  All windows are extended, then all entries updated,
\* then r is computed for one after the other: the last value stays.
Path == {p \in UNION {[1 .. k -> Dest \X TripTime] : k \in 1 .. Cardinality(Dest)} :
           \A i, j \in DOMAIN p : i < j => p[i][1] # p[j][1] /\ p[i][2] <= p[j][2]}

UpdateTraffic(path) ==
  LET ttTo == [d \in {path[i][1] : i \in DOMAIN path} |->
                 path[CHOOSE i \in DOMAIN path : path[i][1] = d][2]]
      end  == path[Len(path)][1]
  IN  /\ \A d \in DOMAIN ttTo : Len(window[d]) < MaxSamples
      /\ window' = [d \in Dest |-> IF d \in DOMAIN ttTo
                                     THEN Append(window[d], ttTo[d]) ELSE window[d]]
      /\ state' = [d \in Dest |-> IF d \in DOMAIN ttTo
                                    THEN Observed(state[d], window'[d], ttTo[d])
                                    ELSE state[d]]
      /\ \E dev \in Deviations(state'[end]) :
           r' = Reinforcement(state'[end], ttTo[end], dev)

TrafficNext == \E path \in Path : UpdateTraffic(path)

TrafficSpec == TrafficInit /\ [][TrafficNext]_tvars

----------------------------------------------------------------------------
(* Type invariant of update_traffic.  It says that no variance is ever     *)
(* negative, of which the code takes the square root, and that window_ and *)
(* state_ have the same destinations.                                      *)
TrafficTypeOK ==
  /\ window \in [Dest -> Seq(TripTime)]
  /\ state \in [Dest -> Traffic]
  /\ r \in Fraction
  /\ \A d \in Dest : /\ state[d].mean.den # 0 /\ state[d].var.den # 0
                      /\ window[d] = <<>> => state[d] = NoTraffic

\* n is at most f, at least f.
AtMost(n, f)  == n * f.den <= f.num
AtLeast(n, f) == n * f.den >= f.num

(* The best trip time is one of the window, none is better, and the mean   *)
(* lies between the best and the worst of them.  It would fail if old      *)
(* samples left the window, as WIN_LEN suggests, but not the mean.         *)
MeanBetweenSamples ==
  \A d \in Dest : window[d] # <<>> =>
    /\ state[d].best \in Range(window[d])
    /\ AtMost(state[d].best, state[d].mean)
    /\ \E tt \in Range(window[d]) : AtLeast(tt, state[d].mean)
    /\ \A tt \in Range(window[d]) : state[d].best <= tt

(* r is a probability, as reinforce_pheromone needs it, unless 0/0 has     *)
(* been computed, which needs a trip that took no time.                    *)
ReinforcementInUnit ==
  IF r.den = 0 THEN \E d \in Dest : 0 \in Range(window[d])
               ELSE r.num <= r.den
=============================================================================
