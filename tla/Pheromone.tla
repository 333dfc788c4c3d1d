----------------------------- MODULE Pheromone -----------------------------
(***************************************************************************)
(* One destination's row of a routing table (antnet_rtable.cc) and the     *)
(* arithmetic of antnet_math.h.  A row is the pheromone_matrix of the code:*)
(* a sequence of links, each with its pheromone value.  The value is the   *)
(* rational num / den with one denominator for the whole row, and the      *)
(* reinforcement factor r_factor_ is RNum / RDen, so the model computes    *)
(* exactly what the code computes in doubles.                              *)
(***************************************************************************)
EXTENDS SequenceSums

CONSTANTS RNum, RDen        \* r_factor_ = RNum / RDen, in [0,1]

ASSUME RAssumption == RNum \in Nat /\ RDen \in Nat \ {0} /\ RNum <= RDen

\* ALPHA = 0.45 = 9/20
AlphaNum == 9
AlphaDen == 20

\* What rt_.find returns for a destination without a row.
NoRow == [den |-> 1, link |-> <<>>]

Neighbors(row) == {row.link[k].neighbor : k \in DOMAIN row.link}

(***************************************************************************)
(* add_entry for every neighbour in turn, with pheromone 1/num_nb: entries *)
(* are appended, whether the row has links already or not.                 *)
(***************************************************************************)
AddEntries(row, nbs) ==
  LET n   == Len(nbs)
      old == [k \in DOMAIN row.link |-> [row.link[k] EXCEPT !.num = @ * n]]
      new == [k \in 1..n |-> [neighbor |-> nbs[k], num |-> row.den]]
  IN  [den |-> row.den * n, link |-> old \o new]

ReinforceUnscaled(num, den) ==  \* mutant: old + r in place of old + r*(1 - old)
  num * RDen + RNum * den

(***************************************************************************)
(* update: reinforce_pheromone on the links to next, evaporate_pheromone   *)
(* on the others.  The new values are over den * RDen.                     *)
(***************************************************************************)
Reinforce(num, den) == num * RDen + RNum * (den - num)

EvaporateNothing(num) ==        \* mutant: only the travelled link is updated
  num * RDen

Evaporate(num) == (RDen - RNum) * num

UpdateRow(row, next) ==
  IF row.link = <<>> THEN row
  ELSE [den  |-> row.den * RDen,
        link |-> [k \in DOMAIN row.link |->
                   [row.link[k] EXCEPT !.num =
                      IF row.link[k].neighbor = next
                        THEN Reinforce(@, row.den) ELSE Evaporate(@)]]]

(***************************************************************************)
(* calc_next.  q gives the length of the queue towards each neighbour, read*)
(* at the time of the call.  LinkWeight is link_probability without its    *)
(* denominator, which is positive and the same for all links of a row:     *)
(*   link_probability = LinkWeight / (den * Q * (AlphaDen + AlphaNum*(N-1)))*)
(* with Q the total queue length, N the number of neighbours.              *)
(***************************************************************************)
SumOver(row, f(_)) == Total([k \in DOMAIN row.link |-> f(row.link[k])])

TotalQueueShifted(row, q) ==    \* mutant: always adds one to avoid a zero
  1 + SumOver(row, LAMBDA link : q[link.neighbor])

TotalQueue(row, q) ==
  LET sum == SumOver(row, LAMBDA link : q[link.neighbor])
  IN  IF sum = 0 THEN 1 ELSE sum

LinkWeightRaw(row, q, k) ==     \* mutant: the raw pheromone is sampled
  row.link[k].num

LinkWeightQueue(row, q, k) ==   \* mutant: only the queues are looked at
  AlphaNum * row.den * (TotalQueue(row, q) - q[row.link[k].neighbor])

LinkWeight(row, q, k) ==
  LET Q == TotalQueue(row, q)
  IN  AlphaDen * Q * row.link[k].num
        + AlphaNum * row.den * (Q - q[row.link[k].neighbor])

\* The links the loop of calc_next considers, and those of them it can
\* return: a link with some probability, or the last one, which gets the
\* residue that rounding leaves.
Candidates(row, parent) == {k \in DOMAIN row.link : row.link[k].neighbor # parent}

CalcNext(row, parent, q) ==
  LET cand == Candidates(row, parent)
      open == {k \in cand : LinkWeight(row, q, k) > 0}
  IN  IF open = {} THEN {parent}
      ELSE {row.link[k].neighbor :
              k \in {c \in cand : c \in open \/ \A j \in cand : j <= c}}
=============================================================================
