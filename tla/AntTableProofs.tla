--------------------------- MODULE AntTableProofs ---------------------------
(***************************************************************************)
(* Theorems about the routing tables of AntNet: which links can be         *)
(* selected, which are preferred, and how much pheromone a row holds.      *)
(***************************************************************************)
EXTENDS AntNetProofs, SumProofs

----------------------------------------------------------------------------
(* The links of a row after an operation. *)

\* update: the same links, with new values.
LEMMA UpdatedLinks ==
  ASSUME NEW row \in Row, row.link # <<>>, NEW next
  PROVE  LET new == UpdateRow(row, next)
         IN  /\ new.den = row.den * RDen
             /\ DOMAIN new.link = DOMAIN row.link
             /\ \A k \in DOMAIN row.link :
                  /\ new.link[k].neighbor = row.link[k].neighbor
                  /\ new.link[k].num = IF row.link[k].neighbor = next
                                         THEN Reinforce(row.link[k].num, row.den)
                                         ELSE Evaporate(row.link[k].num)
<1> DEFINE value(k) == IF row.link[k].neighbor = next
                         THEN Reinforce(row.link[k].num, row.den)
                         ELSE Evaporate(row.link[k].num)
           upd == [k \in DOMAIN row.link |->
                    [row.link[k] EXCEPT !.num =
                       IF row.link[k].neighbor = next
                         THEN Reinforce(@, row.den) ELSE Evaporate(@)]]
<1>1. UpdateRow(row, next) = [den |-> row.den * RDen, link |-> upd]
  BY DEF UpdateRow
<1>2. ASSUME NEW k \in DOMAIN row.link
      PROVE  upd[k].neighbor = row.link[k].neighbor /\ upd[k].num = value(k)
  <2>1. row.link[k] \in Link
    BY RowType
  <2>2. upd[k] = [row.link[k] EXCEPT !.num = value(k)]
    OBVIOUS
  <2> HIDE DEF upd, value
  <2>3. upd[k] = [neighbor |-> row.link[k].neighbor, num |-> value(k)]
    BY <2>1, <2>2, LinkType
  <2> QED
    BY <2>3
<1>3. DOMAIN upd = DOMAIN row.link
  OBVIOUS
<1> HIDE DEF upd
<1> QED
  BY <1>1, <1>2, <1>3

\* add_entry: the old links, then one for each neighbour.
LEMMA AddedLinks ==
  ASSUME NEW row \in Row, NEW nbs \in Seq(Node), nbs # <<>>
  PROVE  LET new == AddEntries(row, nbs)
             N   == Len(row.link)
             n   == Len(nbs)
         IN  /\ new.den = row.den * n
             /\ DOMAIN new.link = 1 .. N + n
             /\ \A k \in 1 .. N : /\ new.link[k].neighbor = row.link[k].neighbor
                                  /\ new.link[k].num = row.link[k].num * n
             /\ \A k \in 1 .. n : /\ new.link[N + k].neighbor = nbs[k]
                                  /\ new.link[N + k].num = row.den
<1> DEFINE n   == Len(nbs)
           N   == Len(row.link)
           old == [k \in DOMAIN row.link |-> [row.link[k] EXCEPT !.num = @ * n]]
           new == [k \in 1 .. n |-> [neighbor |-> nbs[k], num |-> row.den]]
           all == old \o new
<1>1. /\ n \in Nat \ {0} /\ DOMAIN nbs = 1 .. n
      /\ \A k \in 1 .. n : nbs[k] \in Node
  BY SeqElim
<1>2. /\ row.den \in Nat \ {0} /\ N \in Nat /\ DOMAIN row.link = 1 .. N
      /\ \A k \in 1 .. N : row.link[k] \in Link
  BY RowType
<1>3. AddEntries(row, nbs) = [den |-> row.den * n, link |-> all]
  BY DEF AddEntries
<1> HIDE DEF n, N
<1>4. ASSUME NEW k \in 1 .. N
      PROVE  /\ old[k] \in Link /\ old[k].neighbor = row.link[k].neighbor
             /\ old[k].num = row.link[k].num * n
  <2>1. row.link[k] \in Link /\ row.link[k].num * n \in Nat
    BY <1>1, <1>2, LinkType
  <2>2. old[k] = [row.link[k] EXCEPT !.num = row.link[k].num * n]
    BY <1>2
  <2> HIDE DEF old
  <2>3. old[k] = [neighbor |-> row.link[k].neighbor, num |-> row.link[k].num * n]
    BY <2>1, <2>2, LinkType
  <2> QED
    BY <2>1, <2>3, LinkType
<1>5. ASSUME NEW k \in 1 .. n
      PROVE  new[k] \in Link /\ new[k].neighbor = nbs[k] /\ new[k].num = row.den
  BY <1>1, <1>2, LinkType
<1>6. old \in Seq(Link) /\ Len(old) = N
  <2>1. old \in [1 .. N -> Link]
    BY <1>2, <1>4
  <2> QED
    BY <2>1, <1>2, SeqIntro
<1>7. new \in Seq(Link) /\ Len(new) = n
  <2>1. new \in [1 .. n -> Link]
    BY <1>5
  <2> QED
    BY <2>1, <1>1, SeqIntro
<1> HIDE DEF old, new
<1>8. /\ all \in Seq(Link) /\ Len(all) = N + n
      /\ \A k \in 1 .. N + n : all[k] = IF k <= N THEN old[k] ELSE new[k - N]
  BY <1>6, <1>7, ConcatElim
<1>9. DOMAIN all = 1 .. N + n
  BY <1>8, SeqElim
<1> HIDE DEF all
<1>10. ASSUME NEW k \in 1 .. N PROVE all[k] = old[k]
  <2>1. k \in 1 .. N + n /\ k <= N
    BY <1>1, <1>2
  <2> QED
    BY <1>8, <2>1
<1>11. ASSUME NEW k \in 1 .. n PROVE all[N + k] = new[k]
  <2>1. N + k \in 1 .. N + n /\ ~(N + k <= N) /\ (N + k) - N = k
    BY <1>1, <1>2
  <2> QED
    BY <1>8, <2>1
<1> DEFINE row1 == AddEntries(row, nbs)
<1>12. row1.den = row.den * n /\ row1.link = all
  BY <1>3
<1> HIDE DEF row1
<1>13. /\ DOMAIN row1.link = 1 .. N + n
       /\ \A k \in 1 .. N : /\ row1.link[k].neighbor = row.link[k].neighbor
                            /\ row1.link[k].num = row.link[k].num * n
       /\ \A k \in 1 .. n : /\ row1.link[N + k].neighbor = nbs[k]
                            /\ row1.link[N + k].num = row.den
  BY <1>4, <1>5, <1>9, <1>10, <1>11, <1>12
<1> QED
  BY <1>12, <1>13 DEF n, N, row1

----------------------------------------------------------------------------
(* Queue lengths and weights. *)

\* TotalQueue is at least 1 and at least the length of every queue.
LEMMA QueueTotal ==
  ASSUME NEW row \in Row, NEW q \in QueueLengths(row)
  PROVE  /\ TotalQueue(row, q) \in Nat \ {0}
         /\ \A k \in DOMAIN row.link :
              /\ q[row.link[k].neighbor] \in Nat
              /\ q[row.link[k].neighbor] <= TotalQueue(row, q)
<1> DEFINE N == Len(row.link)
           s == [k \in DOMAIN row.link |-> q[row.link[k].neighbor]]
<1>1. N \in Nat /\ DOMAIN row.link = 1 .. N
  BY RowType
<1>2. ASSUME NEW k \in DOMAIN row.link PROVE q[row.link[k].neighbor] \in Nat
  <2>1. row.link[k].neighbor \in Neighbors(row)
    BY DEF Neighbors
  <2>2. q \in [Neighbors(row) -> 0 .. MaxQueue] /\ MaxQueue \in Nat
    BY BoundsAssumption DEF QueueLengths
  <2> QED
    BY <2>1, <2>2
<1>3. DOMAIN s = 1 .. N /\ \A k \in 1 .. N : s[k] = q[row.link[k].neighbor] /\ s[k] \in Nat
  BY <1>1, <1>2
<1>4. TotalQueue(row, q) = IF Total(s) = 0 THEN 1 ELSE Total(s)
  BY DEF TotalQueue, SumOver
<1> HIDE DEF s, N
<1>5. Total(s) \in Nat /\ \A k \in 1 .. N : s[k] <= Total(s)
  BY <1>1, <1>3, TotalNat DEF Nats
<1>6. TotalQueue(row, q) \in Nat \ {0} /\ Total(s) <= TotalQueue(row, q)
  BY <1>4, <1>5
<1>7. ASSUME NEW k \in 1 .. N PROVE s[k] <= TotalQueue(row, q)
  BY <1>3, <1>5, <1>6
<1> QED
  BY <1>1, <1>3, <1>6, <1>7

\* The weight of a link is a number, positive if the link has pheromone.
LEMMA WeightType ==
  ASSUME NEW row \in Row, NEW q \in QueueLengths(row), NEW k \in DOMAIN row.link
  PROVE  /\ LinkWeight(row, q, k) \in Nat
         /\ row.link[k].num > 0 => LinkWeight(row, q, k) > 0
<1> DEFINE Q == TotalQueue(row, q)
           l == q[row.link[k].neighbor]
           v == row.link[k].num
           d == row.den
<1>1. Q \in Nat \ {0} /\ l \in Nat /\ l <= Q
  BY QueueTotal
<1>2. v \in Nat /\ d \in Nat \ {0}
  BY RowType, LinkType
<1>3. LinkWeight(row, q, k) = 20 * Q * v + 9 * d * (Q - l)
  BY DEF LinkWeight, AlphaNum, AlphaDen
<1> HIDE DEF Q, l, v, d
<1>4. Q - l \in Nat /\ d * (Q - l) \in Nat /\ Q * v \in Nat /\ (v > 0 => Q * v > 0)
  BY <1>1, <1>2
<1>5. 20 * Q * v = 20 * (Q * v) /\ 9 * d * (Q - l) = 9 * (d * (Q - l))
  BY <1>1, <1>2, <1>4
<1>6. /\ 20 * (Q * v) + 9 * (d * (Q - l)) \in Nat
      /\ v > 0 => 20 * (Q * v) + 9 * (d * (Q - l)) > 0
  BY <1>4
<1> QED
  BY <1>3, <1>5, <1>6 DEF v

(***************************************************************************)
(* ShorterQueuePreferred: of two links with the same pheromone calc_next   *)
(* prefers the one with the shorter queue, for every table that can arise  *)
(* and all lengths of all queues.                                          *)
(***************************************************************************)
THEOREM ShorterQueues == Spec => []ShorterQueuePreferred
<1>1. ASSUME NEW row \in Row, NEW q \in QueueLengths(row),
             NEW j \in DOMAIN row.link, NEW k \in DOMAIN row.link,
             row.link[j].num = row.link[k].num,
             q[row.link[j].neighbor] < q[row.link[k].neighbor]
      PROVE  LinkWeight(row, q, j) > LinkWeight(row, q, k)
  <2> DEFINE Q == TotalQueue(row, q)
             a == q[row.link[j].neighbor]
             b == q[row.link[k].neighbor]
             v == row.link[k].num
             d == row.den
  <2>1. Q \in Nat \ {0} /\ a \in Nat /\ b \in Nat /\ a < b
    BY <1>1, QueueTotal
  <2>2. v \in Nat /\ d \in Nat \ {0}
    BY RowType, LinkType
  <2>3. /\ LinkWeight(row, q, j) = 20 * Q * v + 9 * d * (Q - a)
        /\ LinkWeight(row, q, k) = 20 * Q * v + 9 * d * (Q - b)
    BY <1>1 DEF LinkWeight, AlphaNum, AlphaDen
  <2> HIDE DEF Q, a, b, v, d
  <2>4. d * (Q - a) - d * (Q - b) = d * (b - a) /\ d * (b - a) > 0
    BY <2>1, <2>2
  <2>5. /\ d * (Q - a) \in Int /\ d * (Q - b) \in Int /\ 20 * Q * v \in Int
        /\ 9 * d * (Q - a) = 9 * (d * (Q - a)) /\ 9 * d * (Q - b) = 9 * (d * (Q - b))
    BY <2>1, <2>2
  <2>6. 9 * (d * (Q - a)) > 9 * (d * (Q - b)) /\ d * (b - a) \in Int
    BY <2>1, <2>2, <2>4, <2>5
  <2> QED
    BY <2>3, <2>5, <2>6
<1>2. IInv => ShorterQueuePreferred
  <2> SUFFICES ASSUME IInv, NEW n \in Node, NEW d \in Addr
               PROVE  rt[n][d] \in Row
    BY <1>1 DEF ShorterQueuePreferred
  <2> QED
    BY DEF IInv, TypeOK
<1> QED
  BY <1>2, Invariance, PTL

----------------------------------------------------------------------------
(* What a step does to a table. *)

\* A step leaves a node's table alone, is its start command, or is an update
\* by a backward ant, for a link to one of its neighbours.
LEMMA TableChanges ==
  ASSUME IInv, [Next]_vars, NEW n \in Node
  PROVE  \/ rt'[n] = rt[n] /\ starts'[n] = starts[n]
         \/ Start(n) /\ rt'[n] = InitializedTable(n) /\ starts'[n] = starts[n] + 1
         \/ /\ starts'[n] = starts[n]
            /\ \E p \in net : /\ LinkTravelled(p.mem, n) \in Range(nbr[n])
                              /\ rt'[n] = UpdatedTable(rt[n], p.mem, n)
<1>1. rt \in [Node -> [Addr -> Row]] /\ starts \in [Node -> Nat]
  BY DEF IInv, TypeOK
<1>2. ASSUME NEW m \in Node, Start(m)
      PROVE  \/ rt'[n] = rt[n] /\ starts'[n] = starts[n]
             \/ Start(n) /\ rt'[n] = InitializedTable(n) /\ starts'[n] = starts[n] + 1
  BY <1>1, <1>2 DEF Start
<1>3. ASSUME NEW p \in net, BackwardAnt(p) \/ FinishAnt(p)
      PROVE  \/ rt'[n] = rt[n] /\ starts'[n] = starts[n]
             \/ /\ starts'[n] = starts[n]
                /\ LinkTravelled(p.mem, n) \in Range(nbr[n])
                /\ rt'[n] = UpdatedTable(rt[n], p.mem, n)
  <2>1. /\ rt' = [rt EXCEPT ![p.daddr] = UpdatedTable(@, p.mem, p.daddr)]
        /\ p.dir = "UP" /\ starts' = starts
    BY <1>3 DEF BackwardAnt, FinishAnt
  <2>2. CASE n # p.daddr
    BY <1>1, <2>1, <2>2
  <2>3. CASE n = p.daddr
    <3>1. AntOK(p, nbr) /\ p.mem \in Seq(MemEntry) /\ GoodMemory(p.mem, nbr)
      BY DEF IInv, AntOK, GoodMemory
    <3>2. PICK i \in 1 .. Len(p.mem) - 1 : OnWayBack(p, i)
      BY <2>1, <3>1 DEF AntOK
    <3>3. i \in 1 .. Len(p.mem) /\ n = p.mem[i].node
      BY <2>3, <3>1, <3>2, SeqElim DEF OnWayBack
    <3>4. LinkTravelled(p.mem, n) = p.mem[i + 1].node
      BY <3>1, <3>3, ScansAgree DEF LinkTravelled
    <3>5. LinkTravelled(p.mem, n) \in Range(nbr[n])
      BY <3>1, <3>2, <3>3, <3>4 DEF GoodMemory
    <3> QED
      BY <1>1, <2>1, <2>3, <3>5
  <2> QED
    BY <2>2, <2>3
<1>4. CASE UNCHANGED <<rt, starts>>
  BY <1>4
<1>5. Next \/ UNCHANGED vars
  OBVIOUS
<1>6. CASE UNCHANGED vars
  BY <1>6, <1>4 DEF vars
<1>7. CASE \E m \in Node : Start(m)
  BY <1>2, <1>7
<1>8. CASE \E p \in net : BackwardAnt(p) \/ FinishAnt(p)
  BY <1>3, <1>8
<1>9. ASSUME NEW m \in Node, Stop(m) \/ ExpireTimer(m) PROVE UNCHANGED <<rt, starts>>
  BY <1>9 DEF Stop, ExpireTimer
<1>10. ASSUME NEW link \in LateLinks, AddNeighbor(link[1], link[2])
       PROVE  UNCHANGED <<rt, starts>>
  BY <1>10 DEF AddNeighbor
<1>11. ASSUME NEW p \in net,
              ForwardAnt(p) \/ TurnAnt(p) \/ OverflowAnt(p) \/ DiscardAnt(p) \/ LoseAnt(p)
       PROVE  UNCHANGED <<rt, starts>>
  BY <1>11 DEF ForwardAnt, TurnAnt, OverflowAnt, DiscardAnt, LoseAnt
<1>12. CASE Tick
  BY <1>4, <1>12 DEF Tick
<1> QED
  BY <1>4, <1>5, <1>6, <1>7, <1>8, <1>9, <1>10, <1>11, <1>12 DEF Next, Receive

----------------------------------------------------------------------------
(***************************************************************************)
(* No link dies out.  The invariant: every pheromone value is positive.    *)
(***************************************************************************)
LiveRow(row) == \A k \in DOMAIN row.link : row.link[k].num > 0

LInv == IInv /\ \A n \in Node, d \in Addr : LiveRow(rt[n][d])

LEMMA LiveUpdate ==
  ASSUME RNum < RDen, NEW row \in Row, UnitRow(row), LiveRow(row), NEW next
  PROVE  LiveRow(UpdateRow(row, next))
<1>1. CASE row.link = <<>>
  BY <1>1 DEF UpdateRow
<1>2. CASE row.link # <<>>
  <2> DEFINE new == UpdateRow(row, next)
  <2> SUFFICES ASSUME NEW k \in DOMAIN new.link PROVE new.link[k].num > 0
    BY DEF LiveRow
  <2> DEFINE v == row.link[k].num
             d == row.den
  <2>1. /\ k \in DOMAIN row.link
        /\ new.link[k].num = Reinforce(v, d) \/ new.link[k].num = Evaporate(v)
    BY <1>2, UpdatedLinks
  <2>2. v \in Nat /\ v > 0 /\ v <= d /\ d \in Nat \ {0}
    BY <2>1, RowType, LinkType DEF LiveRow, UnitRow
  <2>3. RNum \in Nat /\ RDen \in Nat /\ RDen - RNum > 0 /\ RDen > 0
    BY RAssumption
  <2> HIDE DEF v, d, new
  <2>4. Evaporate(v) > 0
    BY <2>2, <2>3 DEF Evaporate
  <2>5. Reinforce(v, d) > 0
    <3>1. v * RDen > 0 /\ v * RDen \in Int
      BY <2>2, <2>3
    <3>2. d - v \in Nat /\ RNum * (d - v) \in Nat
      BY <2>2, <2>3
    <3> QED
      BY <3>1, <3>2 DEF Reinforce
  <2> QED
    BY <2>1, <2>4, <2>5 DEF new
<1> QED
  BY <1>1, <1>2

LEMMA LiveAdd ==
  ASSUME NEW row \in Row, LiveRow(row), NEW nbs \in Seq(Node), nbs # <<>>
  PROVE  LiveRow(AddEntries(row, nbs))
<1> DEFINE new == AddEntries(row, nbs)
           N == Len(row.link)
           n == Len(nbs)
<1>1. N \in Nat /\ n \in Nat \ {0} /\ row.den \in Nat \ {0} /\ DOMAIN row.link = 1 .. N
  BY RowType, SeqElim
<1>2. /\ DOMAIN new.link = 1 .. N + n
      /\ \A k \in 1 .. N : new.link[k].num = row.link[k].num * n
      /\ \A k \in 1 .. n : new.link[N + k].num = row.den
  BY AddedLinks
<1>3. \A k \in 1 .. N : row.link[k].num \in Nat /\ row.link[k].num > 0
  BY <1>1, RowType, LinkType DEF LiveRow
<1> HIDE DEF new, N, n
<1>4. ASSUME NEW k \in 1 .. N + n PROVE new.link[k].num > 0
  <2>1. CASE k \in 1 .. N
    <3>1. row.link[k].num \in Nat /\ row.link[k].num > 0
      BY <1>3, <2>1
    <3>2. row.link[k].num * n > 0
      BY <1>1, <3>1
    <3> QED
      BY <1>2, <2>1, <3>2
  <2>2. CASE k \notin 1 .. N
    <3>1. k - N \in 1 .. n /\ N + (k - N) = k
      BY <1>1, <2>2
    <3>2. new.link[N + (k - N)].num = row.den
      BY <1>2, <3>1
    <3> QED
      BY <1>1, <3>1, <3>2
  <2> QED
    BY <2>1, <2>2
<1> QED
  BY <1>2, <1>4 DEF LiveRow, new

LEMMA LInvHolds == ASSUME RNum < RDen PROVE Spec => []LInv
<1>1. Init => LInv
  <2>1. LiveRow(NoRow)
    BY NoRowType DEF LiveRow
  <2> QED
    BY <2>1, InitIInv DEF Init, LInv
<1>2. LInv /\ [Next]_vars => LInv'
  <2> SUFFICES ASSUME LInv, [Next]_vars PROVE LInv'
    OBVIOUS
  <2>1. IInv /\ IInv'
    BY NextIInv DEF LInv
  <2> SUFFICES ASSUME NEW n \in Node, NEW d \in Addr PROVE LiveRow(rt'[n][d])
    BY <2>1 DEF LInv
  <2>2. LiveRow(rt[n][d]) /\ rt[n][d] \in Row /\ UnitRow(rt[n][d]) /\ nbr[n] \in Seq(Node)
    BY <2>1 DEF LInv, IInv, TypeOK, TableOK
  <2>3. CASE rt'[n] = rt[n]
    BY <2>2, <2>3
  <2>4. CASE rt'[n] = InitializedTable(n)
    <3>1. \/ rt'[n][d] = rt[n][d]
          \/ nbr[n] # <<>> /\ rt'[n][d] = AddEntries(rt[n][d], nbr[n])
      BY <2>4 DEF InitializedTable
    <3> QED
      BY <2>2, <3>1, LiveAdd
  <2>5. ASSUME NEW p \in net, rt'[n] = UpdatedTable(rt[n], p.mem, n)
        PROVE  LiveRow(rt'[n][d])
    <3>1. rt'[n][d] = rt[n][d] \/ rt'[n][d] = UpdateRow(rt[n][d], LinkTravelled(p.mem, n))
      BY <2>5 DEF UpdatedTable
    <3> QED
      BY <2>2, <3>1, LiveUpdate
  <2> QED
    BY <2>1, <2>3, <2>4, <2>5, TableChanges
<1> QED
  BY <1>1, <1>2, PTL DEF Spec

(***************************************************************************)
(* EveryLinkStaysSelectable: with r_factor_ < 1, at every node and for     *)
(* every destination, whatever the queues hold, calc_next can return each  *)
(* link but the one the ant came by, and the parent only at a dead end.    *)
(***************************************************************************)
THEOREM EveryLinkStays == ASSUME RNum < RDen PROVE Spec => []EveryLinkStaysSelectable
<1>1. ASSUME NEW row \in Row, LiveRow(row), NEW parent \in Node,
             NEW q \in QueueLengths(row)
      PROVE  CalcNext(row, parent, q) =
               IF Neighbors(row) \ {parent} = {} THEN {parent}
                                                 ELSE Neighbors(row) \ {parent}
  <2> DEFINE cand == Candidates(row, parent)
             open == {k \in cand : LinkWeight(row, q, k) > 0}
  <2>1. open = cand
    BY <1>1, WeightType DEF LiveRow, Candidates
  <2>2. Neighbors(row) \ {parent} = {row.link[k].neighbor : k \in cand}
    BY DEF Neighbors, Candidates
  <2>3. CalcNext(row, parent, q) =
          IF open = {} THEN {parent}
          ELSE {row.link[k].neighbor :
                  k \in {c \in cand : c \in open \/ \A j \in cand : j <= c}}
    BY DEF CalcNext
  <2> HIDE DEF cand, open
  <2>4. {c \in cand : c \in open \/ \A j \in cand : j <= c} = cand
    BY <2>1
  <2>5. cand = {} <=> {row.link[k].neighbor : k \in cand} = {}
    OBVIOUS
  <2> QED
    BY <2>1, <2>2, <2>3, <2>4, <2>5
<1>2. LInv => EveryLinkStaysSelectable
  <2> SUFFICES ASSUME LInv, NEW n \in Node, NEW d \in Addr
               PROVE  rt[n][d] \in Row /\ LiveRow(rt[n][d])
    BY <1>1 DEF EveryLinkStaysSelectable
  <2> QED
    BY DEF LInv, IInv, TypeOK
<1> QED
  BY <1>2, LInvHolds, PTL

----------------------------------------------------------------------------
(***************************************************************************)
(* How much pheromone a row holds.  Count(row, m) is the number of its     *)
(* links to m.                                                             *)
(***************************************************************************)
LinksTo(row, m) ==
  [k \in DOMAIN row.link |-> IF row.link[k].neighbor = m THEN 1 ELSE 0]

Values(row) == [k \in DOMAIN row.link |-> row.link[k].num]

Count(row, m) == Total(LinksTo(row, m))

\* The sequences whose totals these are.
LEMMA RowSums ==
  ASSUME NEW row \in Row, NEW N, N = Len(row.link)
  PROVE  /\ N \in Nat /\ DOMAIN row.link = 1 .. N
         /\ Mass(row) = Total(Values(row)) /\ Mass(row) \in Nat
         /\ DOMAIN Values(row) = 1 .. N
         /\ \A k \in 1 .. N : Values(row)[k] = row.link[k].num /\ Values(row)[k] \in Nat
         /\ \A m : /\ Count(row, m) \in Nat
                  /\ DOMAIN LinksTo(row, m) = 1 .. N
                  /\ \A k \in 1 .. N :
                       /\ LinksTo(row, m)[k] = IF row.link[k].neighbor = m THEN 1 ELSE 0
                       /\ LinksTo(row, m)[k] \in Nat
<1>1. /\ N \in Nat /\ DOMAIN row.link = 1 .. N
      /\ \A k \in 1 .. N : row.link[k] \in Link
  BY RowType
<1>2. /\ DOMAIN Values(row) = 1 .. N
      /\ \A k \in 1 .. N : Values(row)[k] = row.link[k].num /\ Values(row)[k] \in Nat
  BY <1>1, LinkType DEF Values
<1>3. Mass(row) = Total(Values(row))
  BY DEF Mass, SumOver, Values
<1>4. Total(Values(row)) \in Nat
  BY <1>1, <1>2, TotalNat DEF Nats
<1>5. ASSUME NEW m
      PROVE  /\ Count(row, m) \in Nat
             /\ DOMAIN LinksTo(row, m) = 1 .. N
             /\ \A k \in 1 .. N :
                  /\ LinksTo(row, m)[k] = IF row.link[k].neighbor = m THEN 1 ELSE 0
                  /\ LinksTo(row, m)[k] \in Nat
  <2>1. /\ DOMAIN LinksTo(row, m) = 1 .. N
        /\ \A k \in 1 .. N :
             /\ LinksTo(row, m)[k] = IF row.link[k].neighbor = m THEN 1 ELSE 0
             /\ LinksTo(row, m)[k] \in Nat
    BY <1>1 DEF LinksTo
  <2>2. Count(row, m) \in Nat
    BY <1>1, <2>1, TotalNat DEF Count, Nats
  <2> QED
    BY <2>1, <2>2
<1> QED
  BY <1>1, <1>2, <1>3, <1>4, <1>5

\* update: every value loses its share RNum / RDen, and each link to next
\* gains as much of the denominator.
LEMMA MassOfUpdate ==
  ASSUME NEW row \in Row, UnitRow(row), row.link # <<>>, NEW next
  PROVE  LET new == UpdateRow(row, next)
         IN  /\ Mass(new) = (RDen - RNum) * Mass(row) + (RNum * row.den) * Count(row, next)
             /\ \A m : Count(new, m) = Count(row, m)
<1> DEFINE new == UpdateRow(row, next)
           N == Len(row.link)
           a == RDen - RNum
           b == RNum * row.den
<1>1. new \in Row
  BY UpdateRowProperties
<1>2. row.den \in Nat \ {0} /\ a \in Int /\ b \in Int
  BY RowType, RAssumption
<1>3. /\ DOMAIN new.link = DOMAIN row.link
      /\ \A k \in DOMAIN row.link :
           /\ new.link[k].neighbor = row.link[k].neighbor
           /\ new.link[k].num = IF row.link[k].neighbor = next
                                  THEN Reinforce(row.link[k].num, row.den)
                                  ELSE Evaporate(row.link[k].num)
  BY UpdatedLinks
<1> HIDE DEF new
<1>4. Len(new.link) = N
  <2>1. /\ N \in Nat /\ DOMAIN row.link = 1 .. N
        /\ Len(new.link) \in Nat /\ DOMAIN new.link = 1 .. Len(new.link)
    BY <1>1, RowType
  <2> HIDE DEF N
  <2>2. 1 .. Len(new.link) = 1 .. N
    BY <1>3, <2>1
  <2> QED
    BY <2>1, <2>2
<1> HIDE DEF N
<1>5. /\ N \in Nat /\ DOMAIN row.link = 1 .. N
      /\ Mass(row) = Total(Values(row))
      /\ DOMAIN Values(row) = 1 .. N
      /\ \A k \in 1 .. N : Values(row)[k] = row.link[k].num /\ Values(row)[k] \in Nat
      /\ \A m : /\ DOMAIN LinksTo(row, m) = 1 .. N
               /\ \A k \in 1 .. N :
                    /\ LinksTo(row, m)[k] = IF row.link[k].neighbor = m THEN 1 ELSE 0
                    /\ LinksTo(row, m)[k] \in Nat
  BY RowSums DEF N
<1>6. /\ Mass(new) = Total(Values(new))
      /\ DOMAIN Values(new) = 1 .. N
      /\ \A k \in 1 .. N : Values(new)[k] = new.link[k].num
  BY <1>1, <1>4, RowSums
<1>7. ASSUME NEW k \in 1 .. N
      PROVE  Values(new)[k] = a * Values(row)[k] + b * LinksTo(row, next)[k]
  <2> DEFINE v == row.link[k].num
             d == row.den
  <2>1. v \in Nat /\ d \in Nat
    BY <1>2, <1>5
  <2>2. RNum \in Nat /\ RDen \in Nat
    BY RAssumption
  <2>3. Values(row)[k] = v /\ Values(new)[k] = new.link[k].num
    BY <1>5, <1>6
  <2>4. CASE row.link[k].neighbor = next
    <3>1. LinksTo(row, next)[k] = 1 /\ new.link[k].num = v * RDen + RNum * (d - v)
      BY <1>3, <1>5, <2>4 DEF Reinforce
    <3> HIDE DEF v, d
    <3>2. v * RDen + RNum * (d - v) = (RDen - RNum) * v + (RNum * d) * 1
      BY <2>1, <2>2
    <3> QED
      BY <2>3, <3>1, <3>2 DEF a, b, d
  <2>5. CASE row.link[k].neighbor # next
    <3>1. LinksTo(row, next)[k] = 0 /\ new.link[k].num = (RDen - RNum) * v
      BY <1>3, <1>5, <2>5 DEF Evaporate
    <3> HIDE DEF v, d
    <3>2. (RDen - RNum) * v = (RDen - RNum) * v + (RNum * d) * 0
      BY <2>1, <2>2
    <3> QED
      BY <2>3, <3>1, <3>2 DEF a, b, d
  <2> QED
    BY <2>4, <2>5
<1> HIDE DEF a, b
<1>8. Total(Values(new)) = a * Total(Values(row)) + b * Total(LinksTo(row, next))
  <2> DEFINE r == Values(row)  s == LinksTo(row, next)  t == Values(new)
  <2>1. Ints(r, N) /\ Ints(s, N) /\ Combination(t, a, r, b, s, N)
    BY <1>5, <1>6, <1>7 DEF Ints, Combination
  <2> HIDE DEF r, s, t
  <2>2. Total(t) = a * Total(r) + b * Total(s)
    BY <1>2, <2>1, TotalLinear
  <2> QED
    BY <2>2 DEF r, s, t
<1>9. \A m : Count(new, m) = Count(row, m)
  BY <1>3 DEF Count, LinksTo
<1> QED
  BY <1>5, <1>6, <1>8, <1>9 DEF Count, new, a, b

\* add_entry: n times the old values over n times the denominator, and one
\* whole unit for the new links; one link more to each neighbour listed once.
LEMMA MassOfAdd ==
  ASSUME NEW row \in Row, NEW nbs \in Seq(Node), nbs # <<>>,
         \A i, j \in 1 .. Len(nbs) : nbs[i] = nbs[j] => i = j
  PROVE  LET new == AddEntries(row, nbs)
         IN  /\ new.den = row.den * Len(nbs)
             /\ Mass(new) = Len(nbs) * Mass(row) + Len(nbs) * row.den
             /\ \A m \in Range(nbs) : Count(new, m) = Count(row, m) + 1
<1> DEFINE new == AddEntries(row, nbs)
           N == Len(row.link)
           n == Len(nbs)
<1>1. n \in Nat /\ N \in Nat /\ row.den \in Nat /\ DOMAIN nbs = 1 .. n
  BY RowType, SeqElim
<1>2. /\ new.den = row.den * n
      /\ DOMAIN new.link = 1 .. N + n
      /\ \A k \in 1 .. N : /\ new.link[k].neighbor = row.link[k].neighbor
                           /\ new.link[k].num = row.link[k].num * n
      /\ \A k \in 1 .. n : /\ new.link[N + k].neighbor = nbs[k]
                           /\ new.link[N + k].num = row.den
  BY AddedLinks
<1>3. new \in Row
  BY AddEntriesProperties
<1>4. Len(new.link) = N + n
  <2>1. Len(new.link) \in Nat /\ DOMAIN new.link = 1 .. Len(new.link)
    BY <1>3, RowType
  <2> HIDE DEF new, N, n
  <2> QED
    BY <1>1, <1>2, <2>1
<1> HIDE DEF new
<1>5. /\ DOMAIN row.link = 1 .. N
      /\ Mass(row) = Total(Values(row))
      /\ DOMAIN Values(row) = 1 .. N
      /\ \A k \in 1 .. N : Values(row)[k] = row.link[k].num /\ Values(row)[k] \in Nat
      /\ \A m : /\ DOMAIN LinksTo(row, m) = 1 .. N
               /\ \A k \in 1 .. N :
                    /\ LinksTo(row, m)[k] = IF row.link[k].neighbor = m THEN 1 ELSE 0
                    /\ LinksTo(row, m)[k] \in Nat
  BY RowSums
<1>6. /\ Mass(new) = Total(Values(new))
      /\ DOMAIN Values(new) = 1 .. N + n
      /\ \A k \in 1 .. N + n : Values(new)[k] = new.link[k].num
      /\ \A m : /\ DOMAIN LinksTo(new, m) = 1 .. N + n
               /\ \A k \in 1 .. N + n :
                    LinksTo(new, m)[k] = IF new.link[k].neighbor = m THEN 1 ELSE 0
  <2> DEFINE M == Len(new.link)
  <2>1. /\ Mass(new) = Total(Values(new))
        /\ DOMAIN Values(new) = 1 .. M
        /\ \A k \in 1 .. M : Values(new)[k] = new.link[k].num
        /\ \A m : /\ DOMAIN LinksTo(new, m) = 1 .. M
                 /\ \A k \in 1 .. M :
                      LinksTo(new, m)[k] = IF new.link[k].neighbor = m THEN 1 ELSE 0
    BY <1>3, RowSums
  <2>2. M = N + n
    BY <1>4
  <2> HIDE DEF M
  <2> QED
    BY <2>1, <2>2
<1> HIDE DEF N, n
<1>7. /\ \A k \in 1 .. N : k \in 1 .. N + n
      /\ \A k \in 1 .. n : N + k \in 1 .. N + n
  BY <1>1
<1> DEFINE old == [k \in 1 .. N |-> n * Values(row)[k]]
           add == [k \in 1 .. n |-> row.den]
<1>8. /\ Ints(old, N) /\ Ints(add, n)
      /\ Ints(Values(row), N) /\ Combination(old, n, Values(row), 0, Values(row), N)
      /\ DOMAIN add = 1 .. n /\ \A k \in 1 .. n : add[k] = row.den
  BY <1>1, <1>5 DEF Ints, Combination
<1>9. Joined(Values(new), old, N, add, n)
  <2>1. ASSUME NEW k \in 1 .. N PROVE Values(new)[k] = old[k]
    <3>1. Values(new)[k] = row.link[k].num * n /\ old[k] = n * row.link[k].num
      BY <1>2, <1>5, <1>6, <1>7
    <3>2. row.link[k].num \in Nat
      BY <1>5
    <3> QED
      BY <1>1, <3>1, <3>2
  <2>2. ASSUME NEW k \in 1 .. n PROVE Values(new)[N + k] = add[k]
    <3>1. Values(new)[N + k] = new.link[N + k].num
      BY <1>6, <1>7
    <3> QED
      BY <1>2, <3>1
  <2> QED
    BY <1>6, <2>1, <2>2 DEF Joined
<1> HIDE DEF old, add
<1>10. Total(Values(new)) = Total(old) + Total(add)
  BY <1>8, <1>9, TotalJoined
<1>11. Total(add) = n * row.den
  BY <1>1, <1>8, TotalConstant
<1>12. Total(old) = n * Mass(row)
  <2> DEFINE r == Values(row)
  <2>1. n \in Int /\ 0 \in Int /\ Total(r) \in Int
    BY <1>1, <1>8, TotalInt
  <2>2. Total(old) = n * Total(r) + 0 * Total(r)
    BY <1>8, <2>1, TotalLinear
  <2> HIDE DEF r
  <2>3. Total(old) = n * Total(r)
    BY <2>1, <2>2
  <2> QED
    BY <1>5, <2>3 DEF r
<1>13. ASSUME NEW m \in Range(nbs) PROVE Count(new, m) = Count(row, m) + 1
  <2>1. PICK i \in 1 .. n : nbs[i] = m
    BY <1>1 DEF Range
  <2> DEFINE one == [k \in 1 .. n |-> IF k = i THEN 1 ELSE 0]
             r == LinksTo(row, m)
             t == LinksTo(new, m)
  <2>2. Single(one, i, 1, n) /\ Ints(one, n)
        /\ \A k \in 1 .. n : one[k] = IF k = i THEN 1 ELSE 0
    BY <1>1 DEF Single, Ints
  <2>3. Ints(r, N) /\ DOMAIN t = 1 .. N + n
    BY <1>1, <1>5, <1>6 DEF Ints
  <2>4. \A k \in 1 .. N : t[k] = r[k]
    BY <1>2, <1>5, <1>6, <1>7
  <2>5. ASSUME NEW k \in 1 .. n PROVE t[N + k] = one[k]
    <3>1. nbs[k] = m <=> k = i
      BY <2>1 DEF n
    <3> QED
      BY <1>2, <1>6, <1>7, <2>2, <3>1
  <2> HIDE DEF one, r, t
  <2>6. Joined(t, r, N, one, n)
    BY <2>3, <2>4, <2>5 DEF Joined
  <2>7. Total(t) = Total(r) + Total(one)
    BY <2>2, <2>3, <2>6, TotalJoined
  <2>8. Total(one) = 1
    BY <2>2, TotalOfOne
  <2> QED
    BY <2>7, <2>8 DEF Count, r, t
<1> QED
  BY <1>2, <1>6, <1>10, <1>11, <1>12, <1>13 DEF new, n

----------------------------------------------------------------------------
(***************************************************************************)
(* One unit of pheromone for each start command.  The invariant, for a     *)
(* network in which no neighbour is listed twice and add-neighbor is not   *)
(* used: a destination's row has one link to each neighbour for every      *)
(* start command, so that whatever link an ant took, an update gives back  *)
(* as much pheromone as it takes.                                          *)
(***************************************************************************)
ListedOnce(list) == \A i, j \in 1 .. Len(list) : list[i] = list[j] => i = j

FixedLists == LateLinks = {} /\ \A n \in Node : ListedOnce(SetupNbr[n])

Balanced(row, list, c) ==
  /\ Mass(row) = c * row.den
  /\ \A m \in Range(list) : Count(row, m) = c

\* A row of node n for d with its list of neighbours after c starts.
BalancedFor(n, d, row, list, c) ==
  /\ d \in Dest \ {n} /\ list # <<>> => Balanced(row, list, c)
  /\ ~(d \in Dest \ {n} /\ list # <<>>) => row.link = <<>>

MInv ==
  /\ IInv
  /\ nbr = SetupNbr
  /\ \A n \in Node, d \in Addr : BalancedFor(n, d, rt[n][d], nbr[n], starts[n])

LEMMA BalancedUpdate ==
  ASSUME NEW row \in Row, UnitRow(row), NEW list, NEW c \in Nat,
         Balanced(row, list, c), NEW next \in Range(list)
  PROVE  Balanced(UpdateRow(row, next), list, c)
<1>1. CASE row.link = <<>>
  BY <1>1 DEF UpdateRow
<1>2. CASE row.link # <<>>
  <2> DEFINE new == UpdateRow(row, next)
             d == row.den
  <2>1. new.den = d * RDen
    BY <1>2, UpdatedLinks
  <2>2. /\ Mass(new) = (RDen - RNum) * Mass(row) + (RNum * d) * Count(row, next)
        /\ \A m : Count(new, m) = Count(row, m)
    BY <1>2, MassOfUpdate
  <2>3. Mass(row) = c * d /\ Count(row, next) = c /\ d \in Nat
    BY RowType DEF Balanced
  <2> HIDE DEF new, d
  <2>4. (RDen - RNum) * (c * d) + (RNum * d) * c = c * (d * RDen)
    <3>1. RDen \in Int /\ RNum \in Int /\ c * d \in Int
      BY <2>3, RAssumption
    <3>2. (RDen - RNum) * (c * d) = RDen * (c * d) - RNum * (c * d)
      BY <3>1
    <3>3. (RNum * d) * c = RNum * (c * d) /\ RDen * (c * d) = c * (d * RDen)
      BY <2>3, <3>1
    <3>4. RNum * (c * d) \in Int /\ RDen * (c * d) \in Int
      BY <3>1
    <3> QED
      BY <3>2, <3>3, <3>4
  <2>5. Mass(new) = c * new.den
    BY <2>1, <2>2, <2>3, <2>4
  <2> QED
    BY <2>2, <2>5 DEF Balanced, new
<1> QED
  BY <1>1, <1>2

LEMMA BalancedAdd ==
  ASSUME NEW row \in Row, NEW list \in Seq(Node), list # <<>>, ListedOnce(list),
         NEW c \in Nat, Balanced(row, list, c)
  PROVE  Balanced(AddEntries(row, list), list, c + 1)
<1> DEFINE new == AddEntries(row, list)
           d == row.den
           n == Len(list)
<1>1. /\ new.den = d * n
      /\ Mass(new) = n * Mass(row) + n * d
      /\ \A m \in Range(list) : Count(new, m) = Count(row, m) + 1
  BY MassOfAdd DEF ListedOnce
<1>2. Mass(row) = c * d /\ d \in Nat /\ n \in Nat
      /\ \A m \in Range(list) : Count(row, m) = c
  BY RowType, SeqElim DEF Balanced
<1> HIDE DEF new, d, n
<1>3. n * (c * d) + n * d = (c + 1) * (d * n)
  <2>1. d * n \in Int /\ n * d = d * n /\ n * (c * d) = c * (d * n)
    BY <1>2
  <2>2. (c + 1) * (d * n) = c * (d * n) + d * n
    BY <2>1
  <2> QED
    BY <2>1, <2>2
<1>4. Mass(new) = (c + 1) * new.den
  BY <1>1, <1>2, <1>3
<1> QED
  BY <1>1, <1>2, <1>4 DEF Balanced, new

\* Before any start a row has no links.
LEMMA BalancedInit ==
  ASSUME NEW list PROVE Balanced(NoRow, list, 0)
<1>1. NoRow \in Row /\ Len(NoRow.link) = 0 /\ NoRow.link = <<>>
  BY NoRowType
<1>2. Values(NoRow) = <<>>
  BY <1>1 DEF Values
<1>3. \A m : LinksTo(NoRow, m) = <<>>
  BY <1>1 DEF LinksTo
<1>4. Mass(NoRow) = 0 /\ \A m : Count(NoRow, m) = 0
  BY <1>1, <1>2, <1>3, RowSums, TotalEmpty DEF Count
<1>5. NoRow.den = 1
  BY DEF NoRow
<1> QED
  BY <1>4, <1>5 DEF Balanced

LEMMA MInvHolds == ASSUME FixedLists PROVE Spec => []MInv
<1>1. Init => MInv
  <2> SUFFICES ASSUME Init PROVE MInv
    OBVIOUS
  <2>1. IInv
    BY InitIInv
  <2>2. ASSUME NEW n \in Node, NEW d \in Addr
        PROVE  BalancedFor(n, d, rt[n][d], nbr[n], starts[n])
    <3>1. rt[n][d] = NoRow /\ starts[n] = 0
      BY <2>2 DEF Init
    <3> QED
      BY <3>1, BalancedInit, NoRowType DEF BalancedFor
  <2> QED
    BY <2>1, <2>2 DEF Init, MInv
<1>2. MInv /\ [Next]_vars => MInv'
  <2> SUFFICES ASSUME MInv, [Next]_vars PROVE MInv'
    OBVIOUS
  <2>1. IInv /\ IInv'
    BY NextIInv DEF MInv
  <2>2. nbr' = nbr
    BY DEF FixedLists, Next, vars, Start, Stop, ExpireTimer, Receive, ForwardAnt,
           TurnAnt, OverflowAnt, BackwardAnt, FinishAnt, DiscardAnt, LoseAnt, Tick
  <2>3. ASSUME NEW n \in Node, NEW d \in Addr
        PROVE  BalancedFor(n, d, rt'[n][d], nbr[n], starts'[n])
    <3> DEFINE row == rt[n][d]
               list == nbr[n]
               c == starts[n]
    <3>1. row \in Row /\ UnitRow(row) /\ list \in Seq(Node) /\ c \in Nat
      BY <2>1 DEF IInv, TypeOK, TableOK
    <3>2. BalancedFor(n, d, row, list, c) /\ ListedOnce(list)
      BY DEF MInv, FixedLists
    <3>3. CASE rt'[n] = rt[n] /\ starts'[n] = starts[n]
      BY <3>2, <3>3
    <3>4. CASE rt'[n] = InitializedTable(n) /\ starts'[n] = starts[n] + 1
      <4>1. CASE d \in Dest \ {n} /\ list # <<>>
        <5>1. rt'[n][d] = AddEntries(row, list)
          BY <3>4, <4>1 DEF InitializedTable
        <5>2. Balanced(AddEntries(row, list), list, c + 1)
          BY <3>1, <3>2, <4>1, BalancedAdd DEF BalancedFor
        <5> QED
          BY <3>4, <4>1, <5>1, <5>2 DEF BalancedFor
      <4>2. CASE ~(d \in Dest \ {n} /\ list # <<>>)
        <5>1. rt'[n][d] = row
          BY <3>4, <4>2 DEF InitializedTable
        <5> QED
          BY <3>2, <4>2, <5>1 DEF BalancedFor
      <4> QED
        BY <4>1, <4>2
    <3>5. ASSUME NEW p \in net, LinkTravelled(p.mem, n) \in Range(list),
                 rt'[n] = UpdatedTable(rt[n], p.mem, n), starts'[n] = starts[n]
          PROVE  BalancedFor(n, d, rt'[n][d], nbr[n], starts'[n])
      <4> DEFINE next == LinkTravelled(p.mem, n)
      <4>1. rt'[n][d] = row \/ rt'[n][d] = UpdateRow(row, next)
        BY <3>5 DEF UpdatedTable
      <4>2. CASE rt'[n][d] = row
        BY <3>2, <3>5, <4>2
      <4>3. CASE rt'[n][d] = UpdateRow(row, next)
        <5>1. Balanced(row, list, c) => Balanced(UpdateRow(row, next), list, c)
          BY <3>1, <3>5, BalancedUpdate
        <5>2. row.link = <<>> => UpdateRow(row, next).link = <<>>
          BY DEF UpdateRow
        <5> QED
          BY <3>2, <3>5, <4>3, <5>1, <5>2 DEF BalancedFor
      <4> QED
        BY <4>1, <4>2, <4>3
    <3> QED
      BY <2>1, <3>3, <3>4, <3>5, TableChanges
  <2> QED
    BY <2>1, <2>2, <2>3 DEF MInv
<1> QED
  BY <1>1, <1>2, PTL DEF Spec

(***************************************************************************)
(* MassCountsStarts: where the neighbour lists stay as they are and list   *)
(* no node twice, a row holds one unit of pheromone for each start, after  *)
(* any number of reinforcements, for every r_factor_.                      *)
(***************************************************************************)
THEOREM MassPreserved == ASSUME FixedLists PROVE Spec => []MassCountsStarts
<1>1. MInv => MassCountsStarts
  BY DEF MInv, BalancedFor, Balanced, MassCountsStarts
<1> QED
  BY <1>1, MInvHolds, PTL

(***************************************************************************)
(* The weights of a row that holds one unit of pheromone sum to the        *)
(* denominator they leave out, whenever a queue holds something.           *)
(***************************************************************************)
LEMMA WeightsSum ==
  ASSUME NEW row \in Row, NEW q \in QueueLengths(row), NEW N, N = Len(row.link),
         Mass(row) = row.den, \E m \in DOMAIN q : q[m] > 0
  PROVE  SumOver([row EXCEPT !.link = [k \in 1 .. N |-> LinkWeight(row, q, k)]],
                 LAMBDA w : w)
           = row.den * TotalQueue(row, q) * (AlphaDen + AlphaNum * (N - 1))
<1> DEFINE Q == TotalQueue(row, q)
           d == row.den
           s == [k \in DOMAIN row.link |-> q[row.link[k].neighbor]]
           w == [k \in 1 .. N |-> LinkWeight(row, q, k)]
           v == Values(row)
           x == [k \in 1 .. N |-> Q]
           y == [k \in 1 .. N |-> 1 * x[k] + (-1) * s[k]]
<1>1. N \in Nat /\ DOMAIN row.link = 1 .. N /\ d \in Nat
  BY RowType
<1>2. Ints(v, N) /\ Total(v) = d /\ \A k \in 1 .. N : v[k] = row.link[k].num
  BY RowSums DEF Ints
<1>3. Q \in Nat \ {0} /\ \A k \in 1 .. N : q[row.link[k].neighbor] \in Nat
  BY <1>1, QueueTotal
<1>4. DOMAIN s = 1 .. N /\ \A k \in 1 .. N : s[k] = q[row.link[k].neighbor]
  BY <1>1
<1>5. Q = IF Total(s) = 0 THEN 1 ELSE Total(s)
  BY DEF TotalQueue, SumOver
<1>6. SumOver([row EXCEPT !.link = w], LAMBDA z : z) = Total(w)
  <2>1. [row EXCEPT !.link = w].link = w
    BY DEF Row
  <2>2. w = [k \in DOMAIN w |-> w[k]]
    OBVIOUS
  <2> HIDE DEF w
  <2> QED
    BY <2>1, <2>2 DEF SumOver
<1>7. PICK m \in DOMAIN q : q[m] > 0
  OBVIOUS
<1>8. \E k \in 1 .. N : row.link[k].neighbor = m
  <2>1. m \in Neighbors(row)
    BY DEF QueueLengths
  <2> QED
    BY <1>1, <2>1 DEF Neighbors
<1> HIDE DEF Q, s, v
<1>9. Nats(s, N) /\ Ints(s, N)
  BY <1>1, <1>3, <1>4 DEF Nats, Ints
<1>10. Q = Total(s)
  <2>1. Total(s) \in Nat /\ \A k \in 1 .. N : s[k] <= Total(s)
    BY <1>9, TotalNat
  <2>2. PICK k \in 1 .. N : s[k] = q[m] /\ s[k] \in Nat
    BY <1>3, <1>4, <1>8
  <2>3. Total(s) # 0
    BY <1>7, <2>1, <2>2
  <2> QED
    BY <1>5, <2>3
<1>11. Ints(x, N) /\ Total(x) = N * Q
  <2>1. DOMAIN x = 1 .. N /\ \A k \in 1 .. N : x[k] = Q
    OBVIOUS
  <2> HIDE DEF x
  <2>2. Total(x) = N * Q
    <3>1. N \in Nat /\ Q \in Int
      BY <1>1, <1>3
    <3> QED
      BY ONLY <2>1, <3>1, TotalConstant
  <2> QED
    BY <1>1, <1>3, <2>1, <2>2 DEF Ints
<1>12. \A k \in 1 .. N : y[k] = Q - q[row.link[k].neighbor]
  BY <1>3, <1>4
<1>13. Combination(y, 1, x, -1, s, N) /\ Ints(y, N)
  <2>1. DOMAIN y = 1 .. N /\ \A k \in 1 .. N : y[k] = 1 * x[k] + (-1) * s[k]
    OBVIOUS
  <2> HIDE DEF y
  <2>2. Combination(y, 1, x, -1, s, N)
    BY <2>1 DEF Combination
  <2>3. ASSUME NEW k \in 1 .. N PROVE y[k] \in Int
    <3>1. y[k] = Q - q[row.link[k].neighbor] /\ q[row.link[k].neighbor] \in Nat
      BY <1>3, <1>12
    <3> QED
      BY <1>3, <3>1
  <2> QED
    BY <1>1, <2>1, <2>2, <2>3 DEF Ints
<1> HIDE DEF x, y
<1>14. Total(y) = 1 * (N * Q) + (-1) * Q
  BY <1>9, <1>10, <1>11, <1>13, TotalLinear
<1>15. Combination(w, 20 * Q, v, 9 * d, y, N)
  <2>1. ASSUME NEW k \in 1 .. N
        PROVE  w[k] = (20 * Q) * v[k] + (9 * d) * y[k]
    <3>1. w[k] = 20 * Q * row.link[k].num + 9 * d * (Q - q[row.link[k].neighbor])
      BY DEF LinkWeight, AlphaNum, AlphaDen, Q
    <3> QED
      BY <1>2, <1>12, <3>1
  <2>2. DOMAIN w = 1 .. N
    OBVIOUS
  <2> HIDE DEF w
  <2> QED
    BY <2>1, <2>2 DEF Combination
<1> HIDE DEF w, d
<1>16. 20 * Q \in Int /\ 9 * d \in Int
  BY <1>1, <1>3
<1>17. Total(w) = (20 * Q) * Total(v) + (9 * d) * Total(y)
  BY <1>2, <1>13, <1>15, <1>16, TotalLinear
<1>18. (20 * Q) * d + (9 * d) * (1 * (N * Q) + (-1) * Q) = d * Q * (20 + 9 * (N - 1))
  <2>1. d * Q \in Int /\ 1 * (N * Q) + (-1) * Q = (N - 1) * Q
    <3>1. N * Q \in Int /\ (N - 1) * Q = N * Q - Q /\ d * Q \in Int
      BY ONLY <1>1, <1>3
    <3> QED
      BY ONLY <1>3, <3>1
  <2>2. (20 * Q) * d = 20 * (d * Q) /\ (9 * d) * ((N - 1) * Q) = (9 * (N - 1)) * (d * Q)
    <3>1. (20 * Q) * d = 20 * (d * Q)
      BY ONLY <1>1, <1>3
    <3>2. \A a \in Int : (9 * d) * (a * Q) = (9 * a) * (d * Q)
      BY ONLY <1>1, <1>3
    <3>3. N - 1 \in Int
      BY ONLY <1>1
    <3> QED
      BY ONLY <3>1, <3>2, <3>3
  <2>3. 20 * (d * Q) + (9 * (N - 1)) * (d * Q) = (d * Q) * (20 + 9 * (N - 1))
    BY <1>1, <2>1
  <2> QED
    BY <2>1, <2>2, <2>3
<1>19. Total(w) = d * Q * (20 + 9 * (N - 1))
  BY <1>2, <1>14, <1>17, <1>18
<1> QED
  BY <1>6, <1>19 DEF AlphaNum, AlphaDen, Q, d, w

(***************************************************************************)
(* SelectionProbabilitiesSumToOne: after one start, where the neighbour    *)
(* lists stay as they are and list no node twice, the values calc_next     *)
(* gives to the links of a row sum to 1, for every reachable table and all *)
(* lengths of its queues that are not all zero.                            *)
(***************************************************************************)
THEOREM ProbabilitiesSum ==
  ASSUME FixedLists PROVE Spec => []SelectionProbabilitiesSumToOne
<1>1. MInv => SelectionProbabilitiesSumToOne
  <2> SUFFICES ASSUME MInv, NEW n \in Node, NEW d \in Addr, starts[n] = 1,
                      Len(rt[n][d].link) > 0
               PROVE  rt[n][d] \in Row /\ Mass(rt[n][d]) = rt[n][d].den
    BY WeightsSum DEF SelectionProbabilitiesSumToOne
  <2>1. rt[n][d] \in Row
    BY DEF MInv, IInv, TypeOK
  <2>2. rt[n][d].link # <<>>
    BY <2>1, RowType
  <2>3. Mass(rt[n][d]) = 1 * rt[n][d].den
    BY <2>2 DEF MInv, BalancedFor, Balanced
  <2> QED
    BY <2>1, <2>3, RowType
<1> QED
  BY <1>1, MInvHolds, PTL
=============================================================================
