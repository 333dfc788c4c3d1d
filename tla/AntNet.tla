------------------------------- MODULE AntNet -------------------------------
(***************************************************************************)
(* The AntNet routing agents of a network (antnet.cc): every node launches *)
(* forward ants from a timer; a forward ant is passed on by the pheromone  *)
(* of the routing tables, remembers its path with the loops removed, turns *)
(* round at its destination and, as a backward ant, retraces that path and *)
(* reinforces it.  ns-2 itself (links, timers, static delivery to a        *)
(* neighbour) is external and modelled from how the agents use it.         *)
(***************************************************************************)
EXTENDS AntMemory, Pheromone, FiniteSets

CONSTANTS
  Node,        \* addresses of the nodes that have an agent
  NumNodes,    \* num_nodes_ of the script, NUM_NODES in the code
  SetupNbr,    \* the neighbour lists when the simulation starts
  LateLinks,   \* pairs for which the script calls add-neighbor later
  MaxQueue,    \* bound: length of an interface queue
  MaxLaunch,   \* bound: ants launched in a behaviour
  MaxStarts,   \* bound: start commands per node
  MaxDegree,   \* bound: length of a list add-neighbor still adds to
  MaxClock     \* bound: simulated time

Dest == 0 .. NumNodes - 1           \* what calc_destination draws from
Addr == Node \cup Dest

SymmetricLists(nbr) ==
  \A m, n \in Node : n \in Range(nbr[m]) => m \in Range(nbr[n])

ASSUME NodeAssumption == Node \subseteq Nat
ASSUME NumNodesAssumption == NumNodes \in Nat /\ NumNodes >= 2
ASSUME SetupAssumption ==
  SetupNbr \in [Node -> Seq(Node)] /\ SymmetricLists(SetupNbr)
ASSUME LateLinksAssumption == LateLinks \subseteq Node \X Node
ASSUME BoundsAssumption ==
  {MaxQueue, MaxLaunch, MaxStarts, MaxDegree, MaxClock} \subseteq Nat

VARIABLES
  nbr,         \* nbr[n]: neighbor_list_ of node n
  rt,          \* rt[n][d]: row of n's routing table for destination d
  timer,       \* timer[n]: the ant timer of n is pending
  starts,      \* starts[n]: start commands n has carried out
  net,         \* ants in flight
  launched,    \* ants launched so far
  clock        \* simulated time

vars == <<nbr, rt, timer, starts, net, launched, clock>>

(***************************************************************************)
(* An ant in flight from saddr to daddr, one link away.  dir is the        *)
(* direction of the common header.  walk and laid are history, known to no *)
(* node: every visit of the forward ant with its time, and the nodes that  *)
(* have updated their table for the backward ant, in order.                *)
(***************************************************************************)
MemEntry == [node : Node, trip : Int]
Visit    == [node : Node, time : Nat]
Ant == [id : Nat, dir : {"DOWN", "UP"}, src : Addr, dst : Addr,
        mem : Seq(MemEntry), saddr : Node, daddr : Node, ttl : Int,
        start : Nat, walk : Seq(Visit), laid : Seq(Node)]

Link == [neighbor : Node, num : Nat]
Row  == [den : Nat \ {0}, link : Seq(Link)]

Init ==
  /\ nbr = SetupNbr
  /\ rt = [n \in Node |-> [d \in Addr |-> NoRow]]
  /\ timer = [n \in Node |-> FALSE]
  /\ starts = [n \in Node |-> 0]
  /\ net = {}
  /\ launched = 0
  /\ clock = 0

----------------------------------------------------------------------------
(* Commands of the Tcl script. *)

InitializedUnguarded(n) ==      \* mutant: no check for num_nb = 0
  [d \in Addr |-> IF d \in Dest \ {n} THEN AddEntries(rt[n][d], nbr[n])
                                       ELSE rt[n][d]]

\* initialize_rtable: an isolated node gets no rows.
InitializedTable(n) ==
  IF nbr[n] = <<>> THEN rt[n]
  ELSE [d \in Addr |-> IF d \in Dest \ {n} THEN AddEntries(rt[n][d], nbr[n])
                                           ELSE rt[n][d]]

Start(n) ==
  /\ starts[n] < MaxStarts
  /\ rt' = [rt EXCEPT ![n] = InitializedTable(n)]
  /\ timer' = [timer EXCEPT ![n] = TRUE]
  /\ starts' = [starts EXCEPT ![n] = @ + 1]
  /\ UNCHANGED <<nbr, net, launched, clock>>

\* Only the timer is cancelled: the table stays and ants are still served.
\* ns-2 aborts when a timer that is not pending is cancelled.
Stop(n) ==
  /\ timer[n]
  /\ timer' = [timer EXCEPT ![n] = FALSE]
  /\ UNCHANGED <<nbr, rt, starts, net, launched, clock>>

\* Node::addNeighbor puts the new entry at the head of the list, without
\* looking for an earlier one.
WithNeighbor(lists, m, n) == [lists EXCEPT ![m] = <<n>> \o @]

\* add_Neighbor: each of the two becomes a neighbour of the other.
AddNeighbor(m, n) ==
  /\ Len(nbr[m]) < MaxDegree
  /\ nbr' = WithNeighbor(WithNeighbor(nbr, m, n), n, m)
  /\ UNCHANGED <<rt, timer, starts, net, launched, clock>>

----------------------------------------------------------------------------
(* Ants. *)

\* get_queue_length of every candidate link.
QueueLengths(row) == [Neighbors(row) -> 0 .. MaxQueue]

\* The next hops calc_next may return, over the lengths the queues of the
\* candidate links may have at that moment.
NextHops(row, parent) ==
  UNION {CalcNext(row, parent, q) : q \in QueueLengths(row)}

NewAntShortLived(n, dst, next) ==  \* mutant: a time-to-live for one way
  [id |-> launched + 1, dir |-> "DOWN", src |-> n, dst |-> dst,
   mem |-> <<[node |-> n, trip |-> 0]>>, saddr |-> n, daddr |-> next,
   ttl |-> NumNodes, start |-> clock,
   walk |-> <<[node |-> n, time |-> clock]>>, laid |-> <<>>]

NewAnt(n, dst, next) ==
  [id |-> launched + 1, dir |-> "DOWN", src |-> n, dst |-> dst,
   mem |-> <<[node |-> n, trip |-> 0]>>, saddr |-> n, daddr |-> next,
   ttl |-> 2 * NumNodes, start |-> clock,
   walk |-> <<[node |-> n, time |-> clock]>>, laid |-> <<>>]

\* Ant_timer::expire: send_ant_pkt, then the timer is armed again, whether
\* the ant found a next hop or was freed.
ExpireTimer(n) ==
  /\ timer[n]
  /\ launched < MaxLaunch
  /\ launched' = launched + 1
  /\ \E dst \in Dest \ {n} : \E next \in NextHops(rt[n][dst], n) :
       net' = net \cup (IF next = n THEN {} ELSE {NewAnt(n, dst, next)})
  /\ timer' = [timer EXCEPT ![n] = TRUE]
  /\ UNCHANGED <<nbr, rt, starts, clock>>

\* The receiver handles the ant if the time-to-live check of the link lets
\* it through and recv does not take it for the node's own packet.
Handled(p) == p.ttl > 1 /\ p.saddr # p.daddr

Sent(p, next) == [p EXCEPT !.saddr = p.daddr, !.daddr = next, !.ttl = @ - 1]

Memorized(p) ==
  [p EXCEPT !.mem = Memorize(p.mem, p.daddr, clock - p.start),
            !.walk = Append(@, [node |-> p.daddr, time |-> clock])]

ForwardAntBack(p) ==            \* mutant: a dead end sends the ant back
  /\ Handled(p)
  /\ p.dir = "DOWN" /\ p.daddr # p.dst
  /\ ~MemoryFull(p.mem, p.daddr)
  /\ \E next \in NextHops(rt[p.daddr][p.dst], p.saddr) :
       net' = (net \ {p}) \cup (IF next = p.daddr THEN {}
                                ELSE {Sent(Memorized(p), next)})
  /\ UNCHANGED <<nbr, rt, timer, starts, launched, clock>>

ForwardAntKept(p) ==            \* mutant: a dead end does not free the ant
  /\ Handled(p)
  /\ p.dir = "DOWN" /\ p.daddr # p.dst
  /\ ~MemoryFull(p.mem, p.daddr)
  /\ \E next \in NextHops(rt[p.daddr][p.dst], p.saddr) :
       net' = IF next \in {p.daddr, p.saddr} THEN net
              ELSE (net \ {p}) \cup {Sent(Memorized(p), next)}
  /\ UNCHANGED <<nbr, rt, timer, starts, launched, clock>>

\* recv_ant_pkt at an intermediate node: memorize, forward_ant_pkt.
ForwardAnt(p) ==
  /\ Handled(p)
  /\ p.dir = "DOWN" /\ p.daddr # p.dst
  /\ ~MemoryFull(p.mem, p.daddr)
  /\ \E next \in NextHops(rt[p.daddr][p.dst], p.saddr) :
       net' = (net \ {p}) \cup (IF next \in {p.daddr, p.saddr} THEN {}
                                ELSE {Sent(Memorized(p), next)})
  /\ UNCHANGED <<nbr, rt, timer, starts, launched, clock>>

ReversedToSource(p) ==          \* mutant: addressed to the source at once
  [Sent(p, p.mem[1].node) EXCEPT !.dir = "UP", !.src = p.dst, !.dst = p.src]

\* The same at the destination: memorize, create_backward_ant_pkt.
Reversed(p) ==
  [Sent(p, p.mem[Len(p.mem) - 1].node) EXCEPT
     !.dir = "UP", !.src = p.dst, !.dst = p.src]

TurnAnt(p) ==
  /\ Handled(p)
  /\ p.dir = "DOWN" /\ p.daddr = p.dst
  /\ ~MemoryFull(p.mem, p.daddr)
  /\ net' = (net \ {p}) \cup {Reversed(Memorized(p))}
  /\ UNCHANGED <<nbr, rt, timer, starts, launched, clock>>

\* memorize drops an ant that has no room for this node.
OverflowAnt(p) ==
  /\ Handled(p)
  /\ p.dir = "DOWN" /\ MemoryFull(p.mem, p.daddr)
  /\ net' = net \ {p}
  /\ UNCHANGED <<nbr, rt, timer, starts, launched, clock>>

UpdatedForEnd(table, mem, n) == \* mutant: only for the ant's destination
  [d \in Addr |-> IF d = Last(mem).node
                    THEN UpdateRow(table[d], LinkTravelled(mem, n))
                    ELSE table[d]]

\* update_table: the link the ant left by is reinforced for every
\* destination it reached afterwards.
UpdatedTable(table, mem, n) ==
  [d \in Addr |-> IF d \in ReachedThrough(mem, n)
                    THEN UpdateRow(table[d], LinkTravelled(mem, n))
                    ELSE table[d]]

\* recv_ant_pkt for a backward ant on its way: update_table, then
\* backward_ant_pkt, which drops an ant without a previous node.
BackwardAnt(p) ==
  LET n == p.daddr
      i == PreviousIndex(p.mem, n)
  IN  /\ Handled(p)
      /\ p.dir = "UP" /\ n # p.dst
      /\ rt' = [rt EXCEPT ![n] = UpdatedTable(@, p.mem, n)]
      /\ net' = (net \ {p}) \cup
                  (IF i < 1 THEN {}
                   ELSE {[Sent(p, p.mem[i].node) EXCEPT !.laid = Append(@, n)]})
      /\ UNCHANGED <<nbr, timer, starts, launched, clock>>

\* The same at the node that launched the ant: update_table, and the end.
FinishAnt(p) ==
  /\ Handled(p)
  /\ p.dir = "UP" /\ p.daddr = p.dst
  /\ rt' = [rt EXCEPT ![p.daddr] = UpdatedTable(@, p.mem, p.daddr)]
  /\ net' = net \ {p}
  /\ UNCHANGED <<nbr, timer, starts, launched, clock>>

\* The link discards an ant whose time-to-live is used up; recv drops or
\* swallows the node's own packet.
DiscardAnt(p) ==
  /\ ~Handled(p)
  /\ net' = net \ {p}
  /\ UNCHANGED <<nbr, rt, timer, starts, launched, clock>>

\* A full interface queue drops an ant.
LoseAnt(p) ==
  /\ net' = net \ {p}
  /\ UNCHANGED <<nbr, rt, timer, starts, launched, clock>>

Tick ==
  /\ clock < MaxClock
  /\ clock' = clock + 1
  /\ UNCHANGED <<nbr, rt, timer, starts, net, launched>>

----------------------------------------------------------------------------
Receive(p) == ForwardAnt(p) \/ TurnAnt(p) \/ OverflowAnt(p)
                \/ BackwardAnt(p) \/ FinishAnt(p) \/ DiscardAnt(p)

Next ==
  \/ \E n \in Node : Start(n) \/ Stop(n) \/ ExpireTimer(n)
  \/ \E link \in LateLinks : AddNeighbor(link[1], link[2])
  \/ \E p \in net : Receive(p) \/ LoseAnt(p)
  \/ Tick

Spec == Init /\ [][Next]_vars

(***************************************************************************)
(* The scheduler of ns-2 dispatches every event, so an ant in flight is    *)
(* received sooner or later unless a queue drops it.                       *)
(***************************************************************************)
Arrival(i) == \E p \in net : p.id = i /\ Receive(p)

FairSpec == Spec /\ \A i \in 1 .. MaxLaunch : WF_vars(Arrival(i))

----------------------------------------------------------------------------
(***************************************************************************)
(* Properties.                                                             *)
(***************************************************************************)

\* The type invariant: every variable and every field of an ant has the
\* type the code declares it with.
TypeOK ==
  /\ nbr \in [Node -> Seq(Node)]
  /\ rt \in [Node -> [Addr -> Row]]
  /\ timer \in [Node -> BOOLEAN]
  /\ starts \in [Node -> Nat]
  /\ net \subseteq Ant
  /\ launched \in Nat
  /\ clock \in Nat

LastVisitTo(walk, n) ==
  CHOOSE k \in DOMAIN walk :
    walk[k].node = n /\ \A j \in k + 1 .. Len(walk) : walk[j].node # n

\* The position in the walk at which the ant left mem[i] for good.
Departure(p, i) == LastVisitTo(p.walk, p.mem[i].node)

\* What the memory holds is the ant's walk with its loops removed, and
\* nothing else: it starts at the source, ends at the node visited last, and
\* after each node comes the one the walk went to when it left that node for
\* good (memorize, over all the visits of a long walk).
MemoryIsLoopErasure ==
  \A p \in net :
    LET m == p.mem  w == p.walk
    IN  /\ m[1].node = w[1].node
        /\ Last(m).node = Last(w).node
        /\ \A i \in 1 .. Len(m) - 1 : m[i + 1].node = w[Departure(p, i) + 1].node

\* The trip times leave the loops out: two consecutive entries differ by the
\* time of the one hop between them, however often the memory was cut back
\* and shifted in between, and the last entry is the time since the launch.
TripTimesMeasureHops ==
  \A p \in net :
    LET m == p.mem  w == p.walk
    IN  /\ Last(m).trip = Last(w).time - p.start
        /\ \A i \in 1 .. Len(m) - 1 :
             LET k == Departure(p, i)
             IN  m[i + 1].trip - m[i].trip = w[k + 1].time - w[k].time

\* A backward ant is always between two neighbouring entries of its memory,
\* and the nodes that have reinforced it are exactly those it has come back
\* through, in order.  So update_table finds its node with a successor, and
\* backward_ant_pkt finds it with a predecessor.
BackwardRetracesMemory ==
  \A p \in net : p.dir = "UP" =>
    \E i \in 1 .. Len(p.mem) - 1 :
      /\ p.daddr = p.mem[i].node /\ p.saddr = p.mem[i + 1].node
      /\ p.laid = [k \in 1 .. Len(p.mem) - 1 - i |-> p.mem[Len(p.mem) - k].node]
      /\ p.src = Last(p.mem).node /\ p.dst = p.mem[1].node

\* No ant holds more entries than pkt_memory_ has, or a node twice.
MemoryBounded ==
  \A p \in net :
    /\ Len(p.mem) \in 1 .. MaxNumNodes
    /\ \A i, j \in DOMAIN p.mem : p.mem[i].node = p.mem[j].node => i = j

\* Every hop an ant takes, on the way out and on the way back, is between
\* neighbours: next_hop is only ever a node the sender has a link to.
HopsFollowLinks ==
  \A p \in net : p.daddr \in Range(nbr[p.saddr])

\* A forward ant never goes straight back to the node it came from, and
\* never sends to itself, so recv never takes an ant for its own packet.
NoImmediateBacktrack ==
  \A p \in net :
    /\ p.saddr # p.daddr
    /\ \A j \in 1 .. Len(p.walk) - 2 : p.walk[j].node # p.walk[j + 2].node
    /\ p.dir = "DOWN" /\ Len(p.walk) >= 2 =>
         p.daddr # p.walk[Len(p.walk) - 1].node

Mass(row) == SumOver(row, LAMBDA link : link.num)

\* Reinforcing and evaporating keep the pheromone of a row at one per start
\* command the node has carried out: no update loses or creates any.
MassCountsStarts ==
  \A n \in Node, d \in Addr :
    rt[n][d].link # <<>> => Mass(rt[n][d]) = starts[n] * rt[n][d].den

\* The pheromone values of a destination sum to 1, which is what the formula
\* of calc_next relies on (tests/test_antnet_math.cc:79-82).
PheromoneNormalised ==
  \A n \in Node, d \in Addr :
    rt[n][d].link # <<>> => Mass(rt[n][d]) = rt[n][d].den

\* A pheromone value stays in [0,1], over any order of starts, restarts,
\* added neighbours and updates.
PheromoneInUnit ==
  \A n \in Node, d \in Addr : \A k \in DOMAIN rt[n][d].link :
    rt[n][d].link[k].num <= rt[n][d].den

\* No link ever dies out: whatever was reinforced and however long the
\* queues are, a node can still send an ant over each of its row's links but
\* the one it came by (r_factor_ < 1).
EveryLinkStaysSelectable ==
  \A n \in Node, d \in Addr : \A parent \in Node :
    LET row == rt[n][d]
        out == Neighbors(row) \ {parent}
    IN  \A q \in QueueLengths(row) :
          CalcNext(row, parent, q) = IF out = {} THEN {parent} ELSE out

\* In a table of a node started once, the selection probabilities of a
\* destination's links sum to 1 as long as some queue is not empty
\* (antnet_math.h:34-38): the weights sum to the denominator they leave out.
SelectionProbabilitiesSumToOne ==
  \A n \in Node, d \in Addr :
    LET row == rt[n][d]
        N   == Len(row.link)
    IN  N > 0 /\ starts[n] = 1 =>
          \A q \in QueueLengths(row) : (\E m \in DOMAIN q : q[m] > 0) =>
            SumOver([row EXCEPT !.link = [k \in 1 .. N |-> LinkWeight(row, q, k)]],
                    LAMBDA w : w)
              = row.den * TotalQueue(row, q) * (AlphaDen + AlphaNum * (N - 1))

\* Of two links with the same pheromone the one with the shorter queue is
\* the likelier, at every state of a table
\* (tests/test_antnet_math.cc:138-150).
ShorterQueuePreferred ==
  \A n \in Node, d \in Addr :
    LET row == rt[n][d]
    IN  \A q \in QueueLengths(row), j, k \in DOMAIN row.link :
          /\ row.link[j].num = row.link[k].num
          /\ q[row.link[j].neighbor] < q[row.link[k].neighbor]
          => LinkWeight(row, q, j) > LinkWeight(row, q, k)

\* The pheromone of a link (entry k of n's row for d) grows by this step.
Gains(n, d, k) ==
  rt'[n][d].link[k].num * rt[n][d].den > rt[n][d].link[k].num * rt'[n][d].den

\* Pheromone for destination d grows at node n, between starts, only on the
\* link over which some ant really left n for good and then reached d, loops
\* included: never on a link of a removed loop, never for a node visited
\* before n.
OnlyTravelledLinksGain ==
  [][\A n \in Node, d \in Addr : \A k \in DOMAIN rt[n][d].link :
       starts'[n] = starts[n] /\ Gains(n, d, k) =>
         \E p \in net :
           LET w == p.walk  left == LastVisitTo(w, n)
           IN  /\ p \notin net' /\ p.daddr = n
               /\ rt[n][d].link[k].neighbor = w[left + 1].node
               /\ \E j \in left + 1 .. Len(w) : w[j].node = d]_vars

\* A backward ant whose way out had no loops has time-to-live left for the
\* whole way home: no table is left with half of its path.
DirectAntsGetHome ==
  \A p \in net : \A i \in DOMAIN p.mem :
    /\ p.dir = "UP" /\ Len(p.walk) = Len(p.mem)
    /\ p.daddr = p.mem[i].node
    => p.ttl > i

\* An ant is dropped for lack of memory only on a path of more than
\* MAX_NUM_NODES hops (antnet.cc:551-561).
OnlyLongPathsOverflow ==
  \A p \in net : p.dir = "DOWN" /\ MemoryFull(p.mem, p.daddr) =>
    Len(p.mem) > MaxNumNodes

InFlight(i) == \E p \in net : p.id = i

\* No ant circulates for ever: each one comes home, is dropped, or runs out
\* of time-to-live.
AntsRetire == \A i \in 1 .. MaxLaunch : InFlight(i) ~> ~InFlight(i)
=============================================================================
