# AntNet in TLA+

A verification development for the AntNet routing agent in `src/` (an ns-2.34
patch).  It models how ants explore a network, remember their path, come back
over it and reinforce the routing tables; TLC checks it on small networks and
TLAPS proves its properties for all networks.  Further components
model the interface queues the ants wait in, the packets they are, the types
and tracers of those packets, and the traffic model of an agent.

## The system

| Part | State | Operations | Module | Correct when |
|---|---|---|---|---|
| Ant memory, `ant_pkt.h`, `Antnet::memorize` | `pkt_memory_`, `pkt_mem_size_` | append a node, cut a loop and shift the trip times, scan for a node | `AntMemory` | it is the walk with its loops removed, fits its array, and its times are those of the hops kept |
| Routing table, `antnet_rtable.cc` | `rt_`: destination -> (neighbour, pheromone)* | `add_entry`, `update`, `calc_next`, `calc_destination` | `Pheromone` | pheromone stays in [0,1] and sums to a constant; the selection rule is a probability |
| Arithmetic, `antnet_math.h` | none | `link_probability`, `reinforce_pheromone`, `evaporate_pheromone` | `Pheromone` | as above |
| Agent, `antnet.cc` | ant timer, its table, `ra_addr_` | `start`, `stop`, `add-neighbor`, timer expiry, the handlers of forward and backward ants | `AntNet` | every ant retraces its path, updates each node once, and ends |
| Topology helpers, `antnet_common.cc` | `neighbor_list_` of ns-2's nodes | count neighbours, read a queue length | `AntNet` (`nbr`, `QueueLengths`) | tables only hold listed neighbours |
| Links and delivery (ns-2) | packets in flight, time-to-live | deliver, discard, drop | `AntNet` (`net`), external | - |
| Interface queues, `queue/` | packet list, limit, unit, drop policy | `enque`, `deque`, `recvHighPriority`, `filter`, `shrink_queue`, `packetqueue-attach`, `Terminate` | `LinkQueue` | it grows only below the limit; no packet is lost unnoticed; backward ants first, the others in order; nothing waits for an idle link |
| Traffic model, `update_traffic`, `get_win_size` | `state_`, `window_`, `r` | extend the windows along an ant's path, update mean, variance and best, compute `r` | `TrafficModel` | no variance is negative, the mean is between the samples, `r` is a probability (never called by the code today) |
| Packets, `common/packet.h` | `free_`, `fflag_`, `ref_count_`, `data_` | `alloc`, `copy`, `refcopy`, `setdata`, `initdata`, `free` | `PacketPool` | no packet is put back under a holder, no user data is shared |
| Packet types, `common/packet.h` | `PT_NTYPE`, `name_`, `nPkt_`, `pc_` | `initName`, `addPacket`, `getType`, `classify`, `addPacketClassifier` | `PacketTypes` | every type keeps its name and its class |
| Tracers, `trace/cmu-trace.cc` | `newtrace_`, `nodeColor`, `pktTrc_` | both `recv`, `format` and its parts, `nam_format`, `newtrace`, `addPacketTracer` | `CmuTrace` | nam shows the energy there is; a line is in one style; packets end once |
| `rtable.txt` | one file for all nodes | truncated by start, appended to by `print_rtable` | not modelled | - |
| Tcl library, tests | - | - | not modelled | - |

How they interact.  The script's `start` fills a node's table from its
neighbour list and arms the ant timer.  Every expiry launches a forward ant to
a random destination and arms the timer again.  `calc_next` chooses each next
hop from the row of the destination, reading the current length of every
candidate link's queue.  At each node the ant is memorized, then forwarded; at
the destination it turns into a backward ant of the same packet, which travels
to the previous entry of its memory, hop by hop; at each node `update_table`
reinforces the link it left by for every destination reached after it.  The
agents share nothing but packets, the neighbour lists and one global
(`NUM_NODES`).  Packets come from one free list; a tracer between two layers of
a node writes each packet that passes to the trace file and to nam, hands it on,
or frees it when the node is dead or nothing follows.

ns-2 is a single-threaded event loop, so a handler is atomic and the
concurrency is that of events: ants of several nodes, timers and script
commands interleave freely between handlers.  What is hard to test is then:

* long random walks: an ant that goes round several loops, also through its
  own source, with its memory cut back each time;
* tables that change under a travelling ant, by other ants, by a restart, by a
  neighbour added late;
* ants that die half-way, from a full queue, a dead end, a full memory or the
  time-to-live;
* numeric corners of the selection rule: no queue, all the queue on one link,
  `r_factor_ = 1`, an isolated node;
* a queue with two entry points, two policies of dropping and two units, all of
  which change while packets wait, and from which packets are filtered in
  between;
* packets that are copied, shared and freed by objects that do not know of each
  other, and recycled without all their fields being reset;
* tables that libraries extend at run time;
* several tracers of a node that remember on their own what one nam shows.

`PROJECT.json` lists them one by one, with their lines and the properties about each.

## Modules

| Module | Contents |
|---|---|
| `AntMemory` | the memory as a sequence of `[node, trip]`, with `Memorize` and the three scans of the code |
| `SequenceSums` | the sum of a sequence, as a fold |
| `Pheromone` | a routing-table row and its arithmetic |
| `AntNet` | the state machine: agents, tables, ants in flight; the properties |
| `AntTrip` | the abstract specification: what an ant's trip promises |
| `AntNetRefinement` | the refinement mapping from `AntNet` to `AntTrip` |
| `MCAntNet` | the topologies TLC uses |
| `AntNetProofs` | theorems about `AntNet`: its invariant and what follows from it |
| `AntWalkProofs` | theorems about the way of an ant, and the refinement of `AntTrip` |
| `AntTableProofs` | theorems about the tables: selection and sums of pheromone |
| `SumProofs` | induction over the natural numbers, and lemmas about `Total` |
| `LinkQueue` | one interface queue: `DropTail`, and `PriQueue` with `PreferRouting`; its properties |
| `MCLinkQueue` | its symmetry |
| `LinkQueueProofs` | theorems about `LinkQueue` and their proofs |
| `TrafficModel`, `TrafficModelProofs` | the traffic model of one agent, and its theorems |
| `PacketPool`, `PacketPoolProofs` | the life of packets, and its theorems |
| `PacketTypes` | types, names and classes |
| `CmuTrace` | the tracers of a node; composed with `PacketPool` and `PacketTypes` (`NodeSpec`) |
| `MCCmuTrace` | two tracers and a library for TLC |
| `CmuTraceProofs` | theorems about `PacketTypes` and about the composition |

Definitions named "mutant" in a comment are what the code would say with a
plausible bug in it.  No action uses them; each is the form that makes one of the
properties fail, kept beside the definition it differs from.

### Correspondence with the code

| `AntNet` | code |
|---|---|
| `Start(n)` | `Antnet::command("start")`: `initialize_rtable`, `resched(0.)` |
| `Stop(n)` | `Antnet::command("stop")`; ns-2's `TimerHandler::cancel` aborts on an idle timer, hence the guard |
| `AddNeighbor(m, n)` | `Antnet::add_Neighbor`, two calls of `Node::addNeighbor` (external: head insertion, duplicates kept) |
| `ExpireTimer(n)` | `Ant_timer::expire`: `send_ant_pkt`, `reset_ant_timer` |
| `ForwardAnt`, `OverflowAnt`, `TurnAnt` | `recv_ant_pkt`, direction DOWN: `memorize` (kept, or dropped for lack of room), then `forward_ant_pkt` or `create_backward_ant_pkt` |
| `BackwardAnt`, `FinishAnt` | `recv_ant_pkt`, direction UP: `update_table`, then `backward_ant_pkt` or `Packet::free` |
| `DiscardAnt` | the time-to-live check of an ns-2 link, and `Antnet::recv` on a node's own packet |
| `LoseAnt` | a drop by an interface queue |
| `Tick` | the clock of the scheduler |

| `LinkQueue` | code |
|---|---|
| `Recv` | `PriQueue::recv`: `recvHighPriority` (`EnqueHead`, then `HandOn`) for backward ants, else ns-2's `Queue::recv` (`Enque`, then `HandOn`) |
| `Resume` | ns-2's `Queue::resume`, called when the link has sent its packet (external) |
| `SetParameters` | the script sets `limit_`, `queue_in_bytes_`, `drop_front_` (bound by `DropTail::DropTail`); nothing is dropped |
| `Shrink` | `DropTail::shrink_queue`; its loop is one step to the longest queue that is not too long |
| `FilterFirst`, `FilterAll` | `PriQueue::filter(id)`; `PriQueue::filter(f, data)`, whose loop is `FilterLoop` |
| `Reset` | `PriQueue::Terminate`, `DropTail::reset` |
| `AttachQueue` | `packetqueue-attach`, found or not |

| `TrafficModel` | code |
|---|---|
| `UpdateTraffic(path)` | `Antnet::update_traffic`: the three loops over the memory behind this node |
| `Observed`, `Smoothed`, `Spread` | the body of the second loop; `Reinforcement` that of the third |

| `PacketPool`, `PacketTypes` | code |
|---|---|
| `New`, `Alloc`, `AllocWithData` | `Packet::alloc()`, from the list (`Recycle`) or with `new` (`Make`); `alloc(int)` |
| `CopyPacket`, `RefCopy`, `SetData`, `InitData`, `FreePacket` | the member functions of these names (`setdata` and `allocdata`, `initdata`) |
| `Schedule`, `Dispatch` | ns-2's scheduler takes a packet and gives it to a handler (external) |
| `InitName`, `AddPacket`, `AddPacketClassifier` | `initName` through `p_info()`; `addPacket`, which the ns-2 core defines (external); `addPacketClassifier` |

| `CmuTrace` | code |
|---|---|
| `Recv`, `RecvDropped` | `CMUTrace::recv(p, h)`, `recv(p, why)`: `node_energy`, `format`, then `send` or `Packet::free` |
| `Show`, `StayAwake` | what `nam_format` and `format_rtp` change |
| `Format`, `FormatMacCommon`, ... | the styles in which the functions of these names write their part of a line |
| `SetNewTrace`, `AddPacketTracer` | the command `newtrace`; `addPacketTracer` |
| `Drain`, `Sleep` | ns-2's energy model (external) |

What is abstracted:

* **Random draws** are free choices among the outcomes of positive
  probability: any destination but the source, any link whose weight is not
  zero, and the last candidate, which gets the residue rounding leaves.
* **Queue lengths** are read afresh at every decision, any value from 0 to
  `MaxQueue` for each candidate link.
* **Pheromone** is exact: a row has one denominator and integer numerators,
  `r_factor_` is `RNum / RDen`, `ALPHA` is 9/20.  The code uses doubles, so
  its sums hold up to rounding only.  `LinkWeight` is `link_probability`
  without its denominator, which is the same positive number for all links of
  a row.
* **The network** is a set of ants in flight: any order of delivery and any loss.  That is
  more than ns-2's links and queues can do (backward ants overtake in
  `PriQueue`, so delivery is not in order there either).  Data packets are not
  modelled; they appear as queue lengths.
* **Time** is a counter that runs independently of the handlers.  Timer
  intervals are not modelled: a pending timer may expire at any moment.
* **Time-to-live**: ns-2's `TTLChecker` decrements at the end of a link and
  drops at zero.  The model decrements on sending, and the receiver handles
  an ant if one is left.

* **Packets in a queue** have a size, a next hop and a flag for "preferred":
  backward ants, and what `PriQueue` treats like them (DSR, MESSAGE, TORA and
  AODV upward, AOMDV in any direction).  All other packets, forward ants and data, go
  through the same code.  They
  are numbered by arrival.  A queue that `packetqueue-attach` finds is assumed empty,
  as one the script has just made is.  `PacketQueue` is a sequence; `sent`, `dropped` and
  `taken` record where packets went.
* **Trip times** are integers, means and variances exact fractions; the square
  root in `I_sup` is any positive value, zero only for a zero variance.
* **A packet** of the pool has no contents: `Header` is chosen anew whenever a
  tracer sees one, as the layers between may rewrite it.  `held` counts its
  holders, a history no code reads.  A holder may free its packet, and anyone may
  free a packet that is free already.  That excludes a stale pointer freed after the
  packet was handed out again, and a free by someone whose hold the event queue
  took.  `setdata` gets null or an object no other packet has; it could not tell,
  so this is an assumption on its callers.
* **A built-in type** is its own name; only what libraries add is in `name`.
* **A trace line** is the set of the styles its parts are written in ("old", "new",
  "tagged").  The energy of a node with an energy model is a natural number; such
  a node is taken to save power, so that it may be told to stay awake more often than
  in the code, where `powersavingflag()` can be off.  A message whose kind the formats
  abort on (`format_aodv`, `format_aomdv`, the assertion in `format_sctp`) is not in
  `Header`; an SCTP packet without chunks is.  nam is the one place all tracers of the node write
  its colour to (`shown`).
* **`FilterAll`** is described by its result, the one sequence in `Remainders`;
  `FilterLoopRemovesAll` checks that the code's loop (`FilterLoop`) computes it.

`AntNet` and `LinkQueue` are not composed: the former allows any delivery and
any loss, so what a `LinkQueue` does with ants is among its behaviours, and no
run shows that yet (see the plan).  `CmuTrace`, `PacketPool` and `PacketTypes`
are: `NodeNext` interleaves their steps, and a tracer's step frees a packet of the
pool within it.

An ant carries two history fields no node reads: `walk`, its visits with their
times, and `laid`, the nodes that have updated their table for it.  The
properties compare the code's memory with them.

## What is model-checked

Every run explores its state space completely.  Deadlock is not checked: the
bounds on launches, starts, time and packets let each behaviour end, and so does
a failed `packetqueue-attach`.

| Run | Instance | Shows |
|---|---|---|
| `bull` | triangle 1,2,3 with tails 0 at 1 and 4 at 3; one ant, time 0..2 | `MemoryIsLoopErasure`, `TripTimesMeasureHops`, `BackwardRetracesMemory`, `HopsFollowLinks`, `DirectAntsGetHome` |
| `tables` | triangle, two ants, queue lengths 0..2 | `SelectionProbabilitiesSumToOne`, `ShorterQueuePreferred`, `OnlyTravelledLinksGain`, `ImplementsTrip` |
| `restart` | triangle, two ants, two starts in all, queue lengths 0..2, r = 1 | `MassCountsStarts`, `NoImmediateBacktrack` |
| `late` | 0-1 with 2 isolated, links 1-2 and 0-1 added later, two starts | `TypeOK`, `PheromoneInUnit`, `EveryLinkStaysSelectable` |
| `retire` | triangle 0,1,2 with node 3 behind 2, memory of 3 entries, `num_nodes_` = 5 for 4 nodes, one ant, fair delivery | `MemoryBounded`, `AntsRetire` |
| `normalised` | 0-1, two starts | `PheromoneNormalised` is violated |
| `hoplimit` | line, memory of 2 entries | `OnlyLongPathsOverflow` is violated |
| `priority` | `PriQueue`, limit 1 or 3, mean size 2, packets of 1 and 3 bytes, two next hops (symmetric), 4 packets, all parameters changing | `QueueTypeOK`, `NoneWaitsForIdleLink`, `OthersStayInOrder`, `AntsFirst`, `EachPacketOnce`, `FilterLoopRemovesAll`, `GrowsBelowLimit`, `AntsOustOthers`, `GrowsWithinBytes` |
| `overflow` | `DropTail`, 6 packets | `BytesWithinLimit` is violated |
| `traffic` | two destinations, trip times 0, 1, 3, four samples each, smoothing 1/2 | `TrafficTypeOK`, `MeanBetweenSamples`, `ReinforcementInUnit` |
| `journey` | a router's tracer with a nam channel and one for drops, two packets, one extra reference, one library | the invariants of `CmuTrace`, `PacketPool`, `PacketTypes`; `RegisteredNamesStay`, `KnownClassesStay` |
| `classes` | the same | `DataPacketFollowsClassifiers` is violated |

Why the bounds are enough.  The time-to-live is `2 * num_nodes_`, so an ant
in `bull` makes up to 10 hops: from a node of the triangle it can pass its own
source twice, from one tail it can go round the triangle twice, each time keeping
part of its path, and still turn at the other tail and start back.  (A triangle
with one tail would not do: every loop of an ant that comes home passes its
source there.)  Two ticks let two hops of a walk take time, and two shifts add
up.  In `retire` an ant for the tail can circulate as long as it lives, and a
memory of three entries overflows on the way 0, 1, 2, 3.  One ant is enough for
what concerns only its packet, as ants meet only in tables; two suffice where
one ant's update changes another's choice or row.  Two starts are the first
restart, and `MaxDegree` = 2 lets a list hold the same neighbour twice.  Queue
lengths 0..2 give empty, equal, unequal and "everything on one link".  In
`late` and `retire` some destinations do not exist, or have no row where the
ant passes.

In the queue run one packet can be with the link while others wait, so four
arrivals fill it, overflow it, and let ants overtake and oust others.  A limit of 1
admits no packet, so that a backward ant that finds the queue empty is itself the
one that goes, and 3 admits two; lowering the limit, or changing the unit, leaves
a queue that is already too long.  Sizes 1 and 3 with a mean of 2 make a packet
larger and smaller than its share.

In `traffic` a smoothing of 1/2 lets a sample move the mean past others (the
code's 0.005 would need many samples), a trip time of 0 reaches the division by
zero, and two destinations give paths that share a window.  In `journey` two
packets and a reference are enough for a packet to be recycled while
another is shared, queued or copied, and freed twice in between; the types grow
past the built-in ones twice, so that a table is replaced under a registered
name, and names are new ones or a built-in type's; energy falls from one colour to the next and to none, which is enough
for one tracer to be behind another (`ColoursAgree` is proved for any levels).  Only the tracers in `Scripted` get the
command `newtrace`, as all act alike on it.  What the run leaves to the theorems: several classifiers in
a chain (`ClassesStay`), S-MAC and tracers of the physical layer (`ThreeMixedStyles`).

Fairness.  `FairSpec` asks that an ant in flight is received eventually
(weak fairness of `Arrival(i)` for each ant).  ns-2's scheduler dispatches every
event in time order, and a queue serves its packets as long as its link does;
a queue that drops the ant instead also ends it, and the property allows that.
No fairness is assumed of timers, commands or random draws: `AntsRetire` holds
because of the time-to-live alone.

### Disagreements between the code and its documentation

* `normalised`: `tests/test_antnet_math.cc:79-82` calls the pheromone of a
  destination summing to 1 the invariant `calc_next` relies on.  A second
  `start` appends a second set of entries (`antnet_rtable.cc:61-64`) and the
  row sums to 2; `MassCountsStarts` shows updates keep it there.  README.md:167
  offers `$agent start`, and `ns-lib.tcl` schedules one when the agent is
  created.
* `hoplimit`: `antnet.cc:559-561` warns that ants on paths *longer than*
  `MAX_NUM_NODES` hops are dropped.  The memory counts nodes, the source
  included, so a path of exactly `MAX_NUM_NODES` hops is dropped as well.
* `overflow`: `drop-tail.h:45` calls the queue bounded, and `drop-tail.cc:94`
  introduces the branch for a packet that would make it overflow.  Counting
  bytes with `drop_front_`, the branch adds the packet and removes one from the
  head, which may be smaller: with packets of 1, 1 and 3 bytes queued, one of 1
  at the head, 3 more leave 7 where 6 is the limit, too long also for `shrink_queue` (116).
  Both options are off by default (`ns-default.tcl:102-104`).
* `classes`: `packet.h:203-205` says that `PacketClassifier` makes
  `p_info::data_packet` work with dynamically defined types.  `data_packet` never
  asks a classifier; only `classify` does.

## What is proved

`AntNetProofs` proves, for every set of nodes, symmetric neighbour lists,
`num_nodes_` of at least 2, memory size, `r_factor_` in [0,1] and bounds:

| Theorem | Statement |
|---|---|
| `Invariance` | `Spec => []IInv` |
| `TypeCorrect` | `Spec => []TypeOK` |
| `BoundedMemory` | `Spec => []MemoryBounded` |
| `AntsFollowLinks` | `Spec => []HopsFollowLinks` |
| `BackwardRetraces` | `Spec => []BackwardRetracesMemory` |
| `PheromoneBounded` | `Spec => []PheromoneInUnit` |

The assumptions are those the modules name.  `SetupAssumption` has the neighbour
lists symmetric at the beginning: the script builds duplex links, and
`add_Neighbor` itself always enters both directions.

None of these is inductive.  That a backward ant's next index is inside the
memory depends on where the ant is; that the node it names is a neighbour
depends on consecutive entries being neighbours, in the lists as they are now,
and on the lists being symmetric, as the ant goes backwards over them; that an
evaporated value is a natural number depends on its being at most 1.  `IInv`
adds:

* `GoodMemory`: 1 to `MaxNumNodes` entries, no node twice, consecutive entries
  linked;
* `AntOK`: a forward ant is sent by its last entry and has not met its
  destination; a backward ant is between entries i+1 and i for some i, with
  `laid` the nodes behind it (`OnWayBack`);
* `TableOK`: values in [0,1], links only to listed neighbours;
* `SymmetricLists`.

The proof has one lemma per action (`StartIInv`, `ForwardAntIInv`, ...).
`MemorizeProperties` (erasing a loop keeps `GoodMemory` and ends at the node),
`UpdateRowProperties` (updating keeps a row in [0,1]), `NextHopsProperties`
(`calc_next` returns the parent or a link of the row) and
`WithNeighborProperties` carry the facts about the operators, `ForwardedAnt`,
`TurnedAnt` and `RetracingAnt` those about a packet, and `GrowingLists` is why
adding a neighbour leaves everything else right.

### The way of an ant

`AntWalkProofs` proves, under the same assumptions:

| Theorem | Statement |
|---|---|
| `WayInvariance` | `Spec => []WInv` |
| `MemoryErasesLoops` | `Spec => []MemoryIsLoopErasure` |
| `TripTimesRight` | `Spec => []TripTimesMeasureHops` |
| `AntsMoveOnward` | `Spec => []NoImmediateBacktrack` |
| `DirectAntsHome` | `Spec => []DirectAntsGetHome`, if `Cardinality(Node) <= NumNodes` |
| `TravelledLinksOnly` | `Spec => OnlyTravelledLinksGain` |
| `AgentsImplementTrips` | `Spec => ImplementsTrip` |

The hypothesis of `DirectAntsHome` follows from what the code's README.md:162 says
of `num_nodes_`: it is the number of nodes.  The time-to-live is twice that, so with
a smaller number a long way out leaves too little for the way back; a larger
one does no harm.

`WInv` adds to `IInv` what an ant has to do with its walk.  `Erasure` says that
the memory is the walk without its loops, by a function from entries to the visits
at which the ant left them for good; it increases, each entry's successor is the
next visit, and trip times differ by the time of that hop.  `MemoryIsLoopErasure` itself
is not inductive: the visits that belong to entries before a cut must be known
when the cut is made.  `Onward` says that no two visits two apart are at one
node and that the next hop does not make it so, `LifeLeft` that the time-to-live
counts the hops made; `DirectAntsHome` then is the pigeonhole principle, as a
memory without repetitions has at most `Cardinality(Node)` entries.  Ants have
different numbers, so that a step that takes one out of the network takes out
no other.

`AgentsImplementTrips` goes action by action: a packet is mapped to its trip
(`TripOf`), `Start` and `AddNeighbor` to `Configure`, a timer expiry to `Launch`
or, where no ant gets away, a stutter, an ant that arrives and is sent on
(`ForwardAnt`) or turned (`TurnAnt`) to `Explore`, with `Memorize` extending the
path and removing its loop, `BackwardAnt` and `FinishAnt` to `Retrace` with
the update of that node's table, every other end of a packet to `Lose`.  The
scans of the code find the place the trip knows (`FirstIndexOf` and
`LastIndexOf` agree, as no node is in a memory twice).

### The tables

`AntTableProofs` proves:

| Theorem | Statement |
|---|---|
| `ShorterQueues` | `Spec => []ShorterQueuePreferred` |
| `EveryLinkStays` | `Spec => []EveryLinkStaysSelectable`, if `RNum < RDen` |
| `MassPreserved` | `Spec => []MassCountsStarts`, if `FixedLists` |
| `ProbabilitiesSum` | `Spec => []SelectionProbabilitiesSumToOne`, if `FixedLists` |

`RNum < RDen` is `r_factor_ < 1` (0.001 by default, `ns-default.tcl`); with 1, which
`restart` uses, one update takes all pheromone from the other links, and the
property fails.  `FixedLists` says that the neighbour lists name no node
twice and that no `add-neighbor` comes after the setup: a script that gives each
duplex link once, before the agents run.  `update` reinforces every entry of the
neighbour, so a row with a duplicate, or with a neighbour that was added between
two starts, has no constant mass; `late` covers these for the other properties.

`LInv` (no value is zero) is preserved as reinforcing never lowers a value to
zero and evaporating multiplies by `1 - r_factor_`.  `MInv` says more than
`MassCountsStarts`: after c starts every neighbour has exactly c entries in
the row (`Balanced`).  That is why an update that adds `r_factor_` of what is missing
to each of the c entries of one neighbour, and takes as much from the rest, leaves
the sum at c.

Both sums, of pheromone and of queue lengths, are `Total`, a fold.
`SumProofs` proves what it computes: a fold is defined by `CHOOSE` of a recursive
function, which is shown to exist for domains of any size; from it come the
partial sums (`TotalPartials`), and by induction over the indices the sums of
scaled, joined and pointwise added sequences.  Induction over the natural numbers
itself is proved from well-foundedness (`InductionOnSet`): the library's
induction theorem takes a predicate as a parameter, which the provers cannot
instantiate, but a least element outside a set they can find.

### Queues, traffic, packets

`LinkQueueProofs` proves, for every set of limits, either unit, either policy, with
and without `PreferRouting`, all sizes and any number of packets:

| Theorem | Statement |
|---|---|
| `QueueInvariance` | `QueueSpec => []QInv` |
| `QueueTypeCorrect` | `QueueSpec => []QueueTypeOK` |
| `WorkConserving` | `QueueSpec => []NoneWaitsForIdleLink` |
| `AntsGoFirst` | `QueueSpec => []AntsFirst` |
| `OthersKeepOrder` | `QueueSpec => []OthersStayInOrder` |
| `PacketsAccountedFor` | `QueueSpec => []EachPacketOnce` |
| `QueueGrowsBelowLimit` | `QueueSpec => GrowsBelowLimit` |
| `QueueGrowsWithinBytes` | `QueueSpec => GrowsWithinBytes` |
| `AntsOust` | `QueueSpec => AntsOustOthers` |
| `FilterLoopFindsAll` | `QueueSpec => []FilterLoopRemovesAll` |

`OthersStayInOrder` relates packets that were sent to packets that wait, and is
not inductive without knowing that no packet is numbered beyond `arrived`.
`Fits` states both orders within `sent`, within the queue and across the two
(`Between`).  Every step is one of three changes, each with a lemma: packets
are taken out (`SelectFits`; `Selection` is all that matters of a drop, a filter or a
shrink), a packet is added at its end (`AppendFits`, `PrependFits`), or the
first one is handed to the link (`ServeFits`).

For `PacketsAccountedFor` the invariant is `OInv`: `Once` counts by numbers of
packets, which are different within the queue and within what was sent, in
no two of the four places, and together `1 .. arrived`.  What a step
removes from the queue is what it adds to `dropped` or `taken`: `OmitsOne` for
a single packet, `Selection` for the rest.  The growth theorems follow from
`Arrival`, the cases of an arriving packet, and `OthersSelect`: no other step adds one.
`FilterLoopFindsAll` goes round by round: `Swept` says what the first k rounds
of the loop have done, with an index that stays where it is after a removal,
and the fold that models the loop is treated like `Total`.

`TrafficModelProofs` proves, for every set of destinations, smoothing factor and
weights with `c1 + c2 <= 1`, every `zee` and any trip times:

| Theorem | Statement |
|---|---|
| `TrafficTypeCorrect` | `TrafficSpec => []TrafficTypeOK` |
| `MeanIsBetween` | `TrafficSpec => []MeanBetweenSamples` |
| `ReinforcementIsInUnit` | `TrafficSpec => []ReinforcementInUnit` |

`TrafficInv` holds all three together: `r` needs a best time below the mean,
the mean needs the best to be of the window.  `SmoothedBetween` (a smoothed mean stays
between bounds of its parts), `SpreadNotNegative`, `ObservedFits` and
`ReinforcementBounds` are the arithmetic.

`PacketPoolProofs` proves, for any numbers of packets, references and user data:

| Theorem | Statement |
|---|---|
| `PoolSafety` | `PoolSpec => [](PoolTypeOK /\ FreeListSound /\ HoldersCounted /\ DataOwned)` |
| `NoneFreedWhileQueued` | no step of `FreePacket` puts back a packet the event queue has |

The four invariants together are inductive (`PoolInv`); none of them is alone.
Steps that change one packet share `ReplaceInv`; taking from and putting on the
list are `RecycleInv`, `MakeInv` and `ReleaseInv`.

`CmuTraceProofs` proves of packet types, for any numbers of types, names and
libraries:

| Theorem | Statement |
|---|---|
| `TypesCorrect` | `TypesSpec => []TypesTypeOK` |
| `NamesAreKept` | `TypesSpec => RegisteredNamesStay` |
| `NamesAlwaysResolve` | `TypesSpec => []NamesResolve` |
| `ClassesStay` | `TypesSpec => KnownClassesStay` |

The first two are from `NamesGrow`, what a call of `initName` does to the table.
`getType` and `classify` look for the first that fits; `LeastNatural` (a set of natural
numbers that is not empty has a least element) is why there is one, `GetTypeFirst` and
`ClassFound` say what is returned, and `ChainGrows` that a classifier in front of
others hides none of them.

It proves of a node with any number of tracers:

| Theorem | Statement |
|---|---|
| `NodeImplementsPool` | `NodeSpec => PoolSpec` |
| `NodeImplementsTypes` | `NodeSpec => TypesSpec` |
| `NodePoolSafety` | what `PoolSafety` says, of `NodeSpec`; `NodePoolTypes` and `NodeDataOwned` are parts of it |
| `NodeTypes`, `NodeNamesStay` | what is proved of types, of `NodeSpec` |
| `ColoursAgree`, `TraceTypeCorrect` | `NodeSpec => []TraceTypeOK /\ []NamNeverStale` |
| `ThreeMixedStyles` | `NodeSpec => []StylesMixed` |

`PacketPool` and `PacketTypes` are thus the abstract specifications of what a
node does to its packets and types, and the refinement lets its theorems be used for the node.

### Only model-checked

* `AntsRetire`: liveness under fairness is outside the provers' reach.
* The four properties the code violates (`normalised`, `hoplimit`, `overflow`,
  `classes`): each is refuted by a behaviour TLC finds.

Every other property of a run is proved.  The proofs say nothing that the models
leave out: exact fractions instead of doubles, handlers as single steps.

## Not modelled

* `print_rtable`, `print_neighbors`, and the summary statistics of a queue:
  output only.
* Of tracing: the contents and layout of fields, event letters, positions, and the
  802.15.4 colours and broadcast radius of nam lines.  No other code reads them.
* Of packets: header bits, the stamp, `incoming`, and the headers of other
  protocols.  `PT_NTYPE` is one variable, though `static` in a header gives each
  translation unit a copy: which copy `addPacket` changes is outside the
  repository.  Registering a classifier or tracer twice, which makes its chain a
  cycle, is excluded.
* Starvation of data packets by backward ants in a `PriQueue`: nothing in the code
  prevents it, and no liveness of single packets is claimed.
* `port-dmux`, `log-target`: set a pointer the algorithm never reads.
* Failures of lookups through Tcl (`get_queue_length` for a missing link or
  another kind of queue): the model assumes that listed neighbours are linked.
* Nodes with different `num_nodes_`: `NUM_NODES` is one global, and
  README.md:311 says that all nodes agree on it.
* `num_nodes_` = 1, with which `calc_destination` never returns on node 0.
* `tcl/lib/`: ns-2's own library; the model starts from what it sets up.

## Plan

Done, in this order: `AntMemory`, `Pheromone`, `AntNet`, their runs,
`AntTrip` with the refinement, `AntNetProofs`, `LinkQueue`, `LinkQueueProofs`,
`TrafficModel`, `PacketPool`, `PacketTypes`, `CmuTrace`, and their proofs.

To come:

1. `AntNetLink`: a link of `AntNet` with `LinkQueue` in place of the lossy
   set, implementing it; `get_queue_length` then reads a real queue.
2. The handlers of `AntNet` as holders of packets of the pool.
3. `RouteDump`: `rtable.txt` under starts and dumps of several nodes.
4. A bound on the mass of a row whose neighbour list holds duplicates.
5. Proofs of a bound on the mass of a row under `add-neighbor` and duplicate
   entries, and of the step from a duplicate-free list to `PheromoneNormalised`
   with one start.
