------------------------------ MODULE LinkQueue ------------------------------
(***************************************************************************)
(* The interface queue of a link: DropTail (queue/drop-tail.cc) and, with  *)
(* PreferRouting, PriQueue (queue/priqueue.cc), which puts backward ants   *)
(* at the head.  ns-2's Queue and PacketQueue, which they are built on, are *)
(* external.                                                               *)
(***************************************************************************)
EXTENDS SequenceSums, FiniteSets

CONSTANTS
  Limits,        \* the values the script gives limit_
  PreferRouting, \* a PriQueue with Prefer_Routing_Protocols
  MeanPktSize,   \* mean_pktsize_
  Size,          \* sizes of packets
  Hop,           \* next hops of packets
  MaxPackets     \* bound: packets that arrive

ASSUME LimitsAssumption == Limits # {} /\ Limits \subseteq Nat
ASSUME ClassAssumption == PreferRouting \in BOOLEAN
ASSUME SizesAssumption ==
  MeanPktSize \in Nat \ {0} /\ Size \subseteq Nat \ {0} /\ MaxPackets \in Nat

\* A packet, numbered in the order of arrival.  up says that it is one that a
\* PriQueue prefers: a backward ant (or a packet of another routing protocol,
\* which it treats alike: DSR, MESSAGE, TORA and AODV upward, AOMDV always).
Packet == [id : Nat, up : BOOLEAN, size : Size, hop : Hop]

VARIABLES
  queue,      \* q_, head first
  blocked,    \* blocked_: the link is busy
  limit,      \* qlim_
  inBytes,    \* qib_
  dropFront,  \* drop_front_
  attached,   \* q_ points to a queue
  arrived,    \* number of packets that have arrived
  sent,       \* packets handed to the link, in order
  dropped,    \* packets given to drop
  taken       \* packets removed for a caller of filter, or with a queue

params == <<limit, inBytes, dropFront>>

qvars == <<queue, blocked, params, attached, arrived, sent, dropped, taken>>

QueueInit ==
  /\ queue = <<>>
  /\ blocked = FALSE
  /\ limit \in Limits
  /\ inBytes \in BOOLEAN /\ dropFront \in BOOLEAN
  /\ attached = TRUE
  /\ arrived = 0
  /\ sent = <<>>
  /\ dropped = {}
  /\ taken = {}

----------------------------------------------------------------------------
Bytes(q) == Total([k \in DOMAIN q |-> q[k].size])

OverflowsFull(q, p) ==          \* mutant: a full queue is one of limit_ packets
  IF inBytes THEN Bytes(q) + p.size >= limit * MeanPktSize ELSE Len(q) > limit

OverflowsUncounted(q, p) ==     \* mutant: the packet's own size is left out
  IF inBytes THEN Bytes(q) >= limit * MeanPktSize ELSE Len(q) + 1 >= limit

\* One more packet is not let in.
Overflows(q, p) ==
  IF inBytes THEN Bytes(q) + p.size >= limit * MeanPktSize
             ELSE Len(q) + 1 >= limit

EnqueDropsNew(p) ==             \* mutant: the packet dropped is not the one removed
  IF ~Overflows(queue, p) THEN [queue |-> Append(queue, p), drop |-> {}]
  ELSE IF dropFront
    THEN [queue |-> Tail(Append(queue, p)), drop |-> {p}]
    ELSE [queue |-> queue, drop |-> {p}]

\* enque: what is queued afterwards, and what is dropped.
Enque(p) ==
  IF ~Overflows(queue, p) THEN [queue |-> Append(queue, p), drop |-> {}]
  ELSE IF dropFront
    THEN LET q == Append(queue, p) IN [queue |-> Tail(q), drop |-> {Head(q)}]
    ELSE [queue |-> queue, drop |-> {p}]

EnqueHeadEvictingHead(p) ==     \* mutant: the packet at the head makes room
  LET q == <<p>> \o queue
  IN  IF Len(q) >= limit THEN [queue |-> Tail(q), drop |-> {Head(q)}]
                         ELSE [queue |-> q, drop |-> {}]

\* recvHighPriority, up to the part it shares with Queue::recv.
EnqueHead(p) ==
  LET q == <<p>> \o queue
  IN  IF Len(q) >= limit THEN [queue |-> Front(q), drop |-> {Last(q)}]
                         ELSE [queue |-> q, drop |-> {}]

HandOnNever(q) ==               \* mutant: only resume serves the queue
  queue' = q /\ UNCHANGED <<sent, blocked>>

\* An idle link takes the first packet.
HandOn(q) ==
  IF ~blocked /\ q # <<>>
    THEN queue' = Tail(q) /\ sent' = Append(sent, Head(q)) /\ blocked' = TRUE
    ELSE queue' = q /\ UNCHANGED <<sent, blocked>>

PrefersAll(p) == PreferRouting  \* mutant: the direction is not looked at

PrefersForward(p) ==            \* mutant: forward ants and data go first
  PreferRouting /\ ~p.up

\* The packets PriQueue::recv gives to recvHighPriority.
Prefers(p) == PreferRouting /\ p.up

\* recv: a PriQueue takes backward ants to the head, everything else goes
\* through Queue::recv.
Recv(up, size, hop) ==
  LET p == [id |-> arrived + 1, up |-> up, size |-> size, hop |-> hop]
      r == IF Prefers(p) THEN EnqueHead(p) ELSE Enque(p)
  IN  /\ arrived < MaxPackets
      /\ arrived' = arrived + 1
      /\ HandOn(r.queue)
      /\ dropped' = dropped \cup r.drop
      /\ UNCHANGED <<params, attached, taken>>

ResumeUntested ==               \* mutant: what deque returns is sent untested
  LET null == [id |-> 0, up |-> FALSE, size |-> 0, hop |-> CHOOSE h \in Hop : TRUE]
  IN  /\ blocked
      /\ queue' = IF queue = <<>> THEN <<>> ELSE Tail(queue)
      /\ sent' = Append(sent, IF queue = <<>> THEN null ELSE Head(queue))
      /\ UNCHANGED <<blocked, params, attached, arrived, dropped, taken>>

\* The link has sent its packet: Queue::resume.
Resume ==
  /\ blocked
  /\ IF queue = <<>>
       THEN blocked' = FALSE /\ UNCHANGED <<queue, sent>>
       ELSE /\ queue' = Tail(queue) /\ sent' = Append(sent, Head(queue))
            /\ UNCHANGED blocked
  /\ UNCHANGED <<params, attached, arrived, dropped, taken>>

\* The script sets limit_, queue_in_bytes_ and drop_front_ whenever it likes;
\* nothing is dropped before shrink-queue.
SetParameters(l, bytes, front) ==
  /\ limit' = l
  /\ inBytes' = bytes
  /\ dropFront' = front
  /\ UNCHANGED <<queue, blocked, attached, arrived, sent, dropped, taken>>

TooLong(q) == IF inBytes THEN Bytes(q) > limit * MeanPktSize ELSE Len(q) > limit

\* shrink_queue: packets go, one by one, as long as it is too long.
KeptBy(k) ==
  IF dropFront THEN SubSeq(queue, Len(queue) - k + 1, Len(queue))
               ELSE SubSeq(queue, 1, k)

Shrink ==
  /\ \E k \in 0 .. Len(queue) :
       /\ ~TooLong(KeptBy(k)) /\ \A j \in k + 1 .. Len(queue) : TooLong(KeptBy(j))
       /\ queue' = KeptBy(k)
       /\ dropped' = dropped \cup (ToSet(queue) \ ToSet(KeptBy(k)))
  /\ UNCHANGED <<blocked, params, attached, arrived, sent, taken>>

FilterFirstHead(hop) ==         \* mutant: remove is called without the packet before
  /\ \E i \in DOMAIN queue :
       /\ queue[i].hop = hop /\ \A j \in 1 .. i - 1 : queue[j].hop # hop
       /\ queue' = Tail(queue)
       /\ taken' = taken \cup {queue[i]}
  /\ UNCHANGED <<blocked, params, attached, arrived, sent, dropped>>

\* filter(id): the first packet for a next hop is handed to the caller.
FilterFirst(hop) ==
  /\ \E i \in DOMAIN queue :
       /\ queue[i].hop = hop /\ \A j \in 1 .. i - 1 : queue[j].hop # hop
       /\ queue' = RemoveAt(queue, i)
       /\ taken' = taken \cup {queue[i]}
  /\ UNCHANGED <<blocked, params, attached, arrived, sent, dropped>>

FilterLoopSkipping(q, hop) ==   \* mutant: i is advanced in every round
  LET round(s, p) ==
        IF s.i > Len(s.q) THEN s
        ELSE IF s.q[s.i].hop = hop THEN [q |-> RemoveAt(s.q, s.i), i |-> s.i + 1]
                                   ELSE [s EXCEPT !.i = @ + 1]
  IN  FoldLeft(round, [q |-> q, i |-> 1], q).q

\* filter(f, data) removes the packets f selects; here f tests the next hop.
\* FilterLoop is its loop, one round for each packet: lookup(i) is removed, or
\* i is advanced.
FilterLoop(q, hop) ==
  LET round(s, p) ==
        IF s.i > Len(s.q) THEN s
        ELSE IF s.q[s.i].hop = hop THEN [s EXCEPT !.q = RemoveAt(@, s.i)]
                                   ELSE [s EXCEPT !.i = @ + 1]
  IN  FoldLeft(round, [q |-> q, i |-> 1], q).q

\* What remains of q: the other packets in their order.  It is unique, and
\* what FilterLoop computes (FilterLoopRemovesAll).
Enumerations(S) ==
  {f \in [1 .. Cardinality(S) -> S] : \A j, k \in DOMAIN f : j < k => f[j] < f[k]}

Remainders(q, hop) ==
  {[k \in DOMAIN f |-> q[f[k]]] :
     f \in Enumerations({i \in DOMAIN q : q[i].hop # hop})}

FilterAll(hop) ==
  /\ queue' \in Remainders(queue, hop)
  /\ taken' = taken \cup {p \in ToSet(queue) : p.hop = hop}
  /\ UNCHANGED <<blocked, params, attached, arrived, sent, dropped>>

\* reset: Terminate, or Queue::reset.  A busy link stays busy.
Reset ==
  /\ queue' = <<>>
  /\ dropped' = dropped \cup ToSet(queue)
  /\ UNCHANGED <<blocked, params, attached, arrived, sent, taken>>

\* packetqueue-attach deletes the queue with what is in it and looks the new
\* one up, which the script is assumed to have just made: it is empty.  After a
\* failed lookup every further call dereferences null.
AttachQueue(found) ==
  /\ queue' = <<>>
  /\ taken' = taken \cup ToSet(queue)
  /\ attached' = found
  /\ UNCHANGED <<blocked, params, arrived, sent, dropped>>

QueueNext ==
  /\ attached
  /\ \/ \E up \in BOOLEAN, size \in Size, hop \in Hop : Recv(up, size, hop)
     \/ Resume
     \/ \E l \in Limits, bytes \in BOOLEAN, front \in BOOLEAN :
          SetParameters(l, bytes, front)
     \/ Shrink
     \/ \E hop \in Hop : FilterFirst(hop) \/ FilterAll(hop)
     \/ Reset
     \/ \E found \in BOOLEAN : AttachQueue(found)

QueueSpec == QueueInit /\ [][QueueNext]_qvars

----------------------------------------------------------------------------
(***************************************************************************)
(* Properties.                                                             *)
(***************************************************************************)

\* The type invariant.
QueueTypeOK ==
  /\ queue \in Seq(Packet) /\ sent \in Seq(Packet)
  /\ blocked \in BOOLEAN /\ attached \in BOOLEAN
  /\ limit \in Limits
  /\ inBytes \in BOOLEAN /\ dropFront \in BOOLEAN
  /\ arrived \in Nat
  /\ dropped \subseteq Packet /\ taken \subseteq Packet

\* No packet waits for an idle link: nobody would ever come for it, as only
\* an arrival or resume serves the queue (recvHighPriority bypasses
\* Queue::recv and has its own copy of that).
NoneWaitsForIdleLink == blocked \/ queue = <<>>

\* In what has been sent and what waits, packets that are not backward ants
\* keep the order in which they came, whatever overtakes, is dropped,
\* filtered out or shrunk away between them.
OthersStayInOrder ==
  LET all == sent \o queue
  IN  \A j, k \in DOMAIN all :
        j < k /\ ~(all[j].up /\ PreferRouting) /\ ~(all[k].up /\ PreferRouting)
        => all[j].id < all[k].id

\* A PriQueue serves backward ants first, the last to come before the others.
AntsFirst ==
  PreferRouting =>
    \A j, k \in DOMAIN queue :
      j < k /\ queue[k].up => queue[j].up /\ queue[j].id > queue[k].id

\* Each packet that came is in one place: it waits, was sent, was dropped or
\* was taken out, and no packet is in two.
EachPacketOnce ==
  \A n \in 1 .. arrived :
    LET inQueue == {k \in DOMAIN queue : queue[k].id = n}
        inSent  == {k \in DOMAIN sent : sent[k].id = n}
        gone    == {p \in dropped : p.id = n}
        out     == {p \in taken : p.id = n}
    IN  Cardinality(inQueue) + Cardinality(inSent)
          + Cardinality(gone) + Cardinality(out) = 1

\* The packet that came is one PriQueue prefers, and it is at the head.
ArrivedAtHead ==
  queue' # <<>> /\ Head(queue').id = arrived' /\ Prefers(Head(queue'))

\* The queue only grows as long as there is room: below limit_ packets, one
\* less than limit_ says, whatever the limit was before.  That is the limit of
\* a queue measured in packets, and of backward ants in any queue: their way
\* in does not look at queue_in_bytes_.
GrowsBelowLimit ==
  [][Len(queue') > Len(queue) /\ (inBytes => ArrivedAtHead)
       => Len(queue') < limit]_qvars

\* A PriQueue does not lose a backward ant while a data packet waits that
\* could go instead.
AntsOustOthers ==
  [][~dropFront /\ PreferRouting =>
       \A p \in dropped' \ dropped : p.up => \A k \in DOMAIN queue' : queue'[k].up
    ]_qvars

\* The loop of filter, which removes packets from the list it walks over,
\* finds each of them and leaves the others in order.
FilterLoopRemovesAll ==
  \A hop \in Hop : FilterLoop(queue, hop) \in Remainders(queue, hop)

\* What Queue::recv adds to a queue measured in bytes leaves it below its
\* limit, unless packets are dropped from the front.  (A backward ant is
\* checked against the limit in packets even then.)
GrowsWithinBytes ==
  [][inBytes /\ ~dropFront /\ Bytes(queue') > Bytes(queue)
       => Bytes(queue') < limit * MeanPktSize \/ ArrivedAtHead]_qvars

\* Whichever end packets are dropped from, the queue does not grow to be too
\* long in the sense of shrink_queue ("if the queue would overflow if we added
\* this packet", drop-tail.cc:92-94).
BytesWithinLimit ==
  [][inBytes /\ Bytes(queue') > Bytes(queue) => ~TooLong(queue')]_qvars
=============================================================================
