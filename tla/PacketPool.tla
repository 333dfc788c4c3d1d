------------------------------ MODULE PacketPool ------------------------------
(***************************************************************************)
(* The life of ns-2 packets (class Packet, common/packet.h): packets are   *)
(* made once, handed out by alloc, shared by refcopy, passed through the   *)
(* event queue and put back on a free list when their last holder frees    *)
(* them.  Packet p is the p-th that was made; the free list is a sequence, *)
(* its head first.                                                         *)
(***************************************************************************)
EXTENDS Integers, Sequences, FiniteSets

CONSTANTS
  Payload,      \* user data objects (AppData) that may exist at a time
  NoData,       \* the null pointer
  MaxPackets,   \* bound: packets made
  MaxRefs       \* bound: reference counts

ASSUME PayloadAssumption == NoData \notin Payload
ASSUME PoolBoundsAssumption == MaxPackets \in Nat /\ MaxRefs \in Nat

VARIABLES
  pkt,     \* fflag_, ref_count_, data_ and uid_ > 0 of every packet
  free,    \* free_ and the next_ of the packets in it
  heap,    \* user data objects that exist
  held     \* history: how many holders (objects, the event queue) a packet has

pool == <<pkt, free, heap, held>>

Packet == [live : BOOLEAN, refs : Nat, data : Payload \cup {NoData}, queued : BOOLEAN]
Ids == DOMAIN pkt

\* The holders that may use p: the event queue only keeps it.
Users(p) == held[p] - (IF pkt[p].queued THEN 1 ELSE 0)

PoolInit ==
  /\ pkt = <<>> /\ free = <<>> /\ held = <<>>
  /\ heap = {}

----------------------------------------------------------------------------
(* Packet::alloc, with user data d for copy and alloc(int).                *)
(* It resets the time and uid_ of a recycled packet, not its ref_count_.   *)
Recycle(p, d) ==
  /\ free # <<>> /\ p = Head(free)
  /\ free' = Tail(free)
  /\ pkt' = [pkt EXCEPT ![p] = [@ EXCEPT !.live = TRUE, !.data = d, !.queued = FALSE]]
  /\ held' = [held EXCEPT ![p] = 1]

Make(p, d) ==
  /\ free = <<>> /\ p = Len(pkt) + 1 /\ p <= MaxPackets
  /\ pkt' = Append(pkt, [live |-> TRUE, refs |-> 0, data |-> d, queued |-> FALSE])
  /\ held' = Append(held, 1)
  /\ UNCHANGED free

New(p, d) == Recycle(p, d) \/ Make(p, d)

\* alloc() leaves data_ as it is, which must be null.
Alloc(p) == New(p, IF p \in Ids THEN pkt[p].data ELSE NoData) /\ UNCHANGED heap

AllocWithData(p, d) ==
  /\ d \in Payload \ heap
  /\ New(p, d)
  /\ heap' = heap \cup {d}

CopyShares(from, p, d) ==       \* mutant: the pointer to the data is copied
  /\ from \in Ids /\ Users(from) > 0
  /\ New(p, pkt[from].data) /\ UNCHANGED heap

\* copy: a packet of its own, with a copy of the user data.
CopyPacket(from, p, d) ==
  /\ from \in Ids /\ Users(from) > 0
  /\ IF pkt[from].data = NoData THEN Alloc(p) ELSE AllocWithData(p, d)

RefCopy(p) ==
  /\ Users(p) > 0 /\ pkt[p].refs < MaxRefs
  /\ pkt' = [pkt EXCEPT ![p].refs = @ + 1]
  /\ held' = [held EXCEPT ![p] = @ + 1]
  /\ UNCHANGED <<free, heap>>

\* setdata, and allocdata where there is none: what was there is deleted.  It
\* is given null or an object of no other packet (setdata could not tell): the
\* assumption on its callers that DataOwned rests on.
SetData(p, d) ==
  /\ Users(p) > 0 /\ d \in (Payload \ heap) \cup {NoData}
  /\ pkt' = [pkt EXCEPT ![p].data = d]
  /\ heap' = (heap \ {pkt[p].data}) \cup ({d} \ {NoData})
  /\ UNCHANGED <<free, held>>

\* initdata forgets the data without deleting it.
InitData(p) ==
  /\ Users(p) > 0
  /\ pkt' = [pkt EXCEPT ![p].data = NoData]
  /\ UNCHANGED <<free, heap, held>>

\* The scheduler takes over the hold of the one who schedules the packet, and
\* refuses an event it has already.  The handler gets it back.
Schedule(p) ==
  /\ Users(p) > 0 /\ ~pkt[p].queued
  /\ pkt' = [pkt EXCEPT ![p].queued = TRUE]
  /\ UNCHANGED <<free, heap, held>>

Dispatch(p) ==
  /\ pkt[p].queued
  /\ pkt' = [pkt EXCEPT ![p].queued = FALSE]
  /\ UNCHANGED <<free, heap, held>>

----------------------------------------------------------------------------
\* Packet::free for the last holder.
Release(p) ==
  /\ heap' = heap \ {pkt[p].data}
  /\ pkt' = [pkt EXCEPT ![p] = [@ EXCEPT !.live = FALSE, !.data = NoData]]
  /\ free' = <<p>> \o free

FreeUnmarked(p) ==      \* mutant: fflag_ is not looked at
  IF pkt[p].refs = 0
    THEN Release(p) /\ held' = [held EXCEPT ![p] = 0]
    ELSE /\ pkt' = [pkt EXCEPT ![p].refs = @ - 1]
         /\ held' = [held EXCEPT ![p] = @ - 1]
         /\ UNCHANGED <<free, heap>>

FreeCountsFirst(p) ==   \* mutant: the count goes down before it is tested
  /\ pkt[p].live
  /\ held' = [held EXCEPT ![p] = @ - 1]
  /\ IF pkt[p].refs = 1 THEN Release(p)
     ELSE pkt' = [pkt EXCEPT ![p].refs = @ - 1] /\ UNCHANGED <<free, heap>>

FreeForAll(p) ==        \* mutant: the reference count is not looked at
  /\ pkt[p].live
  /\ Release(p) /\ held' = [held EXCEPT ![p] = @ - 1]

(* Packet::free, by a holder; or once more by one who has freed the packet *)
(* already, which fflag_ makes harmless until the packet is handed out.    *)
FreePacket(p) ==
  /\ Users(p) > 0 \/ ~pkt[p].live
  /\ IF ~pkt[p].live THEN UNCHANGED pool
     ELSE /\ held' = [held EXCEPT ![p] = @ - 1]
          /\ IF pkt[p].refs = 0 THEN Release(p)
             ELSE pkt' = [pkt EXCEPT ![p].refs = @ - 1] /\ UNCHANGED <<free, heap>>

PoolNext ==
  \/ \E p \in 1 .. MaxPackets, d \in Payload : AllocWithData(p, d)
  \/ \E p \in 1 .. MaxPackets : Alloc(p)
  \/ \E q \in Ids, p \in 1 .. MaxPackets, d \in Payload : CopyPacket(q, p, d)
  \/ \E p \in Ids : \/ RefCopy(p) \/ InitData(p) \/ Schedule(p) \/ Dispatch(p) \/ FreePacket(p)
                    \/ \E d \in Payload \cup {NoData} : SetData(p, d)

PoolSpec == PoolInit /\ [][PoolNext]_pool

----------------------------------------------------------------------------
PoolTypeOK ==
  /\ pkt \in Seq(Packet) /\ held \in Seq(Nat) /\ Len(held) = Len(pkt)
  /\ free \in Seq(Ids) /\ heap \subseteq Payload

(* The free list holds every packet that was freed once, however often it  *)
(* was, and none that someone still uses; what is in it is clean, as       *)
(* alloc asserts.                                                          *)
FreeListSound ==
  /\ \A i, j \in DOMAIN free : free[i] = free[j] => i = j
  /\ \A p \in Ids : pkt[p].live <=> \A i \in DOMAIN free : free[i] # p
  /\ \A p \in Ids : ~pkt[p].live => /\ pkt[p].refs = 0 /\ pkt[p].data = NoData
                                    /\ ~pkt[p].queued /\ held[p] = 0

(* The reference count is what the packet has of holders beyond the first, *)
(* so that no packet is put back under a holder, nor (the assertion on     *)
(* uid_ in free) while it is in the event queue.                           *)
HoldersCounted == \A p \in Ids : pkt[p].live => held[p] = pkt[p].refs + 1

(* User data belongs to one packet and exists as long as that points to    *)
(* it: nothing is deleted twice, by setdata, copy and free in any order.   *)
DataOwned ==
  \A p \in Ids : pkt[p].data # NoData =>
    /\ pkt[p].data \in heap
    /\ \A q \in Ids : pkt[q].data = pkt[p].data => q = p
=============================================================================
