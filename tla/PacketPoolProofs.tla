--------------------------- MODULE PacketPoolProofs ---------------------------
(***************************************************************************)
(* Theorems about PacketPool, for any number of packets, references and    *)
(* user data objects.                                                      *)
(***************************************************************************)
EXTENDS PacketPool, TLAPS

\* Inductive: the four invariants hold each other up.
PoolInv == PoolTypeOK /\ FreeListSound /\ HoldersCounted /\ DataOwned

InFree(q) == \E i \in DOMAIN free : free[i] = q

----------------------------------------------------------------------------
\* What is known of a packet, one field at a time.
LEMMA PacketFacts ==
  ASSUME PoolInv, NEW p \in Ids
  PROVE  /\ p \in 1 .. Len(pkt) /\ Ids = 1 .. Len(pkt) /\ Ids = DOMAIN held /\ Len(pkt) \in Nat
         /\ pkt[p] \in Packet /\ held[p] \in Nat
         /\ pkt[p].live => held[p] = pkt[p].refs + 1
         /\ ~pkt[p].live => pkt[p].refs = 0 /\ pkt[p].data = NoData /\ ~pkt[p].queued /\ held[p] = 0
         /\ pkt[p].live <=> ~InFree(p)
         /\ pkt[p].data # NoData => pkt[p].data \in heap
<1>1. /\ p \in 1 .. Len(pkt) /\ Ids = 1 .. Len(pkt) /\ Ids = DOMAIN held /\ Len(pkt) \in Nat
      /\ pkt[p] \in Packet /\ held[p] \in Nat
  BY DEF PoolInv, PoolTypeOK, Ids
<1>2. /\ pkt[p].live => held[p] = pkt[p].refs + 1
      /\ pkt[p].data # NoData => pkt[p].data \in heap
  BY DEF PoolInv, HoldersCounted, DataOwned
<1>3. ~pkt[p].live => pkt[p].refs = 0 /\ pkt[p].data = NoData /\ ~pkt[p].queued /\ held[p] = 0
  BY DEF PoolInv, FreeListSound
<1>4. pkt[p].live <=> ~InFree(p)
  BY DEF PoolInv, FreeListSound, InFree
<1> QED
  BY <1>1, <1>2, <1>3, <1>4

\* A packet with a user other than the event queue is live.
LEMMA UsedIsLive ==
  ASSUME PoolInv, NEW p \in Ids, Users(p) > 0
  PROVE  pkt[p].live /\ (pkt[p].refs = 0 => ~pkt[p].queued)
BY PacketFacts DEF Users, Packet

\* Replacing one packet and its holders, with the free list as it is.
Replaces(p, r, h) ==
  /\ r \in Packet /\ h \in Nat
  /\ pkt' = [pkt EXCEPT ![p] = r] /\ held' = [held EXCEPT ![p] = h] /\ free' = free
  /\ pkt[p].live /\ r.live /\ h = r.refs + 1
  /\ heap' \subseteq Payload /\ (r.data # NoData => r.data \in heap')
  /\ \A q \in Ids : q # p /\ pkt[q].data # NoData => pkt[q].data \in heap' /\ pkt[q].data # r.data

LEMMA ReplaceInv ==
  ASSUME PoolInv, NEW p \in Ids, NEW r, NEW h, Replaces(p, r, h)
  PROVE  PoolInv'
<1> USE DEF Replaces
<1>1. /\ pkt' \in Seq(Packet) /\ Len(pkt') = Len(pkt) /\ Ids' = Ids /\ pkt'[p] = r
      /\ \A q \in Ids : q # p => pkt'[q] = pkt[q]
  BY DEF PoolInv, PoolTypeOK, Ids
<1>2. /\ held' \in Seq(Nat) /\ Len(held') = Len(held) /\ held'[p] = h
      /\ \A q \in Ids : q # p => held'[q] = held[q]
  BY PacketFacts DEF PoolInv, PoolTypeOK
<1>3. PoolTypeOK'
  BY <1>1, <1>2 DEF PoolInv, PoolTypeOK
<1>4. FreeListSound'
  <2>1. \A i, j \in DOMAIN free' : free'[i] = free'[j] => i = j
    BY DEF PoolInv, FreeListSound
  <2>2. \A q \in Ids : pkt'[q].live <=> pkt[q].live
    BY <1>1
  <2>3. \A q \in Ids' : pkt'[q].live <=> \A i \in DOMAIN free' : free'[i] # q
    BY <1>1, <2>2 DEF PoolInv, FreeListSound
  <2>4. \A q \in Ids' : ~pkt'[q].live => /\ pkt'[q].refs = 0 /\ pkt'[q].data = NoData
                                         /\ ~pkt'[q].queued /\ held'[q] = 0
    BY <1>1, <1>2 DEF PoolInv, FreeListSound
  <2> QED
    BY <2>1, <2>3, <2>4 DEF FreeListSound
<1>5. HoldersCounted'
  BY <1>1, <1>2 DEF PoolInv, HoldersCounted
<1>6. DataOwned'
  BY <1>1 DEF PoolInv, DataOwned
<1> QED
  BY <1>3, <1>4, <1>5, <1>6 DEF PoolInv

----------------------------------------------------------------------------
\* The ways user data d comes with a new packet: none, or a fresh object.
Fresh(d) ==
  \/ d = NoData /\ heap' = heap
  \/ d \in Payload \ heap /\ heap' = heap \cup {d}

LEMMA RecycleInv ==
  ASSUME PoolInv, NEW p, NEW d, Recycle(p, d), Fresh(d)
  PROVE  PoolInv'
<1>1. /\ free \in Seq(Ids) /\ Len(free) \in Nat /\ Len(free) >= 1 /\ p = free[1] /\ p \in Ids
      /\ DOMAIN free = 1 .. Len(free)
  BY DEF PoolInv, PoolTypeOK, Recycle
<1>2. /\ free' \in Seq(Ids) /\ Len(free') = Len(free) - 1 /\ DOMAIN free' = 1 .. Len(free) - 1
      /\ \A i \in 1 .. Len(free) - 1 : free'[i] = free[i + 1]
  BY <1>1 DEF Recycle
<1>3. d \in Payload \cup {NoData} /\ heap \subseteq heap' /\ heap' \subseteq Payload
  BY DEF Fresh, PoolInv, PoolTypeOK
<1>4. ~pkt[p].live /\ pkt[p].refs = 0
  <2>1. InFree(p)
    BY <1>1 DEF InFree
  <2> QED
    BY <1>1, <2>1, PacketFacts
<1>5. /\ pkt' \in Seq(Packet) /\ Len(pkt') = Len(pkt) /\ Ids' = Ids
      /\ pkt'[p].live /\ pkt'[p].refs = 0 /\ pkt'[p].data = d /\ ~pkt'[p].queued
      /\ \A q \in Ids : q # p => pkt'[q] = pkt[q]
  <2>1. pkt[p] \in Packet
    BY <1>1, PacketFacts
  <2> DEFINE s == [pkt[p] EXCEPT !.live = TRUE, !.data = d, !.queued = FALSE]
  <2>2. s \in Packet /\ s.live /\ s.refs = 0 /\ s.data = d /\ ~s.queued
    BY <1>3, <1>4, <2>1 DEF Packet
  <2>3. pkt' = [pkt EXCEPT ![p] = s]
    BY DEF Recycle
  <2> HIDE DEF s
  <2> QED
    BY <1>1, <2>2, <2>3 DEF PoolInv, PoolTypeOK, Ids
<1>6. /\ held' \in Seq(Nat) /\ Len(held') = Len(held) /\ held'[p] = 1
      /\ \A q \in Ids : q # p => held'[q] = held[q]
  BY <1>1, PacketFacts DEF PoolInv, PoolTypeOK, Recycle
<1>7. \A q \in Ids : (\A i \in DOMAIN free' : free'[i] # q) <=> (q = p \/ \A i \in DOMAIN free : free[i] # q)
  <2> TAKE q \in Ids
  <2>1. ASSUME q # p, \A i \in DOMAIN free' : free'[i] # q, NEW i \in DOMAIN free
        PROVE  free[i] # q
    <3>1. CASE i = 1
      BY <1>1, <2>1, <3>1
    <3>2. CASE i # 1
      <4>1. i - 1 \in 1 .. Len(free) - 1 /\ (i - 1) + 1 = i
        BY <1>1, <3>2
      <4> QED
        BY <1>2, <2>1, <4>1
    <3> QED
      BY <3>1, <3>2
  <2>2. ASSUME q = p \/ (\A i \in DOMAIN free : free[i] # q), NEW i \in DOMAIN free'
        PROVE  free'[i] # q
    <3>1. i + 1 \in DOMAIN free /\ i + 1 # 1 /\ free'[i] = free[i + 1]
      BY <1>1, <1>2
    <3>2. free[i + 1] # p
      BY <1>1, <3>1 DEF PoolInv, FreeListSound
    <3> QED
      BY <2>2, <3>1, <3>2
  <2> QED
    BY <2>1, <2>2
<1>8. PoolTypeOK'
  BY <1>2, <1>3, <1>5, <1>6 DEF PoolInv, PoolTypeOK
<1>9. FreeListSound'
  <2>1. \A i, j \in DOMAIN free' : free'[i] = free'[j] => i = j
    <3> SUFFICES ASSUME NEW i \in DOMAIN free', NEW j \in DOMAIN free', free'[i] = free'[j]
                 PROVE  i = j
      OBVIOUS
    <3>1. /\ i \in Nat /\ j \in Nat /\ i + 1 \in DOMAIN free /\ j + 1 \in DOMAIN free
          /\ free[i + 1] = free[j + 1]
      BY <1>1, <1>2
    <3>2. i + 1 = j + 1
      BY <3>1 DEF PoolInv, FreeListSound
    <3> QED
      BY <3>1, <3>2
  <2>2. \A q \in Ids' : pkt'[q].live <=> \A i \in DOMAIN free' : free'[i] # q
    <3> TAKE q \in Ids'
    <3>1. q \in Ids /\ (pkt[q].live <=> \A i \in DOMAIN free : free[i] # q)
      BY <1>5 DEF PoolInv, FreeListSound
    <3>2. CASE q = p
      BY <1>5, <1>7, <3>1, <3>2
    <3>3. CASE q # p
      BY <1>5, <1>7, <3>1, <3>3
    <3> QED
      BY <3>2, <3>3
  <2>3. \A q \in Ids' : ~pkt'[q].live => /\ pkt'[q].refs = 0 /\ pkt'[q].data = NoData
                                         /\ ~pkt'[q].queued /\ held'[q] = 0
    BY <1>5, <1>6 DEF PoolInv, FreeListSound
  <2> QED
    BY <2>1, <2>2, <2>3 DEF FreeListSound
<1>10. HoldersCounted'
  BY <1>5, <1>6 DEF PoolInv, HoldersCounted
<1>11. DataOwned'
  BY <1>3, <1>5 DEF PoolInv, DataOwned, Fresh
<1> QED
  BY <1>8, <1>9, <1>10, <1>11 DEF PoolInv

LEMMA MakeInv ==
  ASSUME PoolInv, NEW p, NEW d, Make(p, d), Fresh(d)
  PROVE  PoolInv'
<1> DEFINE s == [live |-> TRUE, refs |-> 0, data |-> d, queued |-> FALSE]
<1>1. free = <<>> /\ DOMAIN free = {} /\ free' = free /\ Len(pkt) \in Nat /\ p = Len(pkt) + 1
  BY DEF Make, PoolInv, PoolTypeOK
<1>2. d \in Payload \cup {NoData} /\ heap \subseteq heap' /\ heap' \subseteq Payload
  BY DEF Fresh, PoolInv, PoolTypeOK
<1>3. s \in Packet /\ s.live /\ s.refs = 0 /\ s.data = d /\ ~s.queued
  BY <1>2 DEF Packet
<1>4. pkt' = Append(pkt, s) /\ held' = Append(held, 1)
  BY DEF Make
<1> HIDE DEF s
<1>5. /\ pkt' \in Seq(Packet) /\ Len(pkt') = p /\ Ids' = 1 .. p /\ Ids = 1 .. p - 1
      /\ pkt'[p] = s /\ \A q \in Ids : pkt'[q] = pkt[q]
  BY <1>1, <1>3, <1>4 DEF PoolInv, PoolTypeOK, Ids
<1>6. /\ held' \in Seq(Nat) /\ Len(held') = p /\ held'[p] = 1
      /\ \A q \in Ids : held'[q] = held[q]
  BY <1>1, <1>4, <1>5 DEF PoolInv, PoolTypeOK
<1>7. \A q \in Ids : pkt[q].live
  BY <1>1 DEF PoolInv, FreeListSound
<1>8. \A q \in Ids' : q = p \/ q \in Ids
  BY <1>1, <1>5
<1>9. PoolTypeOK'
  <2>1. free' \in Seq(Ids')
    BY <1>1
  <2> QED
    BY <1>2, <1>5, <1>6, <2>1 DEF PoolTypeOK
<1>10. FreeListSound'
  BY <1>1, <1>3, <1>5, <1>7, <1>8 DEF FreeListSound
<1>11. HoldersCounted'
  BY <1>3, <1>5, <1>6, <1>8 DEF PoolInv, HoldersCounted
<1>12. DataOwned'
  <2> SUFFICES ASSUME NEW q \in Ids', NEW u \in Ids', pkt'[q].data # NoData
               PROVE  pkt'[q].data \in heap' /\ (pkt'[u].data = pkt'[q].data => u = q)
    BY DEF DataOwned
  <2>1. \A v \in Ids : pkt[v].data # NoData => pkt[v].data \in heap
    BY DEF PoolInv, DataOwned
  <2>2. CASE q = p
    <3>1. d # NoData /\ d \in heap' /\ d \notin heap
      BY <1>3, <1>5, <2>2 DEF Fresh
    <3> QED
      BY <1>3, <1>5, <1>8, <2>1, <2>2, <3>1
  <2>3. CASE q # p
    <3>1. q \in Ids /\ pkt'[q] = pkt[q] /\ pkt[q].data \in heap
      BY <1>5, <1>8, <2>1, <2>3
    <3>2. u = p => pkt'[u].data # pkt'[q].data
      BY <1>3, <1>5, <3>1 DEF Fresh
    <3> QED
      BY <1>2, <1>5, <1>8, <3>1, <3>2 DEF PoolInv, DataOwned
  <2> QED
    BY <2>2, <2>3
<1> QED
  BY <1>9, <1>10, <1>11, <1>12 DEF PoolInv

\* Packet::free, as far as it changes something.
LEMMA ReleaseInv ==
  ASSUME PoolInv, NEW p \in Ids, Users(p) > 0, pkt[p].refs = 0,
         Release(p), held' = [held EXCEPT ![p] = @ - 1]
  PROVE  PoolInv'
<1>1. /\ free \in Seq(Ids) /\ Len(free) \in Nat /\ DOMAIN free = 1 .. Len(free)
      /\ free' = <<p>> \o free
  BY DEF PoolInv, PoolTypeOK, Release
<1>2. /\ free' \in Seq(Ids) /\ Len(free') = Len(free) + 1 /\ DOMAIN free' = 1 .. Len(free) + 1
      /\ free'[1] = p /\ \A i \in 1 .. Len(free) : free'[i + 1] = free[i]
  BY <1>1
<1>3. pkt[p].live /\ ~pkt[p].queued /\ held[p] = 1 /\ pkt[p] \in Packet
  BY UsedIsLive, PacketFacts
<1> DEFINE s == [pkt[p] EXCEPT !.live = FALSE, !.data = NoData]
<1>4. s \in Packet /\ ~s.live /\ s.refs = 0 /\ s.data = NoData /\ ~s.queued
  BY <1>3 DEF Packet
<1>5. pkt' = [pkt EXCEPT ![p] = s] /\ heap' = heap \ {pkt[p].data}
  BY DEF Release
<1> HIDE DEF s
<1>6. /\ pkt' \in Seq(Packet) /\ Len(pkt') = Len(pkt) /\ Ids' = Ids /\ pkt'[p] = s
      /\ \A q \in Ids : q # p => pkt'[q] = pkt[q]
  BY <1>4, <1>5 DEF PoolInv, PoolTypeOK, Ids
<1>7. /\ held' \in Seq(Nat) /\ Len(held') = Len(held) /\ held'[p] = 0
      /\ \A q \in Ids : q # p => held'[q] = held[q]
  BY <1>3, PacketFacts DEF PoolInv, PoolTypeOK
<1>8. \A i \in DOMAIN free : free[i] # p
  BY <1>3, PacketFacts DEF InFree
<1>9. \A i \in DOMAIN free' : i = 1 \/ (i - 1 \in DOMAIN free /\ free'[i] = free[i - 1])
  <2> TAKE i \in DOMAIN free'
  <2>1. CASE i # 1
    <3>1. i - 1 \in 1 .. Len(free) /\ (i - 1) + 1 = i
      BY <1>1, <1>2, <2>1
    <3> QED
      BY <1>1, <1>2, <3>1
  <2> QED
    BY <2>1
<1>10. PoolTypeOK'
  BY <1>2, <1>5, <1>6, <1>7 DEF PoolInv, PoolTypeOK
<1>11. FreeListSound'
  <2>1. ASSUME NEW i \in DOMAIN free', NEW j \in DOMAIN free', free'[i] = free'[j]
        PROVE  i = j
    <3>1. CASE i = 1 \/ j = 1
      BY <1>2, <1>8, <1>9, <2>1, <3>1
    <3>2. CASE i # 1 /\ j # 1
      <4>1. i - 1 = j - 1
        BY <1>9, <2>1, <3>2 DEF PoolInv, FreeListSound
      <4> QED
        BY <1>2, <4>1
    <3> QED
      BY <3>1, <3>2
  <2>2. ASSUME NEW q \in Ids'
        PROVE  pkt'[q].live <=> \A i \in DOMAIN free' : free'[i] # q
    <3>1. CASE q = p
      <4>1. 1 \in DOMAIN free' /\ free'[1] = q
        BY <1>1, <1>2, <3>1
      <4> QED
        BY <1>4, <1>6, <3>1, <4>1
    <3>2. CASE q # p
      <4>1. q \in Ids /\ (pkt[q].live <=> \A i \in DOMAIN free : free[i] # q)
        BY <1>6 DEF PoolInv, FreeListSound
      <4>2. ASSUME \A i \in DOMAIN free' : free'[i] # q, NEW i \in DOMAIN free
            PROVE  free[i] # q
        <5>1. i + 1 \in DOMAIN free' /\ free'[i + 1] = free[i]
          BY <1>1, <1>2
        <5> QED
          BY <4>2, <5>1
      <4>3. ASSUME \A i \in DOMAIN free : free[i] # q, NEW i \in DOMAIN free'
            PROVE  free'[i] # q
        BY <1>2, <1>9, <3>2, <4>3
      <4> QED
        BY <1>6, <3>2, <4>1, <4>2, <4>3
    <3> QED
      BY <3>1, <3>2
  <2>3. \A q \in Ids' : ~pkt'[q].live => /\ pkt'[q].refs = 0 /\ pkt'[q].data = NoData
                                         /\ ~pkt'[q].queued /\ held'[q] = 0
    BY <1>4, <1>6, <1>7 DEF PoolInv, FreeListSound
  <2> QED
    BY <2>1, <2>2, <2>3 DEF FreeListSound
<1>12. HoldersCounted'
  BY <1>4, <1>6, <1>7 DEF PoolInv, HoldersCounted
<1>13. DataOwned'
  BY <1>4, <1>5, <1>6 DEF PoolInv, DataOwned
<1> QED
  BY <1>10, <1>11, <1>12, <1>13 DEF PoolInv

----------------------------------------------------------------------------
LEMMA NewInv ==
  ASSUME PoolInv, NEW p, NEW d, New(p, d), Fresh(d)
  PROVE  PoolInv'
BY RecycleInv, MakeInv DEF New

LEMMA AllocInv ==
  ASSUME PoolInv, NEW p, Alloc(p)
  PROVE  PoolInv'
<1> DEFINE d == IF p \in Ids THEN pkt[p].data ELSE NoData
<1>1. New(p, d) /\ heap' = heap
  BY DEF Alloc
<1>2. d = NoData
  <2>1. CASE p \in Ids /\ free # <<>>
    <3>1. p = free[1] /\ 1 \in DOMAIN free
      BY <1>1, <2>1 DEF New, Recycle, Make, PoolInv, PoolTypeOK
    <3> QED
      BY <2>1, <3>1, PacketFacts DEF InFree
  <2>2. CASE p \in Ids /\ free = <<>>
    <3>1. p = Len(pkt) + 1 /\ p \in 1 .. Len(pkt) /\ Len(pkt) \in Nat
      BY <1>1, <2>2, PacketFacts DEF New, Recycle, Make
    <3> QED
      BY <3>1
  <2> QED
    BY <2>1, <2>2
<1> QED
  BY <1>1, <1>2, NewInv DEF Fresh

LEMMA AllocWithDataInv ==
  ASSUME PoolInv, NEW p, NEW d, AllocWithData(p, d)
  PROVE  PoolInv'
BY NewInv DEF AllocWithData, Fresh

LEMMA FreePacketInv ==
  ASSUME PoolInv, NEW p \in Ids, FreePacket(p)
  PROVE  PoolInv'
<1>1. CASE ~pkt[p].live
  BY <1>1 DEF FreePacket, pool, PoolInv, PoolTypeOK, FreeListSound, HoldersCounted, DataOwned, Ids
<1>2. CASE pkt[p].live /\ pkt[p].refs = 0
  BY <1>2, ReleaseInv DEF FreePacket
<1>3. CASE pkt[p].live /\ pkt[p].refs # 0
  <2> DEFINE r == [pkt[p] EXCEPT !.refs = @ - 1]
             h == held[p] - 1
  <2>1. /\ pkt[p] \in Packet /\ held[p] = pkt[p].refs + 1
        /\ pkt[p].data # NoData => pkt[p].data \in heap
    BY <1>3, PacketFacts
  <2>2. r \in Packet /\ r.live /\ r.data = pkt[p].data /\ h \in Nat /\ h = r.refs + 1
    BY <1>3, <2>1 DEF Packet
  <2>3. pkt' = [pkt EXCEPT ![p] = r] /\ held' = [held EXCEPT ![p] = h] /\ UNCHANGED <<free, heap>>
    BY <1>3 DEF FreePacket
  <2>4. \A q \in Ids : q # p /\ pkt[q].data # NoData => pkt[q].data \in heap /\ pkt[q].data # r.data
    BY <2>2 DEF PoolInv, DataOwned
  <2> HIDE DEF r, h
  <2>5. /\ heap' \subseteq Payload /\ (r.data # NoData => r.data \in heap')
        /\ \A q \in Ids : q # p /\ pkt[q].data # NoData => pkt[q].data \in heap' /\ pkt[q].data # r.data
    BY <2>1, <2>2, <2>3, <2>4 DEF PoolInv, PoolTypeOK
  <2>6. r \in Packet /\ h \in Nat
    BY <2>2
  <2>7. Replaces(p, r, h)
    BY <1>3, <2>2, <2>3, <2>5, <2>6 DEF Replaces
  <2> QED
    BY <2>7, ReplaceInv
<1> QED
  BY <1>1, <1>2, <1>3

\* The steps of a holder that keeps the packet.
LEMMA UseInv ==
  ASSUME PoolInv, NEW p \in Ids,
         \/ RefCopy(p) \/ InitData(p) \/ Schedule(p) \/ Dispatch(p)
         \/ \E d \in Payload \cup {NoData} : SetData(p, d)
  PROVE  PoolInv'
<1>1. /\ pkt[p] \in Packet /\ held[p] \in Nat /\ (pkt[p].live => held[p] = pkt[p].refs + 1)
      /\ pkt[p].data # NoData => pkt[p].data \in heap
  BY PacketFacts
<1>2. pkt[p].live
  BY UsedIsLive, PacketFacts DEF RefCopy, InitData, Schedule, Dispatch, SetData
<1>3. /\ heap \subseteq Payload /\ NoData \notin heap
      /\ \A q \in Ids : q # p /\ pkt[q].data # NoData => pkt[q].data \in heap /\ pkt[q].data # pkt[p].data
  BY PayloadAssumption DEF PoolInv, PoolTypeOK, DataOwned
<1>4. held = [held EXCEPT ![p] = held[p]]
  BY PacketFacts DEF PoolInv, PoolTypeOK
<1>5. CASE RefCopy(p)
  <2> DEFINE r == [pkt[p] EXCEPT !.refs = @ + 1]
  <2>1. r \in Packet /\ r.live /\ r.data = pkt[p].data /\ held[p] + 1 \in Nat /\ held[p] + 1 = r.refs + 1
    BY <1>1, <1>2 DEF Packet
  <2>2. /\ pkt' = [pkt EXCEPT ![p] = r] /\ held' = [held EXCEPT ![p] = held[p] + 1]
        /\ UNCHANGED <<free, heap>>
    BY <1>5 DEF RefCopy
  <2> HIDE DEF r
  <2>3. /\ heap' \subseteq Payload /\ (r.data # NoData => r.data \in heap')
        /\ \A q \in Ids : q # p /\ pkt[q].data # NoData => pkt[q].data \in heap' /\ pkt[q].data # r.data
    BY <1>1, <1>3, <2>1, <2>2
  <2>4. r \in Packet /\ held[p] + 1 \in Nat
    BY <1>1, <2>1
  <2>7. Replaces(p, r, held[p] + 1)
    BY <1>2, <1>4, <2>1, <2>2, <2>3, <2>4 DEF Replaces
  <2> QED
    BY <2>7, ReplaceInv
<1>6. CASE InitData(p)
  <2> DEFINE r == [pkt[p] EXCEPT !.data = NoData]
  <2>1. r \in Packet /\ r.live /\ r.data = NoData /\ held[p] = r.refs + 1
    BY <1>1, <1>2 DEF Packet
  <2>2. pkt' = [pkt EXCEPT ![p] = r] /\ held' = held /\ UNCHANGED <<free, heap>>
    BY <1>6 DEF InitData
  <2> HIDE DEF r
  <2>3. /\ heap' \subseteq Payload /\ (r.data # NoData => r.data \in heap')
        /\ \A q \in Ids : q # p /\ pkt[q].data # NoData => pkt[q].data \in heap' /\ pkt[q].data # r.data
    BY <1>1, <1>3, <2>1, <2>2
  <2>4. r \in Packet /\ held[p] \in Nat
    BY <1>1, <2>1
  <2>7. Replaces(p, r, held[p])
    BY <1>2, <1>4, <2>1, <2>2, <2>3, <2>4 DEF Replaces
  <2> QED
    BY <2>7, ReplaceInv
<1>7. CASE Schedule(p) \/ Dispatch(p)
  <2>1. PICK b \in BOOLEAN : /\ pkt' = [pkt EXCEPT ![p] = [pkt[p] EXCEPT !.queued = b]]
                             /\ UNCHANGED <<free, heap, held>>
    <3>1. CASE Schedule(p)
      BY <3>1 DEF Schedule
    <3>2. CASE Dispatch(p)
      BY <3>2 DEF Dispatch
    <3> QED
      BY <1>7, <3>1, <3>2
  <2> DEFINE r == [pkt[p] EXCEPT !.queued = b]
  <2>2. r \in Packet /\ r.live /\ r.data = pkt[p].data /\ held[p] = r.refs + 1
    BY <1>1, <1>2 DEF Packet
  <2>3. pkt' = [pkt EXCEPT ![p] = r] /\ held' = held /\ UNCHANGED <<free, heap>>
    BY <2>1
  <2> HIDE DEF r
  <2>4. /\ heap' \subseteq Payload /\ (r.data # NoData => r.data \in heap')
        /\ \A q \in Ids : q # p /\ pkt[q].data # NoData => pkt[q].data \in heap' /\ pkt[q].data # r.data
    BY <1>1, <1>3, <2>2, <2>3
  <2>5. r \in Packet /\ held[p] \in Nat
    BY <1>1, <2>2
  <2>7. Replaces(p, r, held[p])
    BY <1>2, <1>4, <2>2, <2>3, <2>4, <2>5 DEF Replaces
  <2> QED
    BY <2>7, ReplaceInv
<1>8. ASSUME NEW d \in Payload \cup {NoData}, SetData(p, d)
      PROVE  PoolInv'
  <2> DEFINE r == [pkt[p] EXCEPT !.data = d]
  <2>1. r \in Packet /\ r.live /\ r.data = d /\ held[p] = r.refs + 1
    BY <1>1, <1>2 DEF Packet
  <2>2. /\ pkt' = [pkt EXCEPT ![p] = r] /\ held' = held /\ UNCHANGED free
        /\ heap' = (heap \ {pkt[p].data}) \cup ({d} \ {NoData}) /\ d \notin heap
    BY <1>3, <1>8 DEF SetData
  <2> HIDE DEF r
  <2>3. /\ heap' \subseteq Payload /\ (r.data # NoData => r.data \in heap')
        /\ \A q \in Ids : q # p /\ pkt[q].data # NoData => pkt[q].data \in heap' /\ pkt[q].data # r.data
    BY <1>1, <1>3, <2>1, <2>2
  <2>4. r \in Packet /\ held[p] \in Nat
    BY <1>1, <2>1
  <2>7. Replaces(p, r, held[p])
    BY <1>2, <1>4, <2>1, <2>2, <2>3, <2>4 DEF Replaces
  <2> QED
    BY <2>7, ReplaceInv
<1> QED
  BY <1>5, <1>6, <1>7, <1>8

----------------------------------------------------------------------------
LEMMA PoolInitInv == PoolInit => PoolInv
<1> SUFFICES ASSUME PoolInit PROVE PoolInv
  OBVIOUS
<1>1. Ids = {} /\ DOMAIN free = {}
  BY DEF PoolInit, Ids
<1> QED
  BY <1>1 DEF PoolInit, PoolInv, PoolTypeOK, FreeListSound, HoldersCounted, DataOwned

LEMMA PoolStepInv ==
  ASSUME PoolInv, [PoolNext]_pool
  PROVE  PoolInv'
<1>1. ASSUME NEW p \in 1 .. MaxPackets, NEW d \in Payload, AllocWithData(p, d)
      PROVE  PoolInv'
  BY <1>1, AllocWithDataInv
<1>2. ASSUME NEW p \in 1 .. MaxPackets, Alloc(p)
      PROVE  PoolInv'
  BY <1>2, AllocInv
<1>3. ASSUME NEW q \in Ids, NEW p \in 1 .. MaxPackets, NEW d \in Payload, CopyPacket(q, p, d)
      PROVE  PoolInv'
  BY <1>3, AllocInv, AllocWithDataInv DEF CopyPacket
<1>4. ASSUME NEW p \in Ids, FreePacket(p)
      PROVE  PoolInv'
  BY <1>4, FreePacketInv
<1>5. ASSUME NEW p \in Ids,
             \/ RefCopy(p) \/ InitData(p) \/ Schedule(p) \/ Dispatch(p)
             \/ \E d \in Payload \cup {NoData} : SetData(p, d)
      PROVE  PoolInv'
  BY <1>5, UseInv
<1>6. CASE UNCHANGED pool
  BY <1>6 DEF pool, PoolInv, PoolTypeOK, FreeListSound, HoldersCounted, DataOwned, Ids
<1> QED
  BY <1>1, <1>2, <1>3, <1>4, <1>5, <1>6 DEF PoolNext

(* Every packet is either in the free list, once and clean, or has one     *)
(* holder more than its reference count says; no user data is shared.      *)
(* However packets are copied, shared, scheduled and freed, and however    *)
(* often a free packet is freed again.                                     *)
THEOREM PoolSafety == PoolSpec => [](PoolTypeOK /\ FreeListSound /\ HoldersCounted /\ DataOwned)
<1>1. PoolInit => PoolInv
  BY PoolInitInv
<1>2. PoolInv /\ [PoolNext]_pool => PoolInv'
  BY PoolStepInv
<1>3. PoolSpec => []PoolInv
  BY <1>1, <1>2, PTL DEF PoolSpec
<1>4. PoolInv => PoolTypeOK /\ FreeListSound /\ HoldersCounted /\ DataOwned
  BY DEF PoolInv
<1> QED
  BY <1>3, <1>4, PTL

(* The assertion on uid_ in Packet::free holds: a packet that goes back to *)
(* the list is not in the event queue.                                     *)
THEOREM NoneFreedWhileQueued ==
  ASSUME PoolInv, NEW p \in Ids, FreePacket(p), pkt[p].live, ~pkt'[p].live
  PROVE  ~pkt[p].queued
<1>1. pkt[p].refs = 0
  <2>1. CASE pkt[p].refs # 0
    <3>1. pkt' = [pkt EXCEPT ![p].refs = @ - 1]
      BY <2>1 DEF FreePacket
    <3>2. pkt \in Seq(Packet) /\ pkt[p] \in Packet
      BY PacketFacts DEF PoolInv, PoolTypeOK
    <3>3. pkt'[p].live = pkt[p].live
      BY <3>1, <3>2 DEF Packet, Ids
    <3> QED
      BY <3>3
  <2> QED
    BY <2>1
<1> QED
  BY <1>1, UsedIsLive DEF FreePacket
=============================================================================
