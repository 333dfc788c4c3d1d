--------------------------- MODULE LinkQueueProofs ---------------------------
(***************************************************************************)
(* Theorems about LinkQueue, for every limit, every setting of the flags   *)
(* and any number of packets.                                              *)
(***************************************************************************)
EXTENDS LinkQueue, SumProofs, FiniteSetTheorems, TLAPS

----------------------------------------------------------------------------
(***************************************************************************)
(* Whatever is taken out of a queue, what stays is a selection of it: some *)
(* of its packets, in their order.  That is all the proof needs to know of *)
(* a step that removes packets.                                            *)
(***************************************************************************)
Selection(r, q) ==
  /\ r \in Seq(Packet)
  /\ \E f \in [1 .. Len(r) -> 1 .. Len(q)] :
       /\ \A j, k \in 1 .. Len(r) : j < k => f[j] < f[k]
       /\ \A k \in 1 .. Len(r) : r[k] = q[f[k]]

\* A sequence is a selection of itself.
LEMMA SelectAll ==
  ASSUME NEW q \in Seq(Packet) PROVE Selection(q, q)
<1> DEFINE f == [k \in 1 .. Len(q) |-> k]
<1>1. f \in [1 .. Len(q) -> 1 .. Len(q)]
  OBVIOUS
<1> QED
  BY <1>1 DEF Selection

\* The empty queue is a selection of every queue.
LEMMA SelectNone ==
  ASSUME NEW q \in Seq(Packet) PROVE Selection(<<>>, q)
<1> DEFINE n == Len(<<>>)
           f == [k \in 1 .. n |-> k]
<1>1. n = 0 /\ <<>> \in Seq(Packet) /\ 1 .. n = {}
  OBVIOUS
<1> HIDE DEF n
<1>2. f \in [1 .. n -> 1 .. Len(q)]
  BY <1>1
<1>3. /\ \A j, k \in 1 .. n : j < k => f[j] < f[k]
      /\ \A k \in 1 .. n : <<>>[k] = q[f[k]]
  BY <1>1
<1> HIDE DEF f
<1> QED
  BY <1>1, <1>2, <1>3 DEF Selection, n

\* A contiguous part of a queue is a selection of it.
LEMMA SelectPart ==
  ASSUME NEW q \in Seq(Packet), NEW m \in Nat, NEW n \in Nat,
         m >= 1, n <= Len(q), m <= n + 1
  PROVE  Selection(SubSeq(q, m, n), q)
<1> DEFINE r == SubSeq(q, m, n)
           f == [k \in 1 .. n - m + 1 |-> k + m - 1]
<1>1. /\ r \in Seq(Packet) /\ Len(r) = n - m + 1
      /\ \A k \in 1 .. n - m + 1 : r[k] = q[k + m - 1]
  OBVIOUS
<1>2. f \in [1 .. n - m + 1 -> 1 .. Len(q)]
  OBVIOUS
<1> HIDE DEF r
<1>3. /\ \A k \in 1 .. Len(r) : r[k] = q[f[k]]
      /\ \A j, k \in 1 .. Len(r) : j < k => f[j] < f[k]
  BY <1>1
<1> QED
  BY <1>1, <1>2, <1>3 DEF Selection, r

\* Tail and Front.
LEMMA SelectEnds ==
  ASSUME NEW q \in Seq(Packet), q # <<>>
  PROVE  Selection(Tail(q), q) /\ Selection(Front(q), q)
<1>1. Len(q) \in Nat /\ Len(q) >= 1 /\ Tail(q) = SubSeq(q, 2, Len(q))
  OBVIOUS
<1>2. Selection(SubSeq(q, 2, Len(q)), q) /\ Selection(SubSeq(q, 1, Len(q) - 1), q)
  BY <1>1, SelectPart
<1> QED
  BY <1>1, <1>2 DEF Front

\* What shrink_queue keeps: the beginning or the end of the queue.
LEMMA KeptSelection ==
  ASSUME queue \in Seq(Packet), NEW k \in 0 .. Len(queue)
  PROVE  Selection(KeptBy(k), queue)
<1>1. /\ Len(queue) - k + 1 \in Nat /\ Len(queue) - k + 1 >= 1
      /\ Len(queue) - k + 1 <= Len(queue) + 1 /\ Len(queue) \in Nat
      /\ k \in Nat /\ k <= Len(queue) /\ 1 <= k + 1
  OBVIOUS
<1> QED
  BY <1>1, SelectPart DEF KeptBy

(***************************************************************************)
(* Most steps take out one packet: OmitsOne(r, q, i) says that r is q      *)
(* without the one at i.                                                   *)
(***************************************************************************)
OmitsOne(r, q, i) ==
  /\ r \in Seq(Packet) /\ Len(r) = Len(q) - 1
  /\ \A k \in 1 .. Len(q) - 1 : r[k] = IF k < i THEN q[k] ELSE q[k + 1]

\* Tail and Front leave out the first and the last.
LEMMA EndsOmitOne ==
  ASSUME NEW q \in Seq(Packet), q # <<>>
  PROVE  /\ 1 \in 1 .. Len(q) /\ Len(q) \in 1 .. Len(q)
         /\ OmitsOne(Tail(q), q, 1) /\ OmitsOne(Front(q), q, Len(q))
         /\ Head(q) = q[1] /\ Last(q) = q[Len(q)]
<1>1. Len(q) \in Nat /\ Len(q) >= 1
  OBVIOUS
<1>2. /\ Tail(q) \in Seq(Packet) /\ Len(Tail(q)) = Len(q) - 1
      /\ \A k \in 1 .. Len(q) - 1 : Tail(q)[k] = q[k + 1]
  BY <1>1
<1>3. \A k \in 1 .. Len(q) - 1 : ~(k < 1)
  BY <1>1
<1>4. OmitsOne(Tail(q), q, 1)
  BY <1>2, <1>3 DEF OmitsOne
<1>5. /\ Front(q) \in Seq(Packet) /\ Len(Front(q)) = Len(q) - 1
      /\ \A k \in 1 .. Len(q) - 1 : Front(q)[k] = q[k]
  <2>1. Front(q) = SubSeq(q, 1, Len(q) - 1)
    BY DEF Front
  <2>2. /\ SubSeq(q, 1, Len(q) - 1) \in Seq(Packet)
        /\ Len(SubSeq(q, 1, Len(q) - 1)) = Len(q) - 1
    <3> DEFINE n == Len(q) - 1
    <3>1. n \in Nat /\ \A i \in 1 .. n : q[i] \in Packet
      BY <1>1
    <3> HIDE DEF n
    <3>2. SubSeq(q, 1, n) \in Seq(Packet)
      BY <3>1, SubSeqProperties
    <3>3. Len(SubSeq(q, 1, n)) = n
      BY <3>1
    <3> QED
      BY <3>2, <3>3 DEF n
  <2>3. ASSUME NEW k \in 1 .. Len(q) - 1 PROVE SubSeq(q, 1, Len(q) - 1)[k] = q[k]
    BY <1>1
  <2> QED
    BY <2>1, <2>2, <2>3
<1>6. \A k \in 1 .. Len(q) - 1 : k < Len(q)
  BY <1>1
<1>7. OmitsOne(Front(q), q, Len(q))
  BY <1>5, <1>6 DEF OmitsOne
<1> QED
  BY <1>1, <1>4, <1>7 DEF Last

\* RemoveAt.
LEMMA RemovalOmitsOne ==
  ASSUME NEW q \in Seq(Packet), NEW i \in 1 .. Len(q)
  PROVE  OmitsOne(RemoveAt(q, i), q, i)
<1> DEFINE L == Len(q)
           a == SubSeq(q, 1, i - 1)
           b == SubSeq(q, i + 1, L)
           r == a \o b
<1>1. i \in Nat /\ i >= 1 /\ i <= L /\ L \in Nat
  OBVIOUS
<1>2. /\ a \in Seq(Packet) /\ Len(a) = i - 1 /\ \A k \in 1 .. i - 1 : a[k] = q[k]
      /\ b \in Seq(Packet) /\ Len(b) = L - i /\ \A k \in 1 .. L - i : b[k] = q[k + i]
  BY <1>1
<1> HIDE DEF a, b
<1>3. /\ r \in Seq(Packet) /\ Len(r) = Len(a) + Len(b)
      /\ \A k \in 1 .. Len(a) + Len(b) :
           r[k] = IF k <= Len(a) THEN a[k] ELSE b[k - Len(a)]
  BY <1>2, ConcatProperties
<1> HIDE DEF L, r
<1>4. Len(a) + Len(b) = L - 1
  BY <1>1, <1>2
<1>5. ASSUME NEW k \in 1 .. L - 1 PROVE r[k] = IF k < i THEN q[k] ELSE q[k + 1]
  <2>1. r[k] = IF k <= i - 1 THEN a[k] ELSE b[k - (i - 1)]
    BY <1>2, <1>3, <1>4
  <2>2. CASE k < i
    <3>1. k \in 1 .. i - 1 /\ k <= i - 1
      BY <1>1, <2>2
    <3> QED
      BY <1>2, <2>1, <2>2, <3>1
  <2>3. CASE ~(k < i)
    <3>1. /\ k - (i - 1) \in 1 .. L - i /\ (k - (i - 1)) + i = k + 1
          /\ ~(k <= i - 1)
      BY <1>1, <2>3
    <3>2. b[k - (i - 1)] = q[(k - (i - 1)) + i]
      BY <1>2, <3>1
    <3> QED
      BY <2>1, <2>3, <3>1, <3>2
  <2> QED
    BY <2>2, <2>3
<1>6. OmitsOne(r, q, i)
  BY <1>3, <1>4, <1>5 DEF OmitsOne, L
<1> QED
  BY <1>6 DEF RemoveAt, r, a, b, L

\* What is left is a selection.
LEMMA OmittedSelection ==
  ASSUME NEW q \in Seq(Packet), NEW i \in 1 .. Len(q), NEW r, OmitsOne(r, q, i)
  PROVE  Selection(r, q)
<1> DEFINE f == [k \in 1 .. Len(q) - 1 |-> IF k < i THEN k ELSE k + 1]
<1>1. Len(q) \in Nat /\ i \in Nat /\ i <= Len(q)
  OBVIOUS
<1>2. /\ f \in [1 .. Len(q) - 1 -> 1 .. Len(q)]
      /\ \A j, k \in 1 .. Len(q) - 1 : j < k => f[j] < f[k]
      /\ \A k \in 1 .. Len(q) - 1 : r[k] = q[f[k]]
  BY <1>1 DEF OmitsOne
<1> HIDE DEF f
<1> QED
  BY <1>2 DEF OmitsOne, Selection

\* What filter leaves.
LEMMA SelectRemainder ==
  ASSUME NEW q \in Seq(Packet), NEW hop, NEW r \in Remainders(q, hop)
  PROVE  Selection(r, q)
<1> DEFINE left == {i \in DOMAIN q : q[i].hop # hop}
           n == Cardinality(left)
<1>1. n \in Nat
  <2>1. IsFiniteSet(1 .. Len(q)) /\ left \subseteq 1 .. Len(q)
    BY FS_Interval
  <2> HIDE DEF left
  <2>2. IsFiniteSet(left)
    BY <2>1, FS_Subset
  <2> QED
    BY <2>2, FS_CardinalityType
<1>2. PICK f \in [1 .. n -> left] :
        /\ \A j, k \in DOMAIN f : j < k => f[j] < f[k]
        /\ r = [k \in DOMAIN f |-> q[f[k]]]
  BY DEF Remainders, Enumerations
<1>3. \A i \in left : i \in 1 .. Len(q) /\ q[i] \in Packet
  OBVIOUS
<1> HIDE DEF left, n
<1>4. \A k \in 1 .. n : f[k] \in 1 .. Len(q) /\ q[f[k]] \in Packet
  BY <1>2, <1>3
<1>5. r \in [1 .. n -> Packet] /\ \A k \in 1 .. n : r[k] = q[f[k]]
  BY <1>2, <1>4
<1>6. r \in Seq(Packet) /\ Len(r) = n
  BY <1>1, <1>5
<1>7. f \in [1 .. n -> 1 .. Len(q)]
  BY <1>2, <1>4
<1> QED
  BY <1>2, <1>5, <1>6, <1>7 DEF Selection

\* A queue filtered for a hop has lost the packets for it, and no others: as
\* many places as there are other packets, in increasing order, are all of them.
LEMMA RemainderLeavesOut ==
  ASSUME NEW q \in Seq(Packet), NEW hop, NEW r \in Remainders(q, hop)
  PROVE  ToSet(q) \ ToSet(r) = {p \in ToSet(q) : p.hop = hop}
<1> DEFINE left == {i \in DOMAIN q : q[i].hop # hop}
           n == Cardinality(left)
<1>1. IsFiniteSet(left) /\ n \in Nat
  <2>1. IsFiniteSet(1 .. Len(q)) /\ left \subseteq 1 .. Len(q)
    BY FS_Interval
  <2> HIDE DEF left
  <2>2. IsFiniteSet(left)
    BY <2>1, FS_Subset
  <2> QED
    BY <2>2, FS_CardinalityType
<1>2. PICK f \in [1 .. n -> left] :
        /\ \A j, k \in DOMAIN f : j < k => f[j] < f[k]
        /\ r = [k \in DOMAIN f |-> q[f[k]]]
  BY DEF Remainders, Enumerations
<1>3. \A i : i \in left <=> i \in 1 .. Len(q) /\ q[i].hop # hop
  OBVIOUS
<1> HIDE DEF left, n
<1>4. f \in Surjection(1 .. n, left)
  <2>1. IsFiniteSet(1 .. n) /\ Cardinality(1 .. n) = n
    BY <1>1, FS_Interval
  <2>2. \A j, k \in 1 .. n : f[j] = f[k] => j = k
    <3> SUFFICES ASSUME NEW j \in 1 .. n, NEW k \in 1 .. n, f[j] = f[k] PROVE j = k
      OBVIOUS
    <3>1. f[j] \in left /\ f[j] \in Int
      BY <1>2, <1>3
    <3>2. ~(f[j] < f[k]) /\ ~(f[k] < f[j])
      BY <3>1
    <3>3. ~(j < k) /\ ~(k < j)
      BY <1>2, <3>2
    <3> QED
      BY <1>1, <3>3
  <2>3. f \in Injection(1 .. n, left)
    BY <2>2 DEF Injection, IsInjective
  <2> QED
    BY <1>1, <2>1, <2>3, FS_Injection DEF n
<1>5. \A i \in left : \E k \in 1 .. n : f[k] = i
  BY <1>4 DEF Surjection
<1>6. ToSet(r) = {q[f[k]] : k \in 1 .. n} /\ ToSet(q) = {q[i] : i \in 1 .. Len(q)}
  BY <1>2 DEF ToSet
<1>7. ASSUME NEW p \in ToSet(q), p.hop # hop PROVE p \in ToSet(r)
  <2>1. PICK i \in 1 .. Len(q) : p = q[i]
    BY <1>6
  <2>2. i \in left
    BY <1>3, <1>7, <2>1
  <2> QED
    BY <1>5, <1>6, <2>1, <2>2
<1>8. ASSUME NEW p \in ToSet(r) PROVE p.hop # hop
  <2>1. PICK k \in 1 .. n : p = q[f[k]]
    BY <1>6
  <2> QED
    BY <1>2, <1>3, <2>1
<1> QED
  BY <1>7, <1>8

\* Sizes are numbers.
LEMMA PacketSize ==
  ASSUME NEW q \in Seq(Packet), NEW k \in 1 .. Len(q)
  PROVE  q[k].size \in Nat
<1>1. q[k] \in Packet
  OBVIOUS
<1> QED
  BY <1>1, SizesAssumption DEF Packet

\* A selection has no more packets and no more bytes.
LEMMA SelectionSmaller ==
  ASSUME NEW q \in Seq(Packet), NEW r, Selection(r, q)
  PROVE  /\ Len(r) \in Nat /\ Len(q) \in Nat /\ Len(r) <= Len(q)
         /\ Bytes(r) \in Nat /\ Bytes(q) \in Nat /\ Bytes(r) <= Bytes(q)
<1>1. PICK f \in [1 .. Len(r) -> 1 .. Len(q)] :
        /\ \A j, k \in 1 .. Len(r) : j < k => f[j] < f[k]
        /\ \A k \in 1 .. Len(r) : r[k] = q[f[k]]
  BY DEF Selection
<1>2. r \in Seq(Packet) /\ Len(r) \in Nat /\ Len(q) \in Nat
  BY DEF Selection
<1>3. Len(r) <= Len(q)
  <2>1. /\ IsFiniteSet(1 .. Len(r)) /\ Cardinality(1 .. Len(r)) = Len(r)
        /\ IsFiniteSet(1 .. Len(q)) /\ Cardinality(1 .. Len(q)) = Len(q)
    <3>1. ASSUME NEW n \in Nat PROVE IsFiniteSet(1 .. n) /\ Cardinality(1 .. n) = n
      <4>1. IsFiniteSet(1 .. n) /\ Cardinality(1 .. n) = IF 1 > n THEN 0 ELSE n - 1 + 1
        BY FS_Interval
      <4> QED
        BY <4>1
    <3> QED
      BY <1>2, <3>1
  <2>2. \A j, k \in 1 .. Len(r) : f[j] = f[k] => j = k
    <3> SUFFICES ASSUME NEW j \in 1 .. Len(r), NEW k \in 1 .. Len(r), f[j] = f[k]
                 PROVE  j = k
      OBVIOUS
    <3>1. f[j] \in 1 .. Len(q) /\ f[k] \in 1 .. Len(q)
      OBVIOUS
    <3>2. ~(f[j] < f[k]) /\ ~(f[k] < f[j])
      BY <3>1
    <3>3. ~(j < k) /\ ~(k < j)
      BY <1>1, <3>2
    <3> QED
      BY <1>2, <3>3
  <2>3. f \in Injection(1 .. Len(r), 1 .. Len(q))
    BY <2>2 DEF Injection, IsInjective
  <2> QED
    BY <2>1, <2>3, FS_Injection
<1> DEFINE s == [k \in DOMAIN q |-> q[k].size]
           t == [k \in DOMAIN r |-> r[k].size]
<1>4. Nats(s, Len(q)) /\ Nats(t, Len(r))
  <2>1. \A k \in 1 .. Len(q) : q[k].size \in Nat
    BY PacketSize
  <2>2. \A k \in 1 .. Len(r) : r[k].size \in Nat
    BY <1>2, PacketSize
  <2>3. DOMAIN q = 1 .. Len(q) /\ DOMAIN r = 1 .. Len(r)
    BY <1>2
  <2> QED
    BY <1>2, <2>1, <2>2, <2>3 DEF Nats
<1>5. Thinned(t, Len(r), s, Len(q))
  <2>1. DOMAIN q = 1 .. Len(q) /\ DOMAIN r = 1 .. Len(r)
    BY <1>2
  <2>2. \A k \in 1 .. Len(r) : t[k] = s[f[k]]
    <3> SUFFICES ASSUME NEW k \in 1 .. Len(r) PROVE t[k] = s[f[k]]
      OBVIOUS
    <3>1. r[k] = q[f[k]] /\ f[k] \in 1 .. Len(q)
      BY <1>1
    <3> QED
      BY <2>1, <3>1
  <2>3. DOMAIN t = 1 .. Len(r)
    BY <2>1
  <2> HIDE DEF s, t
  <2> QED
    BY <1>1, <1>2, <2>2, <2>3 DEF Thinned
<1>6. Total(s) = Bytes(q) /\ Total(t) = Bytes(r)
  BY DEF Bytes
<1> HIDE DEF s, t
<1> QED
  BY <1>2, <1>3, <1>4, <1>5, <1>6, TotalNat, TotalOfSelection

\* One packet adds its size.
LEMMA BytesOfAppend ==
  ASSUME NEW q \in Seq(Packet), NEW p \in Packet
  PROVE  Bytes(Append(q, p)) = Bytes(q) + p.size
<1> DEFINE r == Append(q, p)
           s == [k \in DOMAIN q |-> q[k].size]
           t == [k \in DOMAIN r |-> r[k].size]
           o == [k \in 1 .. 1 |-> p.size]
<1>1. /\ Len(q) \in Nat /\ Len(r) = Len(q) + 1 /\ r \in Seq(Packet)
      /\ DOMAIN q = 1 .. Len(q) /\ DOMAIN r = 1 .. Len(q) + 1
      /\ \A k \in 1 .. Len(q) : k \in DOMAIN r /\ r[k] = q[k]
      /\ r[Len(q) + 1] = p /\ Len(q) + 1 \in DOMAIN r
  OBVIOUS
<1>2. p.size \in Int /\ \A k \in 1 .. Len(q) : q[k].size \in Int
  <2>1. p.size \in Nat
    BY SizesAssumption DEF Packet
  <2> QED
    BY <2>1, PacketSize
<1>3. Ints(s, Len(q)) /\ Ints(o, 1) /\ Single(o, 1, p.size, 1)
  BY <1>1, <1>2 DEF Ints, Single
<1> HIDE DEF r
<1>4. Joined(t, s, Len(q), o, 1)
  <2>1. \A k \in 1 .. Len(q) : t[k] = s[k]
    BY <1>1
  <2>2. ASSUME NEW k \in 1 .. 1 PROVE t[Len(q) + k] = o[k]
    <3>1. k = 1
      OBVIOUS
    <3> QED
      BY <1>1, <3>1
  <2>3. DOMAIN t = 1 .. Len(q) + 1
    BY <1>1
  <2> HIDE DEF s, t, o
  <2> QED
    BY <2>1, <2>2, <2>3 DEF Joined
<1>5. Total(s) = Bytes(q) /\ Total(t) = Bytes(r)
  BY DEF Bytes
<1> HIDE DEF s, t, o
<1>6. Total(t) = Total(s) + Total(o) /\ Total(o) = p.size
  BY <1>2, <1>3, <1>4, TotalJoined, TotalOfOne
<1> QED
  BY <1>5, <1>6 DEF r

----------------------------------------------------------------------------
(***************************************************************************)
(* The inductive invariant.  Fits(s, q, n): packets sent in the order s    *)
(* and a queue q, none of them later than the n-th, respect both orders.   *)
(* Other packets are in order within s, within q and across the two.       *)
(***************************************************************************)
Other(p) == ~(p.up /\ PreferRouting)

Known(q, n) == \A k \in 1 .. Len(q) : q[k].id <= n

Ranked(q) ==
  \A j, k \in 1 .. Len(q) :
    j < k /\ q[k].up => q[j].up /\ q[j].id > q[k].id

InOrder(q) ==
  \A j, k \in 1 .. Len(q) :
    j < k /\ Other(q[j]) /\ Other(q[k]) => q[j].id < q[k].id

Between(s, q) ==
  \A j \in 1 .. Len(s), k \in 1 .. Len(q) :
    Other(s[j]) /\ Other(q[k]) => s[j].id < q[k].id

Fits(s, q, n) ==
  /\ s \in Seq(Packet) /\ q \in Seq(Packet) /\ n \in Nat
  /\ Known(s, n) /\ Known(q, n)
  /\ PreferRouting => Ranked(q)
  /\ InOrder(s) /\ InOrder(q) /\ Between(s, q)

QInv ==
  /\ QueueTypeOK
  /\ NoneWaitsForIdleLink
  /\ Fits(sent, queue, arrived)

\* The numbers of packets are numbers, and flags are Booleans.
LEMMA PacketFields ==
  ASSUME NEW q \in Seq(Packet), NEW k \in 1 .. Len(q)
  PROVE  q[k] \in Packet /\ q[k].id \in Nat /\ q[k].up \in BOOLEAN
<1>1. q[k] \in Packet
  OBVIOUS
<1> QED
  BY <1>1 DEF Packet

\* The packets of a queue are packets.
LEMMA ToSetType ==
  ASSUME NEW q \in Seq(Packet) PROVE ToSet(q) \subseteq Packet
BY DEF ToSet

\* Taking packets out keeps both orders.
LEMMA SelectFits ==
  ASSUME NEW s, NEW q, NEW n, NEW r, Fits(s, q, n), Selection(r, q)
  PROVE  Fits(s, r, n)
<1>1. PICK f \in [1 .. Len(r) -> 1 .. Len(q)] :
        /\ \A j, k \in 1 .. Len(r) : j < k => f[j] < f[k]
        /\ \A k \in 1 .. Len(r) : r[k] = q[f[k]]
  BY DEF Selection
<1>2. \A k \in 1 .. Len(r) : f[k] \in 1 .. Len(q)
  BY <1>1
<1>3. Known(r, n)
  BY <1>1, <1>2 DEF Fits, Known
<1>4. PreferRouting => Ranked(r)
  BY <1>1, <1>2 DEF Fits, Ranked
<1>5. InOrder(r)
  BY <1>1, <1>2 DEF Fits, InOrder
<1>6. Between(s, r)
  BY <1>1, <1>2 DEF Fits, Between
<1> QED
  BY <1>3, <1>4, <1>5, <1>6 DEF Fits, Selection

\* A packet that is not preferred goes to the end.
LEMMA AppendFits ==
  ASSUME NEW s, NEW q, NEW n, Fits(s, q, n),
         NEW p \in Packet, p.id = n + 1, Other(p)
  PROVE  Fits(s, Append(q, p), n + 1)
<1> DEFINE r == Append(q, p)
<1>1. s \in Seq(Packet) /\ q \in Seq(Packet) /\ n \in Nat /\ Len(q) \in Nat
  BY DEF Fits
<1>2. /\ r \in Seq(Packet) /\ Len(r) = Len(q) + 1
      /\ \A k \in 1 .. Len(q) : r[k] = q[k]
      /\ r[Len(q) + 1] = p
  BY <1>1
<1> HIDE DEF r
<1>3. \A k \in 1 .. Len(r) : k \in 1 .. Len(q) \/ (k = Len(r) /\ r[k] = p)
  BY <1>1, <1>2
<1>4. \A k \in 1 .. Len(q) : q[k].id \in Nat /\ q[k].id <= n
  BY <1>1, PacketFields DEF Fits, Known
<1>5. \A k \in 1 .. Len(s) : s[k].id \in Nat /\ s[k].id <= n
  BY <1>1, PacketFields DEF Fits, Known
<1>6. Known(s, n + 1) /\ Known(r, n + 1)
  <2>1. \A x \in Nat : x <= n => x <= n + 1
    BY <1>1
  <2>2. Known(s, n + 1)
    BY <1>5, <2>1 DEF Known
  <2>3. n + 1 <= n + 1
    BY <1>1
  <2> QED
    BY <1>2, <1>3, <1>4, <2>1, <2>2, <2>3 DEF Known
<1>7. (PreferRouting => Ranked(r)) /\ InOrder(r)
  <2> SUFFICES ASSUME NEW j \in 1 .. Len(r), NEW k \in 1 .. Len(r), j < k
               PROVE  /\ PreferRouting /\ r[k].up => r[j].up /\ r[j].id > r[k].id
                      /\ Other(r[j]) /\ Other(r[k]) => r[j].id < r[k].id
    BY DEF Ranked, InOrder
  <2>1. j \in 1 .. Len(q) /\ r[j] = q[j]
    <3>1. j # Len(r)
      BY <1>1, <1>2
    <3> QED
      BY <1>2, <1>3, <3>1
  <2>2. CASE k = Len(r) /\ r[k] = p
    <3>1. ~(PreferRouting /\ p.up)
      BY DEF Other
    <3>2. r[j].id \in Nat /\ r[j].id <= n
      BY <1>4, <2>1
    <3>3. r[j].id < n + 1
      BY <1>1, <3>2
    <3> QED
      BY <2>2, <3>1, <3>3
  <2>3. CASE k \in 1 .. Len(q)
    <3>1. r[k] = q[k]
      BY <1>2, <2>3
    <3> QED
      BY <2>1, <2>3, <3>1 DEF Fits, Ranked, InOrder
  <2> QED
    BY <1>3, <2>2, <2>3
<1>8. Between(s, r)
  <2> SUFFICES ASSUME NEW j \in 1 .. Len(s), NEW k \in 1 .. Len(r),
                      Other(s[j]), Other(r[k])
               PROVE  s[j].id < r[k].id
    BY DEF Between
  <2>1. CASE k \in 1 .. Len(q)
    <3>1. r[k] = q[k]
      BY <1>2, <2>1
    <3> QED
      BY <2>1, <3>1 DEF Fits, Between
  <2>2. CASE r[k] = p
    <3>1. s[j].id \in Nat /\ s[j].id <= n
      BY <1>5
    <3> QED
      BY <1>1, <2>2, <3>1
  <2> QED
    BY <1>3, <2>1, <2>2
<1> QED
  BY <1>1, <1>2, <1>6, <1>7, <1>8 DEF Fits, r

\* A backward ant goes to the head: it is later than everything there.
LEMMA PrependFits ==
  ASSUME NEW s, NEW q, NEW n, Fits(s, q, n),
         NEW p \in Packet, p.id = n + 1, p.up, PreferRouting
  PROVE  Fits(s, <<p>> \o q, n + 1)
<1> DEFINE r == <<p>> \o q
<1>1. s \in Seq(Packet) /\ q \in Seq(Packet) /\ n \in Nat /\ Len(q) \in Nat
  BY DEF Fits
<1>2. <<p>> \in Seq(Packet) /\ Len(<<p>>) = 1 /\ <<p>>[1] = p
  OBVIOUS
<1>3. /\ r \in Seq(Packet) /\ Len(r) = Len(q) + 1
      /\ \A k \in 1 .. Len(q) + 1 : r[k] = IF k <= 1 THEN p ELSE q[k - 1]
  BY <1>1, <1>2, ConcatProperties
<1> HIDE DEF r
<1>4. \A k \in 1 .. Len(r) :
        (k = 1 /\ r[k] = p) \/ (k > 1 /\ k - 1 \in 1 .. Len(q) /\ r[k] = q[k - 1])
  BY <1>1, <1>3
<1>5. \A k \in 1 .. Len(q) : q[k].id \in Nat /\ q[k].id <= n
  BY <1>1, PacketFields DEF Fits, Known
<1>6. \A k \in 1 .. Len(s) : s[k].id \in Nat /\ s[k].id <= n
  BY <1>1, PacketFields DEF Fits, Known
<1>7. Known(s, n + 1) /\ Known(r, n + 1)
  <2>1. \A x \in Nat : x <= n => x <= n + 1
    BY <1>1
  <2>2. Known(s, n + 1)
    BY <1>6, <2>1 DEF Known
  <2>3. n + 1 <= n + 1
    BY <1>1
  <2> QED
    BY <1>4, <1>5, <2>1, <2>2, <2>3 DEF Known
<1>8. Ranked(r) /\ InOrder(r)
  <2> SUFFICES ASSUME NEW j \in 1 .. Len(r), NEW k \in 1 .. Len(r), j < k
               PROVE  /\ r[k].up => r[j].up /\ r[j].id > r[k].id
                      /\ Other(r[j]) /\ Other(r[k]) => r[j].id < r[k].id
    BY DEF Ranked, InOrder
  <2>1. k - 1 \in 1 .. Len(q) /\ r[k] = q[k - 1]
    BY <1>1, <1>3, <1>4
  <2>2. CASE j = 1
    <3>1. r[j] = p /\ ~Other(r[j])
      BY <1>4, <2>2 DEF Other
    <3>2. q[k - 1].id \in Nat /\ q[k - 1].id <= n
      BY <1>5, <2>1
    <3>3. r[j].id > r[k].id
      BY <1>1, <2>1, <3>1, <3>2
    <3> QED
      BY <3>1, <3>3
  <2>3. CASE j # 1
    <3>1. j - 1 \in 1 .. Len(q) /\ r[j] = q[j - 1] /\ j - 1 < k - 1
      BY <1>1, <1>3, <1>4, <2>3
    <3> QED
      BY <2>1, <3>1 DEF Fits, Ranked, InOrder
  <2> QED
    BY <2>2, <2>3
<1>9. Between(s, r)
  BY <1>1, <1>3, <1>4 DEF Fits, Between, Other
<1> QED
  BY <1>1, <1>3, <1>7, <1>8, <1>9 DEF Fits, r

\* Handing the first packet to the link moves it from one sequence to the
\* other, without overtaking.
LEMMA ServeFits ==
  ASSUME NEW s, NEW q, NEW n, Fits(s, q, n), q # <<>>
  PROVE  Fits(Append(s, Head(q)), Tail(q), n)
<1> DEFINE h == Head(q)
           t == Append(s, h)
<1>1. s \in Seq(Packet) /\ q \in Seq(Packet) /\ n \in Nat /\ Len(s) \in Nat
  BY DEF Fits
<1>2. h = q[1] /\ 1 \in 1 .. Len(q) /\ h \in Packet
  BY <1>1
<1>3. /\ Tail(q) \in Seq(Packet) /\ Len(Tail(q)) = Len(q) - 1
      /\ \A k \in 1 .. Len(Tail(q)) :
           k + 1 \in 1 .. Len(q) /\ 1 < k + 1 /\ Tail(q)[k] = q[k + 1]
  BY <1>1
<1>4. Fits(s, Tail(q), n)
  BY <1>1, SelectEnds, SelectFits
<1> HIDE DEF h
<1>5. /\ t \in Seq(Packet) /\ Len(t) = Len(s) + 1
      /\ \A k \in 1 .. Len(s) : t[k] = s[k]
      /\ t[Len(s) + 1] = h
  BY <1>1, <1>2
<1> HIDE DEF t
<1>6. \A k \in 1 .. Len(t) : k \in 1 .. Len(s) \/ (k = Len(t) /\ t[k] = h)
  BY <1>1, <1>5
<1>7. Known(t, n)
  BY <1>2, <1>5, <1>6 DEF Fits, Known
<1>8. InOrder(t)
  <2> SUFFICES ASSUME NEW j \in 1 .. Len(t), NEW k \in 1 .. Len(t), j < k,
                      Other(t[j]), Other(t[k])
               PROVE  t[j].id < t[k].id
    BY DEF InOrder
  <2>1. j \in 1 .. Len(s) /\ t[j] = s[j]
    <3>1. j # Len(t)
      BY <1>1, <1>5
    <3> QED
      BY <1>5, <1>6, <3>1
  <2>2. CASE k \in 1 .. Len(s)
    <3>1. t[k] = s[k]
      BY <1>5, <2>2
    <3> QED
      BY <2>1, <2>2, <3>1 DEF Fits, InOrder
  <2>3. CASE t[k] = h
    BY <1>2, <2>1, <2>3 DEF Fits, Between
  <2> QED
    BY <1>6, <2>2, <2>3
<1>9. Between(t, Tail(q))
  <2> SUFFICES ASSUME NEW j \in 1 .. Len(t), NEW k \in 1 .. Len(Tail(q)),
                      Other(t[j]), Other(Tail(q)[k])
               PROVE  t[j].id < Tail(q)[k].id
    BY DEF Between
  <2>1. CASE j \in 1 .. Len(s)
    <3>1. t[j] = s[j]
      BY <1>5, <2>1
    <3> QED
      BY <1>4, <2>1, <3>1 DEF Fits, Between
  <2>2. CASE t[j] = h
    <3>1. k + 1 \in 1 .. Len(q) /\ 1 < k + 1 /\ Tail(q)[k] = q[k + 1]
      BY <1>3
    <3> QED
      BY <1>2, <2>2, <3>1 DEF Fits, InOrder
  <2> QED
    BY <1>6, <2>1, <2>2
<1> QED
  BY <1>4, <1>5, <1>7, <1>8, <1>9 DEF Fits, t, h

----------------------------------------------------------------------------
(***************************************************************************)
(* One lemma per action.                                                   *)
(***************************************************************************)
\* The queue starts empty.
LEMMA InitQInv == QueueInit => QInv
<1> SUFFICES ASSUME QueueInit PROVE QInv
  OBVIOUS
<1>1. <<>> \in Seq(Packet) /\ 1 .. Len(<<>>) = {}
  OBVIOUS
<1>2. Fits(<<>>, <<>>, 0)
  BY <1>1 DEF Fits, Known, Ranked, InOrder, Between
<1> QED
  BY <1>1, <1>2 DEF QueueInit, QInv, QueueTypeOK, NoneWaitsForIdleLink

\* The link is served if it is idle, so that nothing is left waiting for it.
LEMMA HandOnStep ==
  ASSUME NEW q, NEW n, Fits(sent, q, n), blocked \in BOOLEAN, HandOn(q)
  PROVE  /\ Fits(sent', queue', n)
         /\ blocked' \in BOOLEAN
         /\ blocked' \/ queue' = <<>>
<1>1. CASE ~blocked /\ q # <<>>
  <2>1. sent' = Append(sent, Head(q)) /\ queue' = Tail(q) /\ blocked' = TRUE
    BY <1>1 DEF HandOn
  <2> QED
    BY <1>1, <2>1, ServeFits
<1>2. CASE blocked \/ q = <<>>
  <2>1. sent' = sent /\ queue' = q /\ blocked' = blocked
    BY <1>2 DEF HandOn
  <2> QED
    BY <1>2, <2>1
<1> QED
  BY <1>1, <1>2

\* A step that takes packets out of the queue and does not touch the link.
LEMMA RemovalStep ==
  ASSUME QInv, Selection(queue', queue),
         UNCHANGED <<blocked, arrived, sent>>,
         limit' \in Limits, inBytes' \in BOOLEAN, dropFront' \in BOOLEAN,
         attached' \in BOOLEAN,
         dropped' \subseteq Packet, taken' \subseteq Packet
  PROVE  QInv'
<1>1. Fits(sent', queue', arrived')
  BY SelectFits DEF QInv
<1>2. blocked' \/ queue' = <<>>
  <2>1. CASE blocked
    BY <2>1
  <2>2. CASE ~blocked
    <3>1. queue = <<>> /\ queue' \in Seq(Packet)
      BY <2>2 DEF QInv, NoneWaitsForIdleLink, Selection
    <3>2. PICK f \in [1 .. Len(queue') -> 1 .. Len(queue)] : TRUE
      BY DEF Selection
    <3>3. 1 .. Len(queue) = {}
      BY <3>1
    <3>4. \A k \in 1 .. Len(queue') : f[k] \in 1 .. Len(queue)
      BY <3>2
    <3>5. ~(1 \in 1 .. Len(queue'))
      BY <3>3, <3>4
    <3> QED
      BY <3>1, <3>5
  <2> QED
    BY <2>1, <2>2
<1> QED
  BY <1>1, <1>2 DEF QInv, QueueTypeOK, NoneWaitsForIdleLink, Fits

\* Either entry point adds the packet where it belongs, drops at most packets,
\* and hands on.
LEMMA RecvQInv ==
  ASSUME QInv, NEW up \in BOOLEAN, NEW size \in Size, NEW hop \in Hop,
         Recv(up, size, hop)
  PROVE  QInv'
<1> DEFINE n == arrived + 1
           p == [id |-> n, up |-> up, size |-> size, hop |-> hop]
           r == IF Prefers(p) THEN EnqueHead(p) ELSE Enque(p)
<1>1. /\ queue \in Seq(Packet) /\ sent \in Seq(Packet) /\ arrived \in Nat
      /\ Fits(sent, queue, arrived)
  BY DEF QInv, QueueTypeOK
<1>2. p \in Packet /\ p.id = arrived + 1 /\ p.up = up
  BY <1>1 DEF Packet
<1>3. arrived' = n /\ HandOn(r.queue) /\ dropped' = dropped \cup r.drop
  BY DEF Recv
<1>4. UNCHANGED <<params, attached, taken>>
  BY DEF Recv
<1> HIDE DEF p
<1>5. Fits(sent, r.queue, n) /\ r.drop \subseteq Packet
  <2>1. CASE Prefers(p)
    <3> DEFINE q == <<p>> \o queue
    <3>1. Fits(sent, q, n)
      BY <1>1, <1>2, <2>1, PrependFits DEF Prefers
    <3>2. q \in Seq(Packet) /\ Len(q) \in Nat /\ Len(q) >= 1
      <4>1. <<p>> \in Seq(Packet) /\ Len(<<p>>) = 1
        BY <1>2
      <4>2. q \in Seq(Packet) /\ Len(q) = Len(<<p>>) + Len(queue)
        BY <1>1, <4>1, ConcatProperties
      <4> HIDE DEF q
      <4> QED
        BY <1>1, <4>1, <4>2
    <3>3. r = EnqueHead(p)
      BY <2>1
    <3> HIDE DEF r
    <3>4. \/ r.queue = q /\ r.drop = {}
          \/ r.queue = Front(q) /\ r.drop = {Last(q)}
      BY <3>3 DEF EnqueHead
    <3> HIDE DEF q
    <3>5. q # <<>> /\ Last(q) \in Packet
      BY <3>2 DEF Last
    <3>6. Fits(sent, Front(q), n)
      BY <3>1, <3>2, <3>5, SelectEnds, SelectFits
    <3> QED
      BY <3>1, <3>4, <3>5, <3>6
  <2>2. CASE ~Prefers(p)
    <3> DEFINE q == Append(queue, p)
    <3>1. Other(p)
      BY <2>2 DEF Prefers, Other
    <3>2. Fits(sent, q, n)
      BY <1>1, <1>2, <3>1, AppendFits
    <3>3. q \in Seq(Packet) /\ q # <<>> /\ Head(q) \in Packet
      <4>1. q \in Seq(Packet) /\ q # <<>>
        BY <1>1, <1>2
      <4> HIDE DEF q
      <4> QED
        BY <4>1, HeadTailProperties
    <3>4. Fits(sent, Tail(q), n)
      BY <3>2, <3>3, SelectEnds, SelectFits
    <3>5. Fits(sent, queue, n)
      <4>1. \A k \in 1 .. Len(queue) : queue[k].id \in Nat /\ queue[k].id <= arrived
        BY <1>1, PacketFields DEF Fits, Known
      <4>2. \A k \in 1 .. Len(sent) : sent[k].id \in Nat /\ sent[k].id <= arrived
        BY <1>1, PacketFields DEF Fits, Known
      <4>3. \A x \in Nat : x <= arrived => x <= arrived + 1
        BY <1>1
      <4>4. Known(queue, n) /\ Known(sent, n)
        BY <4>1, <4>2, <4>3 DEF Known
      <4> QED
        BY <1>1, <4>4 DEF Fits
    <3>6. r = Enque(p)
      BY <2>2
    <3> HIDE DEF r
    <3>7. \/ r.queue = q /\ r.drop = {}
          \/ r.queue = Tail(q) /\ r.drop = {Head(q)}
          \/ r.queue = queue /\ r.drop = {p}
      BY <3>6 DEF Enque
    <3> QED
      BY <1>2, <3>2, <3>3, <3>4, <3>5, <3>7
  <2> QED
    BY <2>1, <2>2
<1> HIDE DEF r, n
<1>6. /\ Fits(sent', queue', n)
      /\ blocked' \in BOOLEAN
      /\ blocked' \/ queue' = <<>>
  BY <1>3, <1>5, HandOnStep DEF QInv, QueueTypeOK
<1> QED
  BY <1>3, <1>4, <1>5, <1>6 DEF QInv, QueueTypeOK, NoneWaitsForIdleLink, Fits, params

\* The next packet follows the one that was sent, or the link becomes idle.
LEMMA ResumeQInv ==
  ASSUME QInv, Resume PROVE QInv'
<1>1. UNCHANGED <<params, attached, arrived, dropped, taken>>
  BY DEF Resume
<1>2. CASE queue = <<>>
  BY <1>1, <1>2 DEF QInv, QueueTypeOK, NoneWaitsForIdleLink, Resume, params
<1>3. CASE queue # <<>>
  <2>1. queue' = Tail(queue) /\ sent' = Append(sent, Head(queue)) /\ blocked' = blocked
    BY <1>3 DEF Resume
  <2>2. Fits(sent', queue', arrived')
    BY <1>1, <1>3, <2>1, ServeFits DEF QInv
  <2> QED
    BY <1>1, <2>1, <2>2 DEF QInv, QueueTypeOK, NoneWaitsForIdleLink, Resume, Fits, params
<1> QED
  BY <1>2, <1>3

\* New parameters do not touch the packets.
LEMMA SetParametersQInv ==
  ASSUME QInv, NEW l \in Limits, NEW bytes \in BOOLEAN, NEW front \in BOOLEAN,
         SetParameters(l, bytes, front)
  PROVE  QInv'
BY DEF SetParameters, QInv, QueueTypeOK, NoneWaitsForIdleLink

\* What shrink_queue keeps is the beginning or the end of the queue.
LEMMA ShrinkQInv ==
  ASSUME QInv, Shrink PROVE QInv'
<1>1. PICK k \in 0 .. Len(queue) : /\ queue' = KeptBy(k)
                                    /\ dropped' \subseteq dropped \cup ToSet(queue)
  BY DEF Shrink
<1>2. Selection(KeptBy(k), queue)
  BY KeptSelection DEF QInv, QueueTypeOK
<1> QED
  BY <1>1, <1>2, RemovalStep, ToSetType DEF QInv, QueueTypeOK, Shrink, params

\* Both filters take packets out and keep the rest as it was.
LEMMA FilterQInv ==
  ASSUME QInv, NEW hop \in Hop, FilterFirst(hop) \/ FilterAll(hop) PROVE QInv'
<1>1. queue \in Seq(Packet)
  BY DEF QInv, QueueTypeOK
<1>2. CASE FilterFirst(hop)
  <2>1. PICK i \in 1 .. Len(queue) : queue' = RemoveAt(queue, i)
                                  /\ taken' = taken \cup {queue[i]}
    BY <1>1, <1>2 DEF FilterFirst
  <2>2. queue[i] \in Packet /\ Selection(queue', queue)
    BY <1>1, <2>1, RemovalOmitsOne, OmittedSelection
  <2> QED
    BY <1>2, <2>1, <2>2, RemovalStep DEF QInv, QueueTypeOK, FilterFirst, params
<1>3. CASE FilterAll(hop)
  <2>1. Selection(queue', queue) /\ taken' \subseteq Packet
    BY <1>1, <1>3, SelectRemainder, ToSetType DEF QInv, QueueTypeOK, FilterAll, params
  <2> QED
    BY <1>3, <2>1, RemovalStep DEF QInv, QueueTypeOK, FilterAll, params
<1> QED
  BY <1>2, <1>3

\* Nothing stays behind a reset, or an attached queue.
LEMMA EmptyingQInv ==
  ASSUME QInv, NEW found \in BOOLEAN, Reset \/ AttachQueue(found) PROVE QInv'
<1>1. queue \in Seq(Packet) /\ queue' = <<>>
  BY DEF QInv, QueueTypeOK, Reset, AttachQueue
<1>2. Selection(queue', queue) /\ ToSet(queue) \subseteq Packet
  BY <1>1, SelectNone, ToSetType
<1>3. CASE Reset
  BY <1>2, <1>3, RemovalStep DEF QInv, QueueTypeOK, Reset, params
<1>4. CASE AttachQueue(found)
  BY <1>2, <1>4, RemovalStep DEF QInv, QueueTypeOK, AttachQueue, params
<1> QED
  BY <1>3, <1>4

\* Every step keeps the invariant.
LEMMA NextQInv == QInv /\ [QueueNext]_qvars => QInv'
<1> SUFFICES ASSUME QInv, [QueueNext]_qvars PROVE QInv'
  OBVIOUS
<1>1. CASE QueueNext
  BY <1>1, RecvQInv, ResumeQInv, SetParametersQInv, ShrinkQInv, FilterQInv, EmptyingQInv
     DEF QueueNext
<1>2. CASE UNCHANGED qvars
  BY <1>2 DEF qvars, QInv, QueueTypeOK, NoneWaitsForIdleLink, params
<1> QED
  BY <1>1, <1>2

----------------------------------------------------------------------------
(***************************************************************************)
(* Where packets are.  IdsOf and IdsIn are the numbers of the packets in   *)
(* a sequence and in a set.  Once(q, s, d, t, n): the packets 1 .. n are   *)
(* in q, s, d and t, each in one of them and there at one place.           *)
(***************************************************************************)
IdsOf(q) == {q[k].id : k \in 1 .. Len(q)}

IdsIn(d) == {p.id : p \in d}

Distinct(q) == \A j, k \in 1 .. Len(q) : q[j].id = q[k].id => j = k

Lone(d) == \A p, r \in d : p.id = r.id => p = r

Apart(A, B, C, D) ==
  /\ A \cap B = {} /\ A \cap C = {} /\ A \cap D = {}
  /\ B \cap C = {} /\ B \cap D = {} /\ C \cap D = {}

Once(q, s, d, t, n) ==
  /\ Distinct(q) /\ Distinct(s) /\ Lone(d) /\ Lone(t)
  /\ Apart(IdsOf(q), IdsOf(s), IdsIn(d), IdsIn(t))
  /\ IdsOf(q) \cup IdsOf(s) \cup IdsIn(d) \cup IdsIn(t) = 1 .. n

\* The numbers of a queue, split between what stays and what is taken out.
LEMMA RemovedIds ==
  ASSUME NEW q \in Seq(Packet), NEW r, Selection(r, q), Distinct(q)
  PROVE  LET D == ToSet(q) \ ToSet(r)
         IN  /\ Distinct(r) /\ Lone(D)
             /\ IdsOf(r) \cap IdsIn(D) = {}
             /\ IdsOf(r) \cup IdsIn(D) = IdsOf(q)
<1> DEFINE D == ToSet(q) \ ToSet(r)
<1>1. PICK f \in [1 .. Len(r) -> 1 .. Len(q)] :
        /\ \A j, k \in 1 .. Len(r) : j < k => f[j] < f[k]
        /\ \A k \in 1 .. Len(r) : r[k] = q[f[k]]
  BY DEF Selection
<1>2. \A k \in 1 .. Len(r) : f[k] \in 1 .. Len(q)
  BY <1>1
<1>3. r \in Seq(Packet) /\ Len(r) \in Nat /\ Len(q) \in Nat
  BY DEF Selection
<1>4. \A x : x \in D <=> /\ \E k \in 1 .. Len(q) : x = q[k]
                         /\ \A k \in 1 .. Len(r) : x # r[k]
  BY <1>3 DEF ToSet
<1> HIDE DEF D
<1>5. Distinct(r)
  <2> SUFFICES ASSUME NEW j \in 1 .. Len(r), NEW k \in 1 .. Len(r),
                      r[j].id = r[k].id
               PROVE  j = k
    BY DEF Distinct
  <2>1. f[j] = f[k]
    BY <1>1, <1>2 DEF Distinct
  <2>2. ~(f[j] < f[k]) /\ ~(f[k] < f[j])
    BY <1>2, <2>1
  <2> QED
    BY <1>1, <1>3, <2>2
<1>6. Lone(D)
  BY <1>4 DEF Lone, Distinct
<1>7. ASSUME NEW k \in 1 .. Len(r), NEW x \in D PROVE r[k].id # x.id
  <2>1. PICK j \in 1 .. Len(q) : x = q[j]
    BY <1>4
  <2>2. r[k] = q[f[k]] /\ f[k] \in 1 .. Len(q) /\ x # r[k]
    BY <1>1, <1>2, <1>4
  <2> QED
    BY <2>1, <2>2 DEF Distinct
<1>8. IdsOf(r) \subseteq IdsOf(q) /\ IdsIn(D) \subseteq IdsOf(q)
  <2>1. IdsOf(r) \subseteq IdsOf(q)
    BY <1>1, <1>2 DEF IdsOf
  <2>2. IdsIn(D) \subseteq IdsOf(q)
    BY <1>4 DEF IdsOf, IdsIn
  <2> QED
    BY <2>1, <2>2
<1>9. ASSUME NEW k \in 1 .. Len(q) PROVE q[k].id \in IdsOf(r) \cup IdsIn(D)
  <2>1. CASE q[k] \in D
    BY <2>1 DEF IdsIn
  <2>2. CASE q[k] \notin D
    BY <1>4, <2>2 DEF IdsOf
  <2> QED
    BY <2>1, <2>2
<1>10. IdsOf(r) \cap IdsIn(D) = {}
  BY <1>7 DEF IdsOf, IdsIn
<1>11. IdsOf(q) \subseteq IdsOf(r) \cup IdsIn(D)
  BY <1>9 DEF IdsOf
<1> QED
  BY <1>5, <1>6, <1>8, <1>10, <1>11 DEF D

\* The numbers of two sets of packets.
LEMMA UnionIds ==
  ASSUME NEW d, NEW e
  PROVE  /\ IdsIn(d \cup e) = IdsIn(d) \cup IdsIn(e)
         /\ Lone(d) /\ Lone(e) /\ IdsIn(d) \cap IdsIn(e) = {} => Lone(d \cup e)
<1>1. IdsIn(d \cup e) = IdsIn(d) \cup IdsIn(e)
  BY DEF IdsIn
<1>2. ASSUME Lone(d), Lone(e), IdsIn(d) \cap IdsIn(e) = {},
             NEW p \in d \cup e, NEW r \in d \cup e, p.id = r.id
      PROVE  p = r
  <2>1. \A x \in d, y \in e : x.id # y.id
    BY <1>2 DEF IdsIn
  <2> QED
    BY <1>2, <2>1 DEF Lone
<1> QED
  BY <1>1, <1>2 DEF Lone

\* Packets taken out are elsewhere.
LEMMA OnceRemoved ==
  ASSUME NEW q \in Seq(Packet), NEW r, NEW s, NEW d, NEW t, NEW n,
         Once(q, s, d, t, n), Selection(r, q)
  PROVE  LET D == ToSet(q) \ ToSet(r)
         IN  Once(r, s, d \cup D, t, n) /\ Once(r, s, d, t \cup D, n)
<1> DEFINE D == ToSet(q) \ ToSet(r)
<1>1. /\ Distinct(r) /\ Lone(D)
      /\ IdsOf(r) \cap IdsIn(D) = {}
      /\ IdsOf(r) \cup IdsIn(D) = IdsOf(q)
  BY RemovedIds DEF Once
<1> HIDE DEF D
<1>2. /\ Distinct(s) /\ Lone(d) /\ Lone(t)
      /\ Apart(IdsOf(q), IdsOf(s), IdsIn(d), IdsIn(t))
      /\ IdsOf(q) \cup IdsOf(s) \cup IdsIn(d) \cup IdsIn(t) = 1 .. n
  BY DEF Once
<1>3. /\ IdsIn(d \cup D) = IdsIn(d) \cup IdsIn(D)
      /\ IdsIn(t \cup D) = IdsIn(t) \cup IdsIn(D)
      /\ IdsIn(d) \cap IdsIn(D) = {} => Lone(d \cup D)
      /\ IdsIn(t) \cap IdsIn(D) = {} => Lone(t \cup D)
  BY <1>1, <1>2, UnionIds
<1>4. Once(r, s, d \cup D, t, n)
  BY <1>1, <1>2, <1>3 DEF Once, Apart
<1>5. Once(r, s, d, t \cup D, n)
  BY <1>1, <1>2, <1>3 DEF Once, Apart
<1> QED
  BY <1>4, <1>5 DEF D

\* The one that is left out, of packets that are distinct.
LEMMA OmittedPacket ==
  ASSUME NEW q \in Seq(Packet), NEW i \in 1 .. Len(q), NEW r, OmitsOne(r, q, i),
         Distinct(q)
  PROVE  ToSet(q) \ ToSet(r) = {q[i]}
<1>1. /\ Len(q) \in Nat /\ i \in Nat /\ i <= Len(q) /\ Len(r) = Len(q) - 1
      /\ r \in Seq(Packet)
  BY DEF OmitsOne
<1>2. \A j, k \in 1 .. Len(q) : q[j] = q[k] => j = k
  BY DEF Distinct
<1>3. ToSet(q) = {q[k] : k \in 1 .. Len(q)} /\ ToSet(r) = {r[k] : k \in 1 .. Len(r)}
  BY <1>1 DEF ToSet
<1>4. ASSUME NEW k \in 1 .. Len(q), k # i PROVE q[k] \in ToSet(r)
  <2>1. CASE k < i
    <3>1. k \in 1 .. Len(r) /\ r[k] = q[k]
      BY <1>1, <2>1 DEF OmitsOne
    <3> QED
      BY <1>3, <3>1
  <2>2. CASE ~(k < i)
    <3>1. k - 1 \in 1 .. Len(r) /\ ~(k - 1 < i) /\ (k - 1) + 1 = k
      BY <1>1, <1>4, <2>2
    <3>2. r[k - 1] = q[k]
      BY <1>1, <3>1 DEF OmitsOne
    <3> QED
      BY <1>3, <3>1, <3>2
  <2> QED
    BY <2>1, <2>2
<1>5. ASSUME NEW k \in 1 .. Len(r) PROVE r[k] # q[i]
  <2>1. /\ k \in 1 .. Len(q) - 1 /\ k \in 1 .. Len(q) /\ k + 1 \in 1 .. Len(q)
        /\ (k < i => k # i) /\ (~(k < i) => k + 1 # i)
    BY <1>1
  <2>2. r[k] = IF k < i THEN q[k] ELSE q[k + 1]
    BY <2>1 DEF OmitsOne
  <2> QED
    BY <1>2, <2>1, <2>2
<1> QED
  BY <1>3, <1>4, <1>5

\* A packet with a new number is added, at either end.
LEMMA AddedIds ==
  ASSUME NEW q \in Seq(Packet), NEW p \in Packet, Distinct(q), p.id \notin IdsOf(q)
  PROVE  /\ Distinct(Append(q, p)) /\ Distinct(<<p>> \o q)
         /\ IdsOf(Append(q, p)) = IdsOf(q) \cup {p.id}
         /\ IdsOf(<<p>> \o q) = IdsOf(q) \cup {p.id}
<1> DEFINE r == Append(q, p)
           u == <<p>> \o q
<1>1. Len(q) \in Nat /\ \A k \in 1 .. Len(q) : q[k].id # p.id
  BY DEF IdsOf
<1>2. /\ Len(r) = Len(q) + 1
      /\ \A k \in 1 .. Len(q) : r[k] = q[k]
      /\ r[Len(q) + 1] = p
  OBVIOUS
<1>3. /\ Len(u) = Len(q) + 1
      /\ \A k \in 1 .. Len(q) + 1 : u[k] = IF k <= 1 THEN p ELSE q[k - 1]
  <2>1. <<p>> \in Seq(Packet) /\ Len(<<p>>) = 1 /\ <<p>>[1] = p
    OBVIOUS
  <2> QED
    BY <1>1, <2>1, ConcatProperties
<1> HIDE DEF r, u
<1>4. \A k \in 1 .. Len(q) + 1 : k = Len(q) + 1 \/ k \in 1 .. Len(q)
  BY <1>1
<1>5. \A k \in 1 .. Len(q) : k \in 1 .. Len(q) + 1 /\ k # Len(q) + 1
  BY <1>1
<1>6. Distinct(r)
  BY <1>1, <1>2, <1>4, <1>5 DEF Distinct
<1>7. Len(q) + 1 \in 1 .. Len(q) + 1
  BY <1>1
<1>8. IdsOf(r) = IdsOf(q) \cup {p.id}
  BY <1>2, <1>4, <1>5, <1>7 DEF IdsOf
<1>9. /\ u[1] = p /\ 1 \in 1 .. Len(q) + 1
      /\ \A k \in 1 .. Len(q) + 1 : k = 1 \/ (k - 1 \in 1 .. Len(q) /\ u[k] = q[k - 1])
  BY <1>1, <1>3
<1>10. \A k \in 1 .. Len(q) : k + 1 \in 1 .. Len(q) + 1 /\ u[k + 1] = q[k]
  <2> SUFFICES ASSUME NEW k \in 1 .. Len(q)
               PROVE  k + 1 \in 1 .. Len(q) + 1 /\ u[k + 1] = q[k]
    OBVIOUS
  <2>1. k + 1 \in 1 .. Len(q) + 1 /\ ~(k + 1 <= 1) /\ (k + 1) - 1 = k
    BY <1>1
  <2> QED
    BY <1>3, <2>1
<1>11. Distinct(u)
  <2> SUFFICES ASSUME NEW j \in 1 .. Len(q) + 1, NEW k \in 1 .. Len(q) + 1,
                      u[j].id = u[k].id
               PROVE  j = k
    BY <1>3 DEF Distinct
  <2>1. CASE j = 1
    BY <1>1, <1>9, <2>1
  <2>2. CASE k = 1
    BY <1>1, <1>9, <2>2
  <2>3. CASE j # 1 /\ k # 1
    <3>1. j - 1 = k - 1
      BY <1>9, <2>3 DEF Distinct
    <3> QED
      BY <3>1
  <2> QED
    BY <2>1, <2>2, <2>3
<1>12. IdsOf(u) = IdsOf(q) \cup {p.id}
  <2>1. IdsOf(u) \subseteq IdsOf(q) \cup {p.id}
    BY <1>3, <1>9 DEF IdsOf
  <2>2. IdsOf(q) \cup {p.id} \subseteq IdsOf(u)
    BY <1>3, <1>9, <1>10 DEF IdsOf
  <2> QED
    BY <2>1, <2>2
<1> QED
  BY <1>6, <1>8, <1>11, <1>12 DEF r, u

\* A packet arrives: at the end, at the head, or not at all.
LEMMA OnceArrived ==
  ASSUME NEW q \in Seq(Packet), NEW s, NEW d, NEW t, NEW n \in Nat,
         Once(q, s, d, t, n), NEW p \in Packet, p.id = n + 1
  PROVE  /\ Once(Append(q, p), s, d, t, n + 1)
         /\ Once(<<p>> \o q, s, d, t, n + 1)
         /\ Once(q, s, d \cup {p}, t, n + 1)
<1>1. /\ Distinct(q) /\ Distinct(s) /\ Lone(d) /\ Lone(t)
      /\ Apart(IdsOf(q), IdsOf(s), IdsIn(d), IdsIn(t))
      /\ IdsOf(q) \cup IdsOf(s) \cup IdsIn(d) \cup IdsIn(t) = 1 .. n
  BY DEF Once
<1>2. n + 1 \notin 1 .. n /\ 1 .. n + 1 = (1 .. n) \cup {n + 1}
  OBVIOUS
<1>3. /\ n + 1 \notin IdsOf(q) /\ n + 1 \notin IdsOf(s)
      /\ n + 1 \notin IdsIn(d) /\ n + 1 \notin IdsIn(t)
  BY <1>1, <1>2
<1>4. /\ Distinct(Append(q, p)) /\ Distinct(<<p>> \o q)
      /\ IdsOf(Append(q, p)) = IdsOf(q) \cup {n + 1}
      /\ IdsOf(<<p>> \o q) = IdsOf(q) \cup {n + 1}
  BY <1>1, <1>3, AddedIds
<1>5. Once(Append(q, p), s, d, t, n + 1) /\ Once(<<p>> \o q, s, d, t, n + 1)
  BY <1>1, <1>2, <1>3, <1>4 DEF Once, Apart
<1>6. Lone({p}) /\ IdsIn({p}) = {n + 1}
  BY DEF Lone, IdsIn
<1>7. IdsIn(d \cup {p}) = IdsIn(d) \cup {n + 1} /\ Lone(d \cup {p})
  <2>1. IdsIn(d) \cap IdsIn({p}) = {}
    BY <1>3, <1>6
  <2>2. IdsIn(d \cup {p}) = IdsIn(d) \cup IdsIn({p})
    BY UnionIds
  <2>3. Lone(d \cup {p})
    BY <1>1, <1>6, <2>1, UnionIds
  <2> QED
    BY <1>6, <2>2, <2>3
<1> DEFINE e == d \cup {p}
<1> HIDE DEF e
<1>8. Once(q, s, e, t, n + 1)
  <2>1. IdsIn(e) = IdsIn(d) \cup {n + 1} /\ Lone(e)
    BY <1>7 DEF e
  <2>2. Apart(IdsOf(q), IdsOf(s), IdsIn(e), IdsIn(t))
    BY <1>1, <1>3, <2>1 DEF Apart
  <2>3. IdsOf(q) \cup IdsOf(s) \cup IdsIn(e) \cup IdsIn(t) = 1 .. n + 1
    BY <1>1, <1>2, <2>1
  <2> QED
    BY <1>1, <2>1, <2>2, <2>3 DEF Once
<1> QED
  BY <1>5, <1>8 DEF e

\* The first packet is handed to the link.
LEMMA OnceServed ==
  ASSUME NEW q \in Seq(Packet), NEW s \in Seq(Packet), NEW d, NEW t, NEW n,
         Once(q, s, d, t, n), q # <<>>
  PROVE  Once(Tail(q), Append(s, Head(q)), d, t, n)
<1> DEFINE h == Head(q)
<1>1. /\ Distinct(q) /\ Distinct(s) /\ Lone(d) /\ Lone(t)
      /\ Apart(IdsOf(q), IdsOf(s), IdsIn(d), IdsIn(t))
      /\ IdsOf(q) \cup IdsOf(s) \cup IdsIn(d) \cup IdsIn(t) = 1 .. n
  BY DEF Once
<1>2. h = q[1] /\ 1 \in 1 .. Len(q) /\ OmitsOne(Tail(q), q, 1) /\ h \in Packet
  BY EndsOmitOne
<1>3. h.id \in IdsOf(q)
  BY <1>2 DEF IdsOf
<1>4. h.id \notin IdsOf(s)
  BY <1>1, <1>3 DEF Apart
<1>5. Selection(Tail(q), q) /\ ToSet(q) \ ToSet(Tail(q)) = {h}
  BY <1>1, <1>2, OmittedSelection, OmittedPacket
<1>6. IdsIn({h}) = {h.id}
  BY DEF IdsIn
<1> HIDE DEF h
<1>7. /\ Distinct(Tail(q))
      /\ IdsOf(Tail(q)) \cap {h.id} = {}
      /\ IdsOf(Tail(q)) \cup {h.id} = IdsOf(q)
  BY <1>1, <1>5, <1>6, RemovedIds
<1>8. /\ Distinct(Append(s, h))
      /\ IdsOf(Append(s, h)) = IdsOf(s) \cup {h.id}
  BY <1>1, <1>2, <1>4, AddedIds
<1> QED
  BY <1>1, <1>7, <1>8 DEF Once, Apart, h

\* An idle link takes the first packet.
LEMMA HandOnOnce ==
  ASSUME NEW q \in Seq(Packet), sent \in Seq(Packet), NEW d, NEW t, NEW n,
         Once(q, sent, d, t, n), HandOn(q)
  PROVE  Once(queue', sent', d, t, n)
<1>1. CASE ~blocked /\ q # <<>>
  <2>1. sent' = Append(sent, Head(q)) /\ queue' = Tail(q)
    BY <1>1 DEF HandOn
  <2> QED
    BY <1>1, <2>1, OnceServed
<1>2. CASE blocked \/ q = <<>>
  BY <1>2 DEF HandOn
<1> QED
  BY <1>1, <1>2

\* The queue either entry point makes is a queue of packets, and its drop is
\* what it left out.
LEMMA EntryOnce ==
  ASSUME NEW p \in Packet, queue \in Seq(Packet), NEW s, NEW d, NEW t, arrived \in Nat,
         Once(queue, s, d, t, arrived), p.id = arrived + 1,
         NEW r, r = EnqueHead(p) \/ r = Enque(p)
  PROVE  r.queue \in Seq(Packet) /\ Once(r.queue, s, d \cup r.drop, t, arrived + 1)
<1> DEFINE u == <<p>> \o queue
           v == Append(queue, p)
<1>1. u \in Seq(Packet) /\ v \in Seq(Packet) /\ v # <<>> /\ u # <<>>
  <2>1. <<p>> \in Seq(Packet) /\ Len(<<p>>) = 1
    OBVIOUS
  <2>2. u \in Seq(Packet) /\ Len(u) = Len(<<p>>) + Len(queue)
    BY <2>1, ConcatProperties
  <2>3. v \in Seq(Packet) /\ v # <<>>
    OBVIOUS
  <2> HIDE DEF u, v
  <2>4. u # <<>>
    BY <2>1, <2>2
  <2> QED
    BY <2>2, <2>3, <2>4
<1>2. /\ Once(v, s, d, t, arrived + 1) /\ Once(u, s, d, t, arrived + 1)
      /\ Once(queue, s, d \cup {p}, t, arrived + 1)
  BY OnceArrived
<1>3. \/ r.queue = u /\ r.drop = {}
      \/ r.queue = Front(u) /\ r.drop = {Last(u)}
      \/ r.queue = v /\ r.drop = {}
      \/ r.queue = Tail(v) /\ r.drop = {Head(v)}
      \/ r.queue = queue /\ r.drop = {p}
  <2>1. CASE r = EnqueHead(p)
    <3> HIDE DEF u
    <3> QED
      BY <2>1 DEF EnqueHead, u
  <2>2. CASE r = Enque(p)
    <3> HIDE DEF v
    <3> QED
      BY <2>2 DEF Enque, v
  <2> QED
    BY <2>1, <2>2
<1> HIDE DEF u, v
<1>4. ASSUME NEW q \in Seq(Packet), q # <<>>, Once(q, s, d, t, arrived + 1)
      PROVE  /\ Tail(q) \in Seq(Packet) /\ Once(Tail(q), s, d \cup {Head(q)}, t, arrived + 1)
             /\ Front(q) \in Seq(Packet) /\ Once(Front(q), s, d \cup {Last(q)}, t, arrived + 1)
  <2>1. /\ 1 \in 1 .. Len(q) /\ Len(q) \in 1 .. Len(q)
        /\ OmitsOne(Tail(q), q, 1) /\ OmitsOne(Front(q), q, Len(q))
        /\ Head(q) = q[1] /\ Last(q) = q[Len(q)]
    BY <1>4, EndsOmitOne
  <2>2. Distinct(q)
    BY <1>4 DEF Once
  <2>3. /\ Selection(Tail(q), q) /\ ToSet(q) \ ToSet(Tail(q)) = {Head(q)}
        /\ Selection(Front(q), q) /\ ToSet(q) \ ToSet(Front(q)) = {Last(q)}
    BY <2>1, <2>2, OmittedSelection, OmittedPacket
  <2>4. /\ Once(Tail(q), s, d \cup {Head(q)}, t, arrived + 1)
        /\ Once(Front(q), s, d \cup {Last(q)}, t, arrived + 1)
    BY <1>4, <2>3, OnceRemoved
  <2> QED
    BY <2>1, <2>4 DEF OmitsOne
<1>5. d \cup {} = d
  OBVIOUS
<1> QED
  BY <1>1, <1>2, <1>3, <1>4, <1>5

\* The invariant with which EachPacketOnce is proved.
OInv == QInv /\ Once(queue, sent, dropped, taken, arrived)

\* No packet has arrived.
LEMMA InitOnce == QueueInit => OInv
<1> SUFFICES ASSUME QueueInit PROVE OInv
  OBVIOUS
<1>1. 1 .. Len(<<>>) = {} /\ 1 .. 0 = {}
  OBVIOUS
<1>2. IdsOf(<<>>) = {} /\ IdsIn({}) = {} /\ Distinct(<<>>) /\ Lone({})
  BY <1>1 DEF IdsOf, IdsIn, Distinct, Lone
<1> QED
  BY <1>1, <1>2, InitQInv DEF QueueInit, OInv, Once, Apart

\* Every step moves packets from one place to another.
LEMMA NextOnce == OInv /\ [QueueNext]_qvars => OInv'
<1> SUFFICES ASSUME OInv, [QueueNext]_qvars PROVE OInv'
  OBVIOUS
<1>1. QInv /\ QInv' /\ Once(queue, sent, dropped, taken, arrived)
  BY NextQInv DEF OInv
<1>2. /\ queue \in Seq(Packet) /\ sent \in Seq(Packet) /\ arrived \in Nat
      /\ DOMAIN queue = 1 .. Len(queue) /\ queue' \in Seq(Packet)
  BY <1>1 DEF QInv, QueueTypeOK
<1>3. ASSUME Selection(queue', queue), UNCHANGED <<sent, arrived>>,
             \/ /\ dropped' = dropped \cup (ToSet(queue) \ ToSet(queue'))
                /\ UNCHANGED taken
             \/ /\ taken' = taken \cup (ToSet(queue) \ ToSet(queue'))
                /\ UNCHANGED dropped
      PROVE  Once(queue', sent', dropped', taken', arrived')
  <2> DEFINE D == ToSet(queue) \ ToSet(queue')
  <2>1. /\ Once(queue', sent, dropped \cup D, taken, arrived)
        /\ Once(queue', sent, dropped, taken \cup D, arrived)
    BY <1>1, <1>2, <1>3, OnceRemoved
  <2> HIDE DEF D
  <2>2. sent' = sent /\ arrived' = arrived
    BY <1>3
  <2>3. \/ dropped' = dropped \cup D /\ taken' = taken
        \/ taken' = taken \cup D /\ dropped' = dropped
    BY <1>3 DEF D
  <2> QED
    BY <2>1, <2>2, <2>3
<1>4. ASSUME NEW up \in BOOLEAN, NEW size \in Size, NEW hop \in Hop, Recv(up, size, hop)
      PROVE  Once(queue', sent', dropped', taken', arrived')
  <2> DEFINE p == [id |-> arrived + 1, up |-> up, size |-> size, hop |-> hop]
             r == IF Prefers(p) THEN EnqueHead(p) ELSE Enque(p)
  <2>1. p \in Packet /\ p.id = arrived + 1
    BY <1>2 DEF Packet
  <2>2. /\ arrived' = arrived + 1 /\ HandOn(r.queue) /\ dropped' = dropped \cup r.drop
        /\ taken' = taken
    BY <1>4 DEF Recv
  <2> HIDE DEF p
  <2>3. r = EnqueHead(p) \/ r = Enque(p)
    OBVIOUS
  <2> HIDE DEF r
  <2>4. /\ r.queue \in Seq(Packet)
        /\ Once(r.queue, sent, dropped \cup r.drop, taken, arrived + 1)
    BY <1>1, <1>2, <2>1, <2>3, EntryOnce
  <2> QED
    BY <1>2, <2>2, <2>4, HandOnOnce
<1>5. ASSUME Resume
      PROVE  Once(queue', sent', dropped', taken', arrived')
  <2>1. CASE queue = <<>>
    BY <1>1, <1>5, <2>1 DEF Resume
  <2>2. CASE queue # <<>>
    <3>1. /\ queue' = Tail(queue) /\ sent' = Append(sent, Head(queue))
          /\ UNCHANGED <<arrived, dropped, taken>>
      BY <1>5, <2>2 DEF Resume
    <3> QED
      BY <1>1, <1>2, <2>2, <3>1, OnceServed
  <2> QED
    BY <2>1, <2>2
<1>6. ASSUME NEW l \in Limits, NEW bytes \in BOOLEAN, NEW front \in BOOLEAN,
             SetParameters(l, bytes, front)
      PROVE  Once(queue', sent', dropped', taken', arrived')
  BY <1>1, <1>6 DEF SetParameters
<1>7. ASSUME Shrink
      PROVE  Once(queue', sent', dropped', taken', arrived')
  <2>1. PICK k \in 0 .. Len(queue) :
          /\ queue' = KeptBy(k)
          /\ dropped' = dropped \cup (ToSet(queue) \ ToSet(KeptBy(k)))
    BY <1>7 DEF Shrink
  <2>2. UNCHANGED <<sent, arrived, taken>>
    BY <1>7 DEF Shrink
  <2>3. Selection(KeptBy(k), queue)
    BY <1>2, KeptSelection
  <2> QED
    BY <1>3, <2>1, <2>2, <2>3
<1>8. ASSUME NEW hop \in Hop, FilterFirst(hop)
      PROVE  Once(queue', sent', dropped', taken', arrived')
  <2>1. PICK i \in 1 .. Len(queue) : queue' = RemoveAt(queue, i)
                                    /\ taken' = taken \cup {queue[i]}
    BY <1>2, <1>8 DEF FilterFirst
  <2>2. UNCHANGED <<sent, arrived, dropped>>
    BY <1>8 DEF FilterFirst
  <2>3. OmitsOne(queue', queue, i)
    BY <1>2, <2>1, RemovalOmitsOne
  <2>4. Selection(queue', queue) /\ ToSet(queue) \ ToSet(queue') = {queue[i]}
    BY <1>1, <1>2, <2>3, OmittedSelection, OmittedPacket DEF Once
  <2> QED
    BY <1>3, <2>1, <2>2, <2>4
<1>9. ASSUME NEW hop \in Hop, FilterAll(hop)
      PROVE  Once(queue', sent', dropped', taken', arrived')
  <2>1. /\ queue' \in Remainders(queue, hop)
        /\ taken' = taken \cup {p \in ToSet(queue) : p.hop = hop}
        /\ UNCHANGED <<sent, arrived, dropped>>
    BY <1>9 DEF FilterAll
  <2>2. /\ Selection(queue', queue)
        /\ ToSet(queue) \ ToSet(queue') = {p \in ToSet(queue) : p.hop = hop}
    BY <1>2, <2>1, SelectRemainder, RemainderLeavesOut
  <2> QED
    BY <1>3, <2>1, <2>2
<1>10. ASSUME NEW found \in BOOLEAN, Reset \/ AttachQueue(found)
       PROVE  Once(queue', sent', dropped', taken', arrived')
  <2>1. queue' = <<>> /\ Selection(<<>>, queue)
    BY <1>2, <1>10, SelectNone DEF Reset, AttachQueue
  <2>2. ToSet(queue) \ ToSet(queue') = ToSet(queue)
    <3>1. DOMAIN <<>> = {}
      OBVIOUS
    <3> QED
      BY <2>1, <3>1 DEF ToSet
  <2> QED
    BY <1>3, <1>10, <2>1, <2>2 DEF Reset, AttachQueue
<1>11. ASSUME UNCHANGED qvars
       PROVE  Once(queue', sent', dropped', taken', arrived')
  BY <1>1, <1>11 DEF qvars
<1>12. Once(queue', sent', dropped', taken', arrived')
  BY <1>4, <1>5, <1>6, <1>7, <1>8, <1>9, <1>10, <1>11 DEF QueueNext
<1> QED
  BY <1>1, <1>12 DEF OInv

\* How often a number occurs in a sequence of distinct packets.
LEMMA PlaceCount ==
  ASSUME NEW q \in Seq(Packet), Distinct(q), NEW n
  PROVE  Cardinality({k \in DOMAIN q : q[k].id = n}) = IF n \in IdsOf(q) THEN 1 ELSE 0
<1> DEFINE S == {k \in DOMAIN q : q[k].id = n}
<1>1. DOMAIN q = 1 .. Len(q)
  OBVIOUS
<1>2. CASE n \in IdsOf(q)
  <2>1. PICK k \in 1 .. Len(q) : q[k].id = n
    BY <1>2 DEF IdsOf
  <2>2. S = {k}
    BY <1>1, <2>1 DEF Distinct
  <2> QED
    BY <1>2, <2>2, FS_Singleton
<1>3. CASE n \notin IdsOf(q)
  <2>1. S = {}
    BY <1>1, <1>3 DEF IdsOf
  <2> QED
    BY <1>3, <2>1, FS_EmptySet
<1> QED
  BY <1>2, <1>3

\* The same for a set.
LEMMA MemberCount ==
  ASSUME NEW d, Lone(d), NEW n
  PROVE  Cardinality({p \in d : p.id = n}) = IF n \in IdsIn(d) THEN 1 ELSE 0
<1> DEFINE S == {p \in d : p.id = n}
<1>1. CASE n \in IdsIn(d)
  <2>1. PICK p \in d : p.id = n
    BY <1>1 DEF IdsIn
  <2>2. S = {p}
    BY <2>1 DEF Lone
  <2> QED
    BY <1>1, <2>2, FS_Singleton
<1>2. CASE n \notin IdsIn(d)
  <2>1. S = {}
    BY <1>2 DEF IdsIn
  <2> QED
    BY <1>2, <2>1, FS_EmptySet
<1> QED
  BY <1>1, <1>2

----------------------------------------------------------------------------
\* The invariant holds in every reachable state, whatever the script does to
\* the queue and however large it is.
THEOREM QueueInvariance == QueueSpec => []QInv
BY InitQInv, NextQInv, PTL DEF QueueSpec

\* Types are respected.
THEOREM QueueTypeCorrect == QueueSpec => []QueueTypeOK
<1>1. QInv => QueueTypeOK
  BY DEF QInv
<1> QED
  BY <1>1, QueueInvariance, PTL

\* No packet waits for an idle link (PriQueue::recvHighPriority's own copy of
\* the hand-over included).
THEOREM WorkConserving == QueueSpec => []NoneWaitsForIdleLink
<1>1. QInv => NoneWaitsForIdleLink
  BY DEF QInv
<1> QED
  BY <1>1, QueueInvariance, PTL

\* A PriQueue keeps backward ants before all other packets, the latest first.
THEOREM AntsGoFirst == QueueSpec => []AntsFirst
<1>1. QInv => AntsFirst
  <2>1. QInv => queue \in Seq(Packet) /\ DOMAIN queue = 1 .. Len(queue)
    BY DEF QInv, QueueTypeOK
  <2> QED
    BY <2>1 DEF QInv, Fits, Ranked, AntsFirst
<1> QED
  BY <1>1, QueueInvariance, PTL

\* All other packets reach the link in the order in which they came.
THEOREM OthersKeepOrder == QueueSpec => []OthersStayInOrder
<1>1. ASSUME QInv PROVE OthersStayInOrder
  <2> DEFINE all == sent \o queue
             m == Len(sent)
  <2>1. /\ sent \in Seq(Packet) /\ queue \in Seq(Packet)
        /\ m \in Nat /\ Len(queue) \in Nat
    BY <1>1 DEF QInv, QueueTypeOK
  <2>2. /\ all \in Seq(Packet) /\ Len(all) = m + Len(queue)
        /\ \A k \in 1 .. m + Len(queue) :
             all[k] = IF k <= m THEN sent[k] ELSE queue[k - m]
    BY <2>1, ConcatProperties
  <2> HIDE DEF all, m
  <2>3. DOMAIN all = 1 .. m + Len(queue)
    BY <2>1, <2>2
  <2>4. SUFFICES ASSUME NEW j \in 1 .. m + Len(queue), NEW k \in 1 .. m + Len(queue),
                        j < k, Other(all[j]), Other(all[k])
                 PROVE  all[j].id < all[k].id
    BY <2>3 DEF OthersStayInOrder, Other, all
  <2>5. /\ InOrder(sent) /\ InOrder(queue) /\ Between(sent, queue)
    BY <1>1 DEF QInv, Fits
  <2>6. CASE k <= m
    <3>1. j \in 1 .. Len(sent) /\ k \in 1 .. Len(sent) /\ all[j] = sent[j] /\ all[k] = sent[k]
      BY <2>1, <2>2, <2>4, <2>6 DEF m
    <3> QED
      BY <2>4, <2>5, <3>1 DEF InOrder
  <2>7. CASE j <= m /\ ~(k <= m)
    <3>1. /\ j \in 1 .. Len(sent) /\ k - m \in 1 .. Len(queue)
          /\ all[j] = sent[j] /\ all[k] = queue[k - m]
      BY <2>1, <2>2, <2>4, <2>7 DEF m
    <3> QED
      BY <2>4, <2>5, <3>1 DEF Between
  <2>8. CASE ~(j <= m)
    <3>1. /\ j - m \in 1 .. Len(queue) /\ k - m \in 1 .. Len(queue) /\ j - m < k - m
          /\ all[j] = queue[j - m] /\ all[k] = queue[k - m]
      BY <2>1, <2>2, <2>4, <2>8
    <3> QED
      BY <2>4, <2>5, <3>1 DEF InOrder
  <2> QED
    BY <2>1, <2>4, <2>6, <2>7, <2>8
<1> QED
  BY <1>1, QueueInvariance, PTL

\* Every packet that came is waiting, was sent, was dropped or was taken out:
\* none is lost, and none is in two places, whatever is done to the queue.
THEOREM PacketsAccountedFor == QueueSpec => []EachPacketOnce
<1>1. QueueSpec => []OInv
  BY InitOnce, NextOnce, PTL DEF QueueSpec
<1>2. ASSUME OInv PROVE EachPacketOnce
  <2>1. /\ Distinct(queue) /\ Distinct(sent) /\ Lone(dropped) /\ Lone(taken)
        /\ Apart(IdsOf(queue), IdsOf(sent), IdsIn(dropped), IdsIn(taken))
        /\ IdsOf(queue) \cup IdsOf(sent) \cup IdsIn(dropped) \cup IdsIn(taken)
             = 1 .. arrived
        /\ queue \in Seq(Packet) /\ sent \in Seq(Packet)
    BY <1>2 DEF OInv, Once, QInv, QueueTypeOK
  <2> SUFFICES ASSUME NEW n \in 1 .. arrived
               PROVE  Cardinality({k \in DOMAIN queue : queue[k].id = n})
                        + Cardinality({k \in DOMAIN sent : sent[k].id = n})
                        + Cardinality({p \in dropped : p.id = n})
                        + Cardinality({p \in taken : p.id = n}) = 1
    BY DEF EachPacketOnce
  <2>2. /\ Cardinality({k \in DOMAIN queue : queue[k].id = n})
             = IF n \in IdsOf(queue) THEN 1 ELSE 0
        /\ Cardinality({k \in DOMAIN sent : sent[k].id = n})
             = IF n \in IdsOf(sent) THEN 1 ELSE 0
        /\ Cardinality({p \in dropped : p.id = n})
             = IF n \in IdsIn(dropped) THEN 1 ELSE 0
        /\ Cardinality({p \in taken : p.id = n})
             = IF n \in IdsIn(taken) THEN 1 ELSE 0
    BY <2>1, PlaceCount, MemberCount
  <2> QED
    BY <2>1, <2>2 DEF Apart
<1> QED
  BY <1>1, <1>2, PTL

----------------------------------------------------------------------------
(***************************************************************************)
(* How the queue grows: by an arrival, and then by one packet.             *)
(***************************************************************************)
Recvs == \E up \in BOOLEAN, size \in Size, hop \in Hop : Recv(up, size, hop)

\* All that is not an arrival leaves some of the queue, in its order.
LEMMA OthersSelect ==
  ASSUME QInv, QueueNext, ~Recvs
  PROVE  Selection(queue', queue)
<1>1. queue \in Seq(Packet) /\ DOMAIN queue = 1 .. Len(queue)
  BY DEF QInv, QueueTypeOK
<1>2. Selection(queue, queue) /\ Selection(<<>>, queue)
  BY <1>1, SelectAll, SelectNone
<1>3. CASE Resume
  <2>1. CASE queue = <<>>
    BY <1>2, <1>3, <2>1 DEF Resume
  <2>2. CASE queue # <<>>
    <3>1. queue' = Tail(queue)
      BY <1>3, <2>2 DEF Resume
    <3> QED
      BY <1>1, <2>2, <3>1, SelectEnds
  <2> QED
    BY <2>1, <2>2
<1>4. ASSUME NEW l \in Limits, NEW bytes \in BOOLEAN, NEW front \in BOOLEAN,
             SetParameters(l, bytes, front)
      PROVE  Selection(queue', queue)
  BY <1>2, <1>4 DEF SetParameters
<1>5. CASE Shrink
  <2>1. PICK k \in 0 .. Len(queue) : queue' = KeptBy(k)
    BY <1>5 DEF Shrink
  <2> QED
    BY <1>1, <2>1, KeptSelection
<1>6. ASSUME NEW hop \in Hop, FilterFirst(hop) \/ FilterAll(hop)
      PROVE  Selection(queue', queue)
  <2>1. CASE FilterFirst(hop)
    <3>1. PICK i \in 1 .. Len(queue) : queue' = RemoveAt(queue, i)
      BY <1>1, <2>1 DEF FilterFirst
    <3> QED
      BY <1>1, <3>1, RemovalOmitsOne, OmittedSelection
  <2>2. CASE FilterAll(hop)
    BY <1>1, <2>2, SelectRemainder DEF FilterAll
  <2> QED
    BY <1>6, <2>1, <2>2
<1>7. ASSUME NEW found \in BOOLEAN, Reset \/ AttachQueue(found)
      PROVE  Selection(queue', queue)
  BY <1>2, <1>7 DEF Reset, AttachQueue
<1> QED
  BY <1>3, <1>4, <1>5, <1>6, <1>7 DEF QueueNext, Recvs

\* An arrival, by cases.
ToEnd(p, q, drop) ==
  /\ ~Prefers(p)
  /\ \/ ~Overflows(queue, p) /\ q = Append(queue, p) /\ drop = {}
     \/ dropFront /\ q = Tail(Append(queue, p)) /\ drop = {Head(Append(queue, p))}
     \/ ~dropFront /\ q = queue /\ drop = {p}

ToHead(p, q, drop) ==
  LET u == <<p>> \o queue
  IN  /\ Prefers(p)
      /\ \/ Len(u) < limit /\ q = u /\ drop = {}
         \/ q = Front(u) /\ drop = {Last(u)}

\* One of them happens, and an idle link is served.
LEMMA Arrival ==
  ASSUME QInv, NEW up \in BOOLEAN, NEW size \in Size, NEW hop \in Hop,
         Recv(up, size, hop)
  PROVE  \E p, q, drop :
           /\ p \in Packet
           /\ p.id = arrived + 1 /\ arrived' = arrived + 1
           /\ ToEnd(p, q, drop) \/ ToHead(p, q, drop)
           /\ q \in Seq(Packet) /\ dropped' = dropped \cup drop
           /\ HandOn(q)
           /\ queue' = q \/ (queue' = Tail(q) /\ q # <<>>)
<1> DEFINE p == [id |-> arrived + 1, up |-> up, size |-> size, hop |-> hop]
           r == IF Prefers(p) THEN EnqueHead(p) ELSE Enque(p)
           u == <<p>> \o queue
           v == Append(queue, p)
<1>1. queue \in Seq(Packet) /\ arrived \in Nat /\ limit \in Nat
  BY LimitsAssumption DEF QInv, QueueTypeOK
<1>2. p \in Packet /\ p.id = arrived + 1
  BY <1>1 DEF Packet
<1>3. arrived' = arrived + 1 /\ HandOn(r.queue) /\ dropped' = dropped \cup r.drop
  BY DEF Recv
<1> HIDE DEF p
<1>4. /\ u \in Seq(Packet) /\ u # <<>> /\ Len(u) \in Nat
      /\ v \in Seq(Packet) /\ v # <<>>
  <2>1. <<p>> \in Seq(Packet) /\ Len(<<p>>) = 1
    BY <1>2
  <2>2. u \in Seq(Packet) /\ Len(u) = Len(<<p>>) + Len(queue)
    BY <1>1, <2>1, ConcatProperties
  <2>3. v \in Seq(Packet) /\ v # <<>>
    BY <1>1, <1>2
  <2> HIDE DEF u, v
  <2>4. u # <<>> /\ Len(u) \in Nat
    BY <2>1, <2>2
  <2> QED
    BY <2>2, <2>3, <2>4
<1>5. ToEnd(p, r.queue, r.drop) \/ ToHead(p, r.queue, r.drop)
  <2>1. CASE Prefers(p)
    <3>1. r = EnqueHead(p)
      BY <2>1
    <3> HIDE DEF r, u
    <3>2. Len(u) < limit \/ Len(u) >= limit
      BY <1>1, <1>4
    <3>3. \/ Len(u) < limit /\ r.queue = u /\ r.drop = {}
          \/ r.queue = Front(u) /\ r.drop = {Last(u)}
      <4>1. CASE Len(u) >= limit
        BY <3>1, <4>1 DEF EnqueHead, u
      <4>2. CASE ~(Len(u) >= limit)
        BY <3>1, <3>2, <4>2 DEF EnqueHead, u
      <4> QED
        BY <4>1, <4>2
    <3> QED
      BY <2>1, <3>3 DEF ToHead, u
  <2>2. CASE ~Prefers(p)
    <3>1. r = Enque(p)
      BY <2>2
    <3> HIDE DEF r
    <3>2. \/ ~Overflows(queue, p) /\ r.queue = v /\ r.drop = {}
          \/ dropFront /\ r.queue = Tail(v) /\ r.drop = {Head(v)}
          \/ ~dropFront /\ r.queue = queue /\ r.drop = {p}
      BY <3>1 DEF Enque
    <3> QED
      BY <2>2, <3>2 DEF ToEnd
  <2> QED
    BY <2>1, <2>2
<1> HIDE DEF r
<1>6. r.queue \in Seq(Packet)
  <2>1. r.queue \in {queue, u, v, Front(u), Tail(v)}
    BY <1>5 DEF ToEnd, ToHead
  <2> HIDE DEF u, v
  <2>2. Front(u) \in Seq(Packet) /\ Tail(v) \in Seq(Packet)
    BY <1>4, EndsOmitOne DEF OmitsOne
  <2> QED
    BY <1>1, <1>4, <2>1, <2>2
<1>7. queue' = r.queue \/ (queue' = Tail(r.queue) /\ r.queue # <<>>)
  BY <1>3 DEF HandOn
<1> HIDE DEF u, v
<1> QED
  BY <1>2, <1>3, <1>5, <1>6, <1>7

\* A step that is not an arrival does not add to the queue.
LEMMA OthersSmaller ==
  ASSUME QInv, [QueueNext]_qvars, ~Recvs
  PROVE  /\ Len(queue') \in Nat /\ Len(queue) \in Nat /\ Len(queue') <= Len(queue)
         /\ Bytes(queue') \in Nat /\ Bytes(queue) \in Nat /\ Bytes(queue') <= Bytes(queue)
<1>1. queue \in Seq(Packet)
  BY DEF QInv, QueueTypeOK
<1>2. Selection(queue', queue)
  <2>1. CASE QueueNext
    BY <2>1, OthersSelect
  <2>2. CASE UNCHANGED qvars
    <3>1. queue' = queue
      BY <2>2 DEF qvars
    <3> QED
      BY <1>1, <3>1, SelectAll
  <2> QED
    BY <2>1, <2>2
<1> QED
  BY <1>1, <1>2, SelectionSmaller

\* Handing on does not add either.
LEMMA ServedSmaller ==
  ASSUME NEW q \in Seq(Packet), NEW r, r = q \/ (r = Tail(q) /\ q # <<>>)
  PROVE  /\ Len(r) \in Nat /\ Len(q) \in Nat /\ Len(r) <= Len(q)
         /\ Bytes(r) \in Nat /\ Bytes(q) \in Nat /\ Bytes(r) <= Bytes(q)
<1>1. Selection(r, q)
  BY SelectAll, SelectEnds
<1> QED
  BY <1>1, SelectionSmaller

\* The lengths an arrival makes.
LEMMA AddedLengths ==
  ASSUME NEW q \in Seq(Packet), NEW p \in Packet
  PROVE  /\ Append(q, p) \in Seq(Packet) /\ Append(q, p) # <<>>
         /\ Len(Append(q, p)) = Len(q) + 1 /\ Len(Tail(Append(q, p))) = Len(q)
         /\ <<p>> \o q \in Seq(Packet) /\ <<p>> \o q # <<>>
         /\ Len(<<p>> \o q) = Len(q) + 1 /\ Len(Front(<<p>> \o q)) = Len(q)
         /\ (<<p>> \o q)[1] = p
         /\ \A k \in 1 .. Len(q) : (<<p>> \o q)[k + 1] = q[k]
<1> DEFINE u == <<p>> \o q
           v == Append(q, p)
<1>1. v \in Seq(Packet) /\ v # <<>> /\ Len(v) = Len(q) + 1 /\ Len(q) \in Nat
  OBVIOUS
<1>2. <<p>> \in Seq(Packet) /\ Len(<<p>>) = 1 /\ <<p>>[1] = p
  OBVIOUS
<1>3. /\ u \in Seq(Packet) /\ Len(u) = Len(<<p>>) + Len(q)
      /\ \A k \in 1 .. Len(<<p>>) + Len(q) :
           u[k] = IF k <= Len(<<p>>) THEN <<p>>[k] ELSE q[k - Len(<<p>>)]
  BY <1>2, ConcatProperties
<1> HIDE DEF u, v
<1>4. /\ Len(u) = Len(q) + 1 /\ Len(q) \in Nat
      /\ \A k \in 1 .. Len(q) + 1 : u[k] = IF k <= 1 THEN <<p>>[k] ELSE q[k - 1]
  <2>1. 1 + Len(q) = Len(q) + 1
    BY <1>1
  <2> QED
    BY <1>1, <1>2, <1>3, <2>1
<1>5. u # <<>>
  BY <1>3, <1>4
<1>6. u[1] = p
  <2>1. 1 \in 1 .. Len(q) + 1
    BY <1>4
  <2> QED
    BY <1>2, <1>4, <2>1
<1>7. ASSUME NEW k \in 1 .. Len(q) PROVE u[k + 1] = q[k]
  <2>1. k + 1 \in 1 .. Len(q) + 1 /\ ~(k + 1 <= 1) /\ (k + 1) - 1 = k
    BY <1>4
  <2> QED
    BY <1>4, <2>1
<1>8. Len(Tail(v)) = Len(v) - 1 /\ Len(Front(u)) = Len(u) - 1
  BY <1>1, <1>3, <1>5, EndsOmitOne DEF OmitsOne
<1>9. Len(Tail(v)) = Len(q) /\ Len(Front(u)) = Len(q)
  BY <1>1, <1>4, <1>8
<1> QED
  BY <1>1, <1>3, <1>4, <1>5, <1>6, <1>7, <1>9 DEF u, v

\* A queue measured in packets, and in either unit one that a backward ant
\* enters, grows only below its limit, also after the limit was lowered under a
\* queue that is longer.
THEOREM QueueGrowsBelowLimit == QueueSpec => GrowsBelowLimit
<1> DEFINE A == Len(queue') > Len(queue) /\ (inBytes => ArrivedAtHead)
                  => Len(queue') < limit
<1>1. ASSUME QInv, [QueueNext]_qvars PROVE A
  <2>1. CASE ~Recvs
    BY <1>1, <2>1, OthersSmaller
  <2>2. CASE Recvs
    <3>1. PICK p, q, drop :
            /\ p \in Packet
            /\ p.id = arrived + 1 /\ arrived' = arrived + 1
            /\ ToEnd(p, q, drop) \/ ToHead(p, q, drop)
            /\ q \in Seq(Packet)
            /\ queue' = q \/ (queue' = Tail(q) /\ q # <<>>)
      BY <1>1, <2>2, Arrival DEF Recvs
    <3>2. queue \in Seq(Packet) /\ Len(queue) \in Nat /\ limit \in Nat
          /\ arrived \in Nat /\ Known(queue, arrived)
      BY <1>1, LimitsAssumption DEF QInv, QueueTypeOK, Fits
    <3>3. Len(queue') \in Nat /\ Len(q) \in Nat /\ Len(queue') <= Len(q)
      BY <3>1, ServedSmaller
    <3>4. CASE ToEnd(p, q, drop)
      <4>1. CASE ~Overflows(queue, p) /\ q = Append(queue, p)
        <5>1. ~inBytes => ~(Len(queue) + 1 >= limit)
          BY <4>1 DEF Overflows
        <5>2. Len(q) = Len(queue) + 1
          BY <3>1, <3>2, <4>1, AddedLengths
        <5>3. CASE inBytes
          <6>1. SUFFICES ASSUME Len(queue') > Len(queue), ArrivedAtHead PROVE FALSE
            BY <5>3
          <6>2. queue' = q
            <7>1. CASE queue' = Tail(q) /\ q # <<>>
              <8>1. Len(queue') = Len(q) - 1
                BY <3>1, <7>1, EndsOmitOne DEF OmitsOne
              <8> QED
                BY <3>2, <5>2, <6>1, <8>1
            <7> QED
              BY <3>1, <7>1
          <6>3. Head(q) = q[1] /\ Head(q).id = arrived + 1 /\ Prefers(Head(q))
            BY <3>1, <6>1, <6>2 DEF ArrivedAtHead
          <6>4. CASE Len(queue) = 0
            <7>1. Head(q) = p
              BY <3>2, <4>1, <6>3, <6>4
            <7> QED
              BY <3>4, <6>3, <7>1 DEF ToEnd
          <6>5. CASE Len(queue) >= 1
            <7>1. Head(q) = queue[1] /\ 1 \in 1 .. Len(queue)
              BY <3>1, <3>2, <4>1, <6>3, <6>5
            <7>2. queue[1].id <= arrived /\ queue[1].id = arrived + 1
              BY <3>2, <6>3, <7>1 DEF Known
            <7> QED
              BY <3>2, <7>2
          <6> QED
            BY <3>2, <6>4, <6>5
        <5>4. CASE ~inBytes
          BY <3>2, <3>3, <5>1, <5>2, <5>4
        <5> QED
          BY <5>3, <5>4
      <4>2. CASE q = Tail(Append(queue, p)) \/ q = queue
        <5>1. Len(q) = Len(queue)
          <6>1. Len(Tail(Append(queue, p))) = Len(queue)
            BY <3>1, <3>2, AddedLengths
          <6> QED
            BY <4>2, <6>1, Zenon
        <5> QED
          BY <3>2, <3>3, <5>1
      <4> QED
        BY <3>4, <4>1, <4>2 DEF ToEnd
    <3>5. CASE ToHead(p, q, drop)
      <4> DEFINE u == <<p>> \o queue
      <4>1. Len(u) = Len(queue) + 1 /\ Len(Front(u)) = Len(queue)
        BY <3>1, <3>2, AddedLengths
      <4>2. (Len(u) < limit /\ q = u) \/ q = Front(u)
        BY <3>5 DEF ToHead
      <4> HIDE DEF u
      <4>3. (Len(q) = Len(queue) + 1 /\ Len(q) < limit) \/ Len(q) = Len(queue)
        BY <4>1, <4>2
      <4> QED
        BY <3>2, <3>3, <4>3
    <3> QED
      BY <3>1, <3>4, <3>5
  <2> QED
    BY <2>1, <2>2
<1>2. QueueSpec => [][A]_qvars
  BY <1>1, QueueInvariance, PTL DEF QueueSpec
<1> QED
  BY <1>2 DEF GrowsBelowLimit

\* A queue measured in bytes that drops at its tail grows only below its limit,
\* but for backward ants.
THEOREM QueueGrowsWithinBytes == QueueSpec => GrowsWithinBytes
<1> DEFINE A == inBytes /\ ~dropFront /\ Bytes(queue') > Bytes(queue)
                  => Bytes(queue') < limit * MeanPktSize \/ ArrivedAtHead
<1>1. ASSUME QInv, [QueueNext]_qvars PROVE A
  <2>1. CASE ~Recvs
    <3>1. Bytes(queue') \in Nat /\ Bytes(queue) \in Nat /\ Bytes(queue') <= Bytes(queue)
      BY <1>1, <2>1, OthersSmaller
    <3>2. ~(Bytes(queue') > Bytes(queue))
      BY <3>1
    <3> QED
      BY <3>2
  <2>2. CASE Recvs
    <3>1. PICK p, q, drop :
            /\ p \in Packet
            /\ p.id = arrived + 1 /\ arrived' = arrived + 1
            /\ ToEnd(p, q, drop) \/ ToHead(p, q, drop)
            /\ q \in Seq(Packet) /\ HandOn(q)
            /\ queue' = q \/ (queue' = Tail(q) /\ q # <<>>)
      BY <1>1, <2>2, Arrival DEF Recvs
    <3>2. /\ queue \in Seq(Packet) /\ Len(queue) \in Nat /\ limit * MeanPktSize \in Nat
          /\ blocked \/ queue = <<>>
      <4>1. limit \in Nat /\ MeanPktSize \in Nat
        BY <1>1, LimitsAssumption, SizesAssumption DEF QInv, QueueTypeOK
      <4> QED
        BY <1>1, <4>1 DEF QInv, QueueTypeOK, NoneWaitsForIdleLink
    <3>3. /\ Bytes(queue') \in Nat /\ Bytes(q) \in Nat /\ Bytes(queue') <= Bytes(q)
          /\ Bytes(queue) \in Nat
      BY <3>1, <3>2, ServedSmaller
    <3>4. CASE ToEnd(p, q, drop)
      <4>1. CASE ~Overflows(queue, p) /\ q = Append(queue, p)
        <5>1. inBytes => ~(Bytes(queue) + p.size >= limit * MeanPktSize)
          BY <4>1 DEF Overflows
        <5>2. Bytes(q) = Bytes(queue) + p.size
          BY <3>1, <3>2, <4>1, BytesOfAppend
        <5>3. inBytes => Bytes(queue') < limit * MeanPktSize
          BY <3>2, <3>3, <5>1, <5>2
        <5> QED
          BY <5>3
      <4>2. CASE dropFront
        BY <4>2
      <4>3. CASE q = queue
        <5>1. ~(Bytes(queue') > Bytes(queue))
          BY <3>3, <4>3
        <5> QED
          BY <5>1
      <4> QED
        BY <3>4, <4>1, <4>2, <4>3 DEF ToEnd
    <3>5. CASE ToHead(p, q, drop)
      <4> DEFINE u == <<p>> \o queue
      <4>1. /\ u \in Seq(Packet) /\ u # <<>> /\ Len(u) = Len(queue) + 1
            /\ Len(Front(u)) = Len(queue) /\ u[1] = p
        BY <3>1, <3>2, AddedLengths
      <4>2. (q = u \/ q = Front(u)) /\ Prefers(p)
        BY <3>5 DEF ToHead
      <4> HIDE DEF u
      <4>3. CASE blocked /\ Len(q) >= 1
        <5>1. queue' = q
          BY <3>1, <4>3 DEF HandOn
        <5>2. q[1] = p
          <6>1. CASE q = u
            BY <4>1, <6>1
          <6>2. CASE q = Front(u)
            <7>1. OmitsOne(q, u, Len(u))
              BY <4>1, <6>2, EndsOmitOne
            <7>2. 1 \in 1 .. Len(u) - 1 /\ 1 < Len(u)
              BY <3>2, <4>1, <4>3, <6>2
            <7> QED
              BY <4>1, <7>1, <7>2 DEF OmitsOne
          <6> QED
            BY <4>2, <6>1, <6>2
        <5>3. q # <<>> /\ Head(q) = q[1]
          BY <3>1, <4>3
        <5> QED
          BY <3>1, <4>2, <5>1, <5>2, <5>3 DEF ArrivedAtHead
      <4>4. CASE ~(blocked /\ Len(q) >= 1)
        <5>1. queue' = <<>>
          <6>1. CASE blocked
            <7>1. q = <<>>
              BY <3>1, <4>4, <6>1
            <7> QED
              BY <3>1, <6>1, <7>1 DEF HandOn
          <6>2. CASE ~blocked
            <7>1. Len(queue) = 0
              BY <3>2, <6>2
            <7>2. Len(q) <= 1
              <8>1. Len(u) = 1 /\ Len(Front(u)) = 0
                BY <4>1, <7>1
              <8>2. Len(q) = 1 \/ Len(q) = 0
                BY <4>2, <8>1, Zenon
              <8>3. \A n : n = 1 \/ n = 0 => n <= 1
                OBVIOUS
              <8> QED
                BY <8>2, <8>3
            <7>3. CASE q = <<>>
              BY <3>1, <6>2, <7>3 DEF HandOn
            <7>4. CASE q # <<>>
              <8>1. queue' = Tail(q)
                BY <6>2, <7>4, <3>1 DEF HandOn
              <8>2. Tail(q) \in Seq(Packet) /\ Len(Tail(q)) = Len(q) - 1 /\ Len(q) \in Nat
                BY <3>1, <7>4, EndsOmitOne DEF OmitsOne
              <8>3. Len(Tail(q)) = 0
                BY <7>2, <8>2
              <8> QED
                BY <8>1, <8>2, <8>3
            <7> QED
              BY <7>3, <7>4
          <6> QED
            BY <6>1, <6>2
        <5>2. Bytes(<<>>) <= Bytes(queue) /\ Bytes(<<>>) \in Nat
          BY <3>2, SelectNone, SelectionSmaller
        <5>3. ~(Bytes(queue') > Bytes(queue))
          BY <3>3, <5>1, <5>2
        <5> QED
          BY <5>3
      <4> QED
        BY <4>3, <4>4
    <3> QED
      BY <3>1, <3>4, <3>5
  <2> QED
    BY <2>1, <2>2
<1>2. QueueSpec => [][A]_qvars
  BY <1>1, QueueInvariance, PTL DEF QueueSpec
<1> QED
  BY <1>2 DEF GrowsWithinBytes

\* A selection of backward ants.
LEMMA SelectedUp ==
  ASSUME NEW q, NEW r, Selection(r, q), \A k \in 1 .. Len(q) : q[k].up
  PROVE  \A k \in 1 .. Len(r) : r[k].up
BY DEF Selection

\* A PriQueue that drops at its tail loses a backward ant only when nothing but
\* backward ants stays.
THEOREM AntsOust == QueueSpec => AntsOustOthers
<1> DEFINE A == ~dropFront /\ PreferRouting =>
                  \A p \in dropped' \ dropped : p.up => \A k \in DOMAIN queue' : queue'[k].up
<1>1. ASSUME QInv, [QueueNext]_qvars PROVE A
  <2> SUFFICES ASSUME ~dropFront, PreferRouting, NEW x \in dropped' \ dropped, x.up
               PROVE  \A k \in DOMAIN queue' : queue'[k].up
    OBVIOUS
  <2>1. /\ queue \in Seq(Packet) /\ arrived \in Nat /\ Len(queue) \in Nat
        /\ Fits(sent, queue, arrived)
    BY <1>1 DEF QInv, QueueTypeOK
  <2>2. CASE Recvs
    <3>1. PICK p, q, drop :
            /\ p \in Packet
            /\ p.id = arrived + 1
            /\ ToEnd(p, q, drop) \/ ToHead(p, q, drop)
            /\ q \in Seq(Packet) /\ dropped' = dropped \cup drop
            /\ queue' = q \/ (queue' = Tail(q) /\ q # <<>>)
      BY <1>1, <2>2, Arrival DEF Recvs
    <3>2. x \in drop
      BY <3>1
    <3> DEFINE u == <<p>> \o queue
    <3>3. ToHead(p, q, drop) /\ Prefers(p) /\ q = Front(u) /\ x = Last(u)
      <4>1. ~ToEnd(p, q, drop)
        BY <3>2 DEF ToEnd, Prefers
      <4> HIDE DEF u
      <4> QED
        BY <3>1, <3>2, <4>1 DEF ToHead, u
    <3>4. u \in Seq(Packet) /\ u # <<>>
      BY <2>1, <3>1, AddedLengths
    <3>5. Ranked(u)
      <4>1. Fits(sent, u, arrived + 1)
        BY <2>1, <3>1, <3>3, PrependFits DEF Prefers
      <4> QED
        BY <4>1 DEF Fits
    <3> HIDE DEF u
    <3>6. \A k \in 1 .. Len(u) : u[k].up
      <4>1. Len(u) \in 1 .. Len(u) /\ u[Len(u)].up
        BY <3>3, <3>4, EndsOmitOne
      <4>2. \A k \in 1 .. Len(u) : k = Len(u) \/ k < Len(u)
        BY <3>4
      <4> QED
        BY <3>5, <4>1, <4>2 DEF Ranked
    <3>7. Selection(q, u)
      BY <3>3, <3>4, SelectEnds
    <3>8. \A k \in 1 .. Len(q) : q[k].up
      BY <3>6, <3>7, SelectedUp
    <3>9. Selection(queue', q)
      BY <3>1, SelectAll, SelectEnds
    <3>10. \A k \in 1 .. Len(queue') : queue'[k].up
      BY <3>1, <3>8, <3>9, SelectedUp
    <3> QED
      BY <3>9, <3>10 DEF Selection
  <2>3. CASE Shrink
    <3>1. PICK k \in 0 .. Len(queue) :
            /\ queue' = SubSeq(queue, 1, k)
            /\ dropped' = dropped \cup (ToSet(queue) \ ToSet(SubSeq(queue, 1, k)))
      BY <2>3 DEF Shrink, KeptBy
    <3>2. x \in ToSet(queue) /\ x \notin ToSet(queue')
      BY <3>1
    <3>3. PICK j \in 1 .. Len(queue) : x = queue[j]
      BY <2>1, <3>2 DEF ToSet
    <3>4. /\ queue' \in Seq(Packet) /\ Len(queue') = k
          /\ \A i \in 1 .. k : queue'[i] = queue[i]
      BY <2>1, <3>1
    <3>5. ~(j <= k)
      <4>1. SUFFICES ASSUME j \in 1 .. k PROVE FALSE
        BY <2>1
      <4>2. j \in DOMAIN queue' /\ queue'[j] = x
        BY <3>3, <3>4, <4>1
      <4> QED
        BY <3>2, <4>2 DEF ToSet
    <3>6. Ranked(queue)
      BY <2>1 DEF Fits
    <3>7. ASSUME NEW i \in 1 .. k PROVE queue'[i].up
      <4>1. i \in 1 .. Len(queue) /\ i < j
        BY <2>1, <3>5
      <4> QED
        BY <3>3, <3>4, <3>6, <4>1 DEF Ranked
    <3> QED
      BY <3>4, <3>7
  <2>4. CASE Reset
    BY <2>4 DEF Reset
  <2>5. CASE dropped' = dropped
    BY <2>5
  <2>6. Recvs \/ Shrink \/ Reset \/ dropped' = dropped
    BY <1>1 DEF QueueNext, Resume, SetParameters, FilterFirst, FilterAll, AttachQueue,
                qvars, Recvs
  <2> QED
    BY <2>2, <2>3, <2>4, <2>5, <2>6
<1>2. QueueSpec => [][A]_qvars
  BY <1>1, QueueInvariance, PTL DEF QueueSpec
<1> QED
  BY <1>2 DEF AntsOustOthers

----------------------------------------------------------------------------
(***************************************************************************)
(* The loop of filter.  Round is one round of it, and the loop, a fold, is *)
(* defined by a recursive function over the subsets of the domain: that it *)
(* exists is shown as for Total.                                           *)
(***************************************************************************)
Round(s, hop) ==
  IF s.i > Len(s.q) THEN s
  ELSE IF s.q[s.i].hop = hop THEN [s EXCEPT !.q = RemoveAt(@, s.i)]
                             ELSE [s EXCEPT !.i = @ + 1]

LoopUpTo(D, q, hop, g) ==
  g = [t \in SUBSET D |->
         IF t = {} THEN [q |-> q, i |-> 1] ELSE Round(g[t \ {Max(t)}], hop)]

\* The value of the fold.
LEMMA LoopIsChosen ==
  ASSUME NEW q, NEW hop
  PROVE  FilterLoop(q, hop) = (CHOOSE g : LoopUpTo(DOMAIN q, q, hop, g))[DOMAIN q].q
BY DEF FilterLoop, FoldLeft, MapThenFoldSet, LoopUpTo, Round

\* The recursive function exists.
LEMMA LoopExists ==
  ASSUME NEW q, NEW hop, NEW n \in Nat
  PROVE  \E g : LoopUpTo(1 .. n, q, hop, g)
<1> DEFINE S == {m \in Nat : \E g : LoopUpTo(1 .. m, q, hop, g)}
           base == [q |-> q, i |-> 1]
<1>1. 0 \in S
  <2> DEFINE g == [t \in SUBSET (1 .. 0) |-> base]
  <2>1. SUBSET (1 .. 0) = {{}}
    OBVIOUS
  <2>2. LoopUpTo(1 .. 0, q, hop, g)
    BY <2>1 DEF LoopUpTo
  <2> QED
    BY <2>2
<1>2. ASSUME NEW m \in Nat, m \in S PROVE m + 1 \in S
  <2>1. PICK g : LoopUpTo(1 .. m, q, hop, g)
    BY <1>2
  <2> DEFINE D == 1 .. m + 1
             h == [t \in SUBSET D |->
                     IF m + 1 \in t THEN Round(g[t \ {m + 1}], hop) ELSE g[t]]
             body(t) == IF t = {} THEN base ELSE Round(h[t \ {Max(t)}], hop)
  <2>2. ASSUME NEW t \in SUBSET D PROVE h[t] = body(t)
    <3>1. \A u \in SUBSET D : m + 1 \notin u =>
            u \in SUBSET (1 .. m) /\ h[u] = g[u]
      <4>1. \A x \in D : x # m + 1 => x \in 1 .. m
        OBVIOUS
      <4> QED
        BY <4>1
    <3>2. CASE m + 1 \in t
      <4>1. Max(t) = m + 1
        BY <3>2, MaxIsTop
      <4>2. t \ {m + 1} \in SUBSET D /\ m + 1 \notin t \ {m + 1}
        OBVIOUS
      <4>3. h[t \ {m + 1}] = g[t \ {m + 1}]
        BY <3>1, <4>2
      <4>4. h[t] = Round(g[t \ {m + 1}], hop)
        BY <3>2
      <4> HIDE DEF h, base
      <4> QED
        BY <3>2, <4>1, <4>3, <4>4
    <3>3. CASE m + 1 \notin t
      <4>1. t \in SUBSET (1 .. m) /\ h[t] = g[t]
        BY <3>1, <3>3
      <4>2. g[t] = IF t = {} THEN base ELSE Round(g[t \ {Max(t)}], hop)
        BY <2>1, <4>1 DEF LoopUpTo
      <4>3. h[t \ {Max(t)}] = g[t \ {Max(t)}]
        <5>1. t \ {Max(t)} \in SUBSET D /\ m + 1 \notin t \ {Max(t)}
          BY <3>3
        <5> QED
          BY <3>1, <5>1
      <4> HIDE DEF h, base
      <4> QED
        BY <4>1, <4>2, <4>3
    <3> QED
      BY <3>2, <3>3
  <2>3. h = [t \in SUBSET D |-> body(t)]
    <3>1. h = [t \in SUBSET D |-> h[t]]
      OBVIOUS
    <3> HIDE DEF h, body
    <3> QED
      BY <2>2, <3>1
  <2>4. LoopUpTo(D, q, hop, h)
    BY ONLY <2>3 DEF LoopUpTo, body, base
  <2> QED
    BY <2>4
<1> HIDE DEF S
<1>3. Nat \subseteq S
  BY <1>1, <1>2, InductionOnSet
<1> QED
  BY <1>3 DEF S

\* The loop, round by round.
LEMMA LoopRounds ==
  ASSUME NEW q, NEW hop, NEW n \in Nat, DOMAIN q = 1 .. n
  PROVE  \E f : /\ f[0] = [q |-> q, i |-> 1]
                /\ \A k \in 1 .. n : f[k] = Round(f[k - 1], hop)
                /\ FilterLoop(q, hop) = f[n].q
<1> DEFINE D == 1 .. n
           base == [q |-> q, i |-> 1]
           g == CHOOSE h : LoopUpTo(D, q, hop, h)
           f == [k \in 0 .. n |-> g[1 .. k]]
<1>1. LoopUpTo(D, q, hop, g)
  BY LoopExists
<1>2. FilterLoop(q, hop) = g[D].q
  BY LoopIsChosen
<1> HIDE DEF g
<1>3. \A t \in SUBSET D : g[t] = IF t = {} THEN base ELSE Round(g[t \ {Max(t)}], hop)
  BY <1>1 DEF LoopUpTo
<1> HIDE DEF base
<1>4. f[0] = base
  <2>1. 1 .. 0 = {} /\ 0 \in 0 .. n
    OBVIOUS
  <2> QED
    BY <1>3, <2>1
<1>5. ASSUME NEW k \in 1 .. n PROVE f[k] = Round(f[k - 1], hop)
  <2>1. /\ k \in 0 .. n /\ k - 1 \in 0 .. n /\ k - 1 \in Nat /\ (k - 1) + 1 = k
        /\ k \in 1 .. k
    OBVIOUS
  <2>2. f[k] = g[1 .. k] /\ f[k - 1] = g[1 .. k - 1]
    BY <2>1
  <2>3. Max(1 .. k) = k
    <3>1. 1 .. k \in SUBSET (1 .. (k - 1) + 1) /\ (k - 1) + 1 \in 1 .. k
      OBVIOUS
    <3>2. Max(1 .. k) = (k - 1) + 1
      BY <2>1, <3>1, MaxIsTop
    <3> QED
      BY <2>1, <3>2
  <2>4. (1 .. k) \ {k} = 1 .. k - 1
    <3>1. \A x \in Int : x <= k /\ x # k <=> x <= k - 1
      BY <2>1
    <3> QED
      BY <3>1
  <2>5. 1 .. k \in SUBSET D /\ 1 .. k # {}
    BY <2>1
  <2>6. g[1 .. k] = Round(g[(1 .. k) \ {Max(1 .. k)}], hop)
    BY <1>3, <2>5
  <2> HIDE DEF f
  <2> QED
    BY <2>2, <2>3, <2>4, <2>6
<1>6. f[n] = g[D]
  OBVIOUS
<1> HIDE DEF f
<1> QED
  BY <1>2, <1>4, <1>5, <1>6 DEF base

\* After k rounds: the first i - 1 packets of r are those among the first k of q
\* that stay, and the rest of r is the rest of q.
Swept(r, i, h, q, hop, k) ==
  /\ r \in Seq(Packet) /\ i \in Nat /\ i >= 1
  /\ Len(r) = Len(q) - k + (i - 1)
  /\ h \in [1 .. i - 1 -> 1 .. k]
  /\ \A x, y \in 1 .. i - 1 : x < y => h[x] < h[y]
  /\ \A j \in 1 .. i - 1 : r[j] = q[h[j]] /\ q[h[j]].hop # hop
  /\ \A m \in 1 .. k : q[m].hop # hop => \E j \in 1 .. i - 1 : h[j] = m
  /\ \A j \in 1 .. Len(q) - k : r[i - 1 + j] = q[k + j]

\* A round looks at the next packet.
LEMMA RoundSweeps ==
  ASSUME NEW q \in Seq(Packet), NEW hop, NEW k \in 0 .. Len(q) - 1,
         NEW r, NEW i, NEW h, Swept(r, i, h, q, hop, k)
  PROVE  \E s, j, g : /\ Round([q |-> r, i |-> i], hop) = [q |-> s, i |-> j]
                      /\ Swept(s, j, g, q, hop, k + 1)
<1> DEFINE L == Len(q)
<1>1. /\ L \in Nat /\ k \in Nat /\ k < L
      /\ r \in Seq(Packet) /\ i \in Nat /\ i >= 1 /\ Len(r) = L - k + (i - 1)
      /\ h \in [1 .. i - 1 -> 1 .. k]
      /\ \A x, y \in 1 .. i - 1 : x < y => h[x] < h[y]
      /\ \A j \in 1 .. i - 1 : r[j] = q[h[j]] /\ q[h[j]].hop # hop
      /\ \A m \in 1 .. k : q[m].hop # hop => \E j \in 1 .. i - 1 : h[j] = m
      /\ \A j \in 1 .. L - k : r[i - 1 + j] = q[k + j]
  BY DEF Swept
<1> HIDE DEF L
<1>2. i \in 1 .. Len(r) /\ ~(i > Len(r)) /\ Len(r) \in Nat
  BY <1>1
<1>3. r[i] = q[k + 1]
  <2>1. 1 \in 1 .. L - k /\ i - 1 + 1 = i
    BY <1>1
  <2> QED
    BY <1>1, <2>1
<1>4. \A m \in 1 .. k + 1 : m \in 1 .. k \/ m = k + 1
  BY <1>1
<1>5. \A j \in 1 .. i - 1 : h[j] \in 1 .. k /\ h[j] \in 1 .. k + 1 /\ h[j] < k + 1
  BY <1>1
<1>6. CASE q[k + 1].hop = hop
  <2> DEFINE s == RemoveAt(r, i)
  <2>1. Round([q |-> r, i |-> i], hop) = [q |-> s, i |-> i]
    BY <1>2, <1>3, <1>6 DEF Round
  <2>2. OmitsOne(s, r, i)
    BY <1>1, <1>2, RemovalOmitsOne
  <2> HIDE DEF s
  <2>3. /\ s \in Seq(Packet) /\ Len(s) = L - (k + 1) + (i - 1)
        /\ \A j \in 1 .. Len(r) - 1 : s[j] = IF j < i THEN r[j] ELSE r[j + 1]
    BY <1>1, <1>2, <2>2 DEF OmitsOne
  <2>4. \A j \in 1 .. i - 1 : s[j] = r[j]
    <3> SUFFICES ASSUME NEW j \in 1 .. i - 1 PROVE s[j] = r[j]
      OBVIOUS
    <3>1. j \in 1 .. Len(r) - 1 /\ j < i
      BY <1>1, <1>2
    <3> QED
      BY <2>3, <3>1
  <2>5. ASSUME NEW j \in 1 .. L - (k + 1) PROVE s[i - 1 + j] = q[(k + 1) + j]
    <3>1. /\ i - 1 + j \in 1 .. Len(r) - 1 /\ ~(i - 1 + j < i)
          /\ (i - 1 + j) + 1 = i - 1 + (j + 1) /\ k + (j + 1) = (k + 1) + j
          /\ j + 1 \in 1 .. L - k
      BY <1>1
    <3>2. s[i - 1 + j] = r[i - 1 + (j + 1)]
      BY <2>3, <3>1
    <3>3. r[i - 1 + (j + 1)] = q[k + (j + 1)]
      BY <1>1, <3>1
    <3> QED
      BY <3>1, <3>2, <3>3
  <2>6. h \in [1 .. i - 1 -> 1 .. k + 1]
    BY <1>1, <1>5
  <2>7. \A m \in 1 .. k + 1 : q[m].hop # hop => \E j \in 1 .. i - 1 : h[j] = m
    BY <1>1, <1>4, <1>6
  <2>8. Swept(s, i, h, q, hop, k + 1)
    BY <1>1, <2>3, <2>4, <2>5, <2>6, <2>7 DEF Swept, L
  <2> QED
    BY <2>1, <2>8
<1>7. CASE q[k + 1].hop # hop
  <2> DEFINE g == [j \in 1 .. i |-> IF j = i THEN k + 1 ELSE h[j]]
  <2>1. Round([q |-> r, i |-> i], hop) = [q |-> r, i |-> i + 1]
    BY <1>2, <1>3, <1>7 DEF Round
  <2>2. \A j \in 1 .. i : j = i \/ (j # i /\ j \in 1 .. i - 1)
    BY <1>1
  <2>3. i \in 1 .. i /\ \A j \in 1 .. i - 1 : j \in 1 .. i /\ j # i
    BY <1>1
  <2>4. g[i] = k + 1 /\ \A j \in 1 .. i - 1 : g[j] = h[j]
    BY <2>3
  <2>5. g \in [1 .. i -> 1 .. k + 1]
    BY <1>1, <1>5, <2>2
  <2> HIDE DEF g
  <2>6. ASSUME NEW x \in 1 .. i, NEW y \in 1 .. i, x < y PROVE g[x] < g[y]
    <3>1. x \in 1 .. i - 1
      BY <1>1, <2>6
    <3>2. CASE y = i
      BY <1>5, <2>4, <3>1, <3>2
    <3>3. CASE y \in 1 .. i - 1
      BY <1>1, <2>4, <2>6, <3>1, <3>3
    <3> QED
      BY <2>2, <3>2, <3>3
  <2>7. ASSUME NEW j \in 1 .. i PROVE r[j] = q[g[j]] /\ q[g[j]].hop # hop
    BY <1>1, <1>3, <1>7, <2>2, <2>4
  <2>8. ASSUME NEW m \in 1 .. k + 1, q[m].hop # hop PROVE \E j \in 1 .. i : g[j] = m
    <3>1. CASE m = k + 1
      BY <2>3, <2>4, <3>1
    <3>2. CASE m \in 1 .. k
      BY <1>1, <2>3, <2>4, <2>8, <3>2
    <3> QED
      BY <1>4, <3>1, <3>2
  <2>9. ASSUME NEW j \in 1 .. L - (k + 1) PROVE r[i + j] = q[(k + 1) + j]
    <3>1. /\ i - 1 + (j + 1) = i + j /\ k + (j + 1) = (k + 1) + j
          /\ j + 1 \in 1 .. L - k
      BY <1>1
    <3>2. r[i - 1 + (j + 1)] = q[k + (j + 1)]
      BY <1>1, <3>1
    <3> QED
      BY <3>1, <3>2
  <2>10. /\ (i + 1) - 1 = i /\ i + 1 \in Nat /\ i + 1 >= 1
         /\ Len(r) = L - (k + 1) + i
    <3>1. i \in Nat /\ i >= 1 /\ k \in Nat /\ L \in Nat /\ Len(r) = L - k + (i - 1)
      BY <1>1
    <3> QED
      BY <3>1
  <2>11. Swept(r, i + 1, g, q, hop, k + 1)
    BY <1>1, <2>5, <2>6, <2>7, <2>8, <2>9, <2>10 DEF Swept, L
  <2> QED
    BY <2>1, <2>11
<1> QED
  BY <1>6, <1>7

\* The loop of filter finds every packet for a hop and leaves the others.
LEMMA LoopLeavesOthers ==
  ASSUME NEW q \in Seq(Packet), NEW hop
  PROVE  FilterLoop(q, hop) \in Remainders(q, hop)
<1> DEFINE n == Len(q)
<1>1. n \in Nat /\ DOMAIN q = 1 .. n
  OBVIOUS
<1>2. PICK f : /\ f[0] = [q |-> q, i |-> 1]
               /\ \A k \in 1 .. n : f[k] = Round(f[k - 1], hop)
               /\ FilterLoop(q, hop) = f[n].q
  BY <1>1, LoopRounds
<1> DEFINE P(k) == \E r, i, h : f[k] = [q |-> r, i |-> i] /\ Swept(r, i, h, q, hop, k)
           S == {k \in 0 .. n : P(k)}
<1>3. 0 \in S
  <2> DEFINE h == [j \in 1 .. 1 - 1 |-> j]
  <2>1. 1 .. 1 - 1 = {} /\ 1 .. 0 = {}
    OBVIOUS
  <2>2. h \in [1 .. 1 - 1 -> 1 .. 0]
    BY <2>1
  <2> HIDE DEF h
  <2>3. \A j \in 1 .. n - 0 : 1 - 1 + j = 0 + j
    OBVIOUS
  <2>4. n = n - 0 + (1 - 1) /\ 1 >= 1 /\ 1 \in Nat
    BY <1>1
  <2>5. \A j \in 1 .. n - 0 : q[1 - 1 + j] = q[0 + j]
    BY <2>3
  <2>6. Swept(q, 1, h, q, hop, 0)
    BY <2>1, <2>2, <2>4, <2>5 DEF Swept
  <2> QED
    BY <1>1, <1>2, <2>6
<1>4. ASSUME NEW k \in 0 .. n, k < n /\ k \in S PROVE k + 1 \in S
  <2>1. PICK r, i, h : f[k] = [q |-> r, i |-> i] /\ Swept(r, i, h, q, hop, k)
    BY <1>4
  <2>2. k + 1 \in 1 .. n /\ k + 1 \in 0 .. n /\ (k + 1) - 1 = k /\ k \in 0 .. n - 1
    BY <1>1, <1>4
  <2>3. PICK s, j, g : /\ Round([q |-> r, i |-> i], hop) = [q |-> s, i |-> j]
                       /\ Swept(s, j, g, q, hop, k + 1)
    BY <2>1, <2>2, RoundSweeps
  <2>4. f[k + 1] = [q |-> s, i |-> j]
    BY <1>2, <2>1, <2>2, <2>3
  <2> QED
    BY <2>2, <2>3, <2>4
<1> HIDE DEF S
<1>5. n \in S
  <2>1. 0 .. n \subseteq S
    BY <1>1, <1>3, <1>4, InductionUpTo
  <2> QED
    BY <1>1, <2>1
<1>6. PICK r, i, h : f[n] = [q |-> r, i |-> i] /\ Swept(r, i, h, q, hop, n)
  BY <1>5 DEF S
<1> DEFINE m == i - 1
           left == {x \in DOMAIN q : q[x].hop # hop}
<1>7. /\ r \in Seq(Packet) /\ m \in Nat /\ Len(r) = m
      /\ h \in [1 .. m -> 1 .. n]
      /\ \A x, y \in 1 .. m : x < y => h[x] < h[y]
      /\ \A j \in 1 .. m : r[j] = q[h[j]] /\ q[h[j]].hop # hop
      /\ \A x \in 1 .. n : q[x].hop # hop => \E j \in 1 .. m : h[j] = x
  <2>1. /\ r \in Seq(Packet) /\ i \in Nat /\ i >= 1 /\ Len(r) = n - n + (i - 1)
        /\ h \in [1 .. m -> 1 .. n]
        /\ \A x, y \in 1 .. m : x < y => h[x] < h[y]
        /\ \A j \in 1 .. m : r[j] = q[h[j]] /\ q[h[j]].hop # hop
        /\ \A x \in 1 .. n : q[x].hop # hop => \E j \in 1 .. m : h[j] = x
    BY <1>6 DEF Swept
  <2>2. n - n + (i - 1) = m /\ m \in Nat
    BY <1>1, <2>1
  <2> QED
    BY <2>1, <2>2, Zenon
<1>8. \A x : x \in left <=> x \in 1 .. n /\ q[x].hop # hop
  OBVIOUS
<1> HIDE DEF left, m, n
<1>9. h \in [1 .. m -> left]
  BY <1>7, <1>8
<1>10. Cardinality(left) = m
  <2>1. IsFiniteSet(1 .. m) /\ Cardinality(1 .. m) = m
    <3>1. IsFiniteSet(1 .. m) /\ Cardinality(1 .. m) = IF 1 > m THEN 0 ELSE m - 1 + 1
      BY <1>7, FS_Interval
    <3> QED
      BY <1>7, <3>1
  <2>2. ASSUME NEW x \in 1 .. m, NEW y \in 1 .. m, h[x] = h[y] PROVE x = y
    <3>1. h[x] \in Int /\ h[y] \in Int
      BY <1>7
    <3>2. ~(h[x] < h[y]) /\ ~(h[y] < h[x])
      BY <2>2, <3>1
    <3>3. ~(x < y) /\ ~(y < x)
      BY <1>7, <3>2
    <3> QED
      BY <1>7, <3>3
  <2>3. h \in Bijection(1 .. m, left)
    <3>1. h \in Injection(1 .. m, left)
      BY <1>9, <2>2 DEF Injection, IsInjective
    <3>2. h \in Surjection(1 .. m, left)
      BY <1>7, <1>8, <1>9 DEF Surjection
    <3> QED
      BY <3>1, <3>2 DEF Bijection
  <2>4. ExistsBijection(1 .. m, left)
    BY <2>3 DEF ExistsBijection
  <2> QED
    BY <2>1, <2>4, FS_Bijection
<1>11. DOMAIN h = 1 .. m
  BY <1>7
<1>12. h \in Enumerations(left)
  BY <1>7, <1>9, <1>10, <1>11 DEF Enumerations
<1>13. r = [j \in DOMAIN h |-> q[h[j]]]
  BY <1>7, <1>11
<1>14. r \in Remainders(q, hop)
  BY <1>12, <1>13 DEF Remainders, left
<1>15. FilterLoop(q, hop) = r
  BY <1>2, <1>6 DEF n
<1> QED
  BY <1>14, <1>15

\* The loop of filter, which removes packets from the list it walks over, finds
\* every packet for the hop, in every reachable queue.
THEOREM FilterLoopFindsAll == QueueSpec => []FilterLoopRemovesAll
<1>1. QInv => FilterLoopRemovesAll
  BY LoopLeavesOthers DEF QInv, QueueTypeOK, FilterLoopRemovesAll
<1> QED
  BY <1>1, QueueInvariance, PTL
=============================================================================
