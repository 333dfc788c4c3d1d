--------------------------- MODULE AntWalkProofs ---------------------------
(***************************************************************************)
(* Theorems about the way of an ant: what its memory, its trip times and   *)
(* its time-to-live have to do with the nodes it has visited, which links  *)
(* gain pheromone for it, and that the agents implement AntTrip.           *)
(***************************************************************************)
EXTENDS AntNetProofs, AntNetRefinement, FiniteSetTheorems

----------------------------------------------------------------------------
(* Walks and memories. *)

\* Visit k of walk w is the last one to node n.
LastVisit(w, n, k) ==
  w[k].node = n /\ \A j \in k + 1 .. Len(w) : w[j].node # n

(***************************************************************************)
(* Memory m is walk w with its loops removed: f[i] is the visit at which   *)
(* the ant left m[i] for good.                                             *)
(***************************************************************************)
Erasure(m, w, start, f) ==
  /\ f \in [1 .. Len(m) -> 1 .. Len(w)]
  /\ f[Len(m)] = Len(w)
  /\ \A i, j \in 1 .. Len(m) : i < j => f[i] < f[j]
  /\ \A i \in 1 .. Len(m) : LastVisit(w, m[i].node, f[i])
  /\ \A i \in 1 .. Len(m) - 1 :
       /\ m[i + 1].node = w[f[i] + 1].node
       /\ m[i + 1].trip - m[i].trip = w[f[i] + 1].time - w[f[i]].time
  /\ m[1].node = w[1].node
  /\ m[Len(m)].trip = w[Len(w)].time - start

(***************************************************************************)
(* A forward ant has spent one unit of its time-to-live per visit, a       *)
(* backward ant on its way to mem[i] one more per entry it has come back.  *)
(***************************************************************************)
LifeLeft(p) ==
  /\ p.dir = "DOWN" => p.ttl = 2 * NumNodes - Len(p.walk) + 1
  /\ p.dir = "UP" =>
       \A i \in 1 .. Len(p.mem) :
         p.daddr = p.mem[i].node =>
           p.ttl = 2 * NumNodes - Len(p.walk) - Len(p.mem) + 2 + i

\* The ant never turned on the spot, and does not do so with this hop.
Onward(p) ==
  /\ p.saddr # p.daddr
  /\ \A j \in 1 .. Len(p.walk) - 2 : p.walk[j].node # p.walk[j + 2].node
  /\ p.dir = "DOWN" /\ Len(p.walk) >= 2 =>
       p.daddr # p.walk[Len(p.walk) - 1].node

WayOK(p) ==
  /\ \E f : Erasure(p.mem, p.walk, p.start, f)
  /\ LifeLeft(p)
  /\ Onward(p)

\* IInv does not relate an ant to its walk, or ants to each other.
WInv ==
  /\ IInv
  /\ \A p \in net : WayOK(p) /\ p.id \in 1 .. launched
  /\ \A p, q \in net : p.id = q.id => p = q

----------------------------------------------------------------------------
(* memorize keeps the memory the walk without its loops. *)

\* The last visit is the one LastVisitTo chooses.
LEMMA LastVisitUnique ==
  ASSUME NEW w \in Seq(Visit), NEW n, NEW k \in 1 .. Len(w), LastVisit(w, n, k)
  PROVE  LastVisitTo(w, n) = k
<1>1. DOMAIN w = 1 .. Len(w) /\ Len(w) \in Nat
  BY SeqElim
<1>2. /\ k \in DOMAIN w /\ w[k].node = n
      /\ \A j \in k + 1 .. Len(w) : w[j].node # n
  BY <1>1 DEF LastVisit
<1>3. ASSUME NEW x \in DOMAIN w, w[x].node = n,
             \A j \in x + 1 .. Len(w) : w[j].node # n
      PROVE  x = k
  <2>1. ~(x < k) /\ ~(k < x)
    BY <1>1, <1>2, <1>3
  <2> QED
    BY <1>1, <2>1
<1> QED
  BY <1>2, <1>3 DEF LastVisitTo

\* One more visit: the earlier ones stay, and the last visit to any other
\* node is the one it was.
LEMMA OneMoreVisit ==
  ASSUME NEW w \in Seq(Visit), NEW n \in Node, NEW now \in Nat
  PROVE  LET new == Append(w, [node |-> n, time |-> now])
         IN  /\ new \in Seq(Visit) /\ Len(new) = Len(w) + 1
             /\ \A k \in 1 .. Len(w) : new[k] = w[k]
             /\ new[Len(w) + 1].node = n /\ new[Len(w) + 1].time = now
             /\ LastVisit(new, n, Len(w) + 1)
             /\ \A k \in 1 .. Len(w) : \A m :
                  m # n /\ LastVisit(w, m, k) => LastVisit(new, m, k)
<1> DEFINE v == [node |-> n, time |-> now]
           new == Append(w, v)
           K == Len(w)
<1>1. v \in Visit /\ v.node = n /\ v.time = now
  BY DEF Visit
<1> HIDE DEF v
<1>2. /\ new \in Seq(Visit) /\ Len(new) = K + 1 /\ K \in Nat
      /\ \A k \in 1 .. K : new[k] = w[k]
      /\ new[K + 1] = v
  BY <1>1, AppendElim, SeqElim
<1> HIDE DEF new
<1>3. LastVisit(new, n, K + 1)
  BY <1>1, <1>2 DEF LastVisit
<1>4. ASSUME NEW k \in 1 .. K, NEW m, m # n, LastVisit(w, m, k)
      PROVE  LastVisit(new, m, k)
  <2>1. \A j \in k + 1 .. K + 1 : j = K + 1 \/ j \in k + 1 .. K
    BY <1>2
  <2>2. \A j \in k + 1 .. K : j \in 1 .. K
    BY <1>2
  <2> QED
    BY <2>1, <2>2, <1>1, <1>2, <1>4 DEF LastVisit
<1> QED
  BY <1>1, <1>2, <1>3, <1>4 DEF new, v

\* A visit to a new node.
LEMMA NewNodeErasure ==
  ASSUME NEW m \in Seq(MemEntry), Len(m) \in Nat \ {0},
         NEW w \in Seq(Visit), NEW start \in Nat, NEW f, Erasure(m, w, start, f),
         NEW n \in Node, NEW now \in Nat, \A i \in 1 .. Len(m) : m[i].node # n
  PROVE  \E g : Erasure(Append(m, [node |-> n, trip |-> now - start]),
                        Append(w, [node |-> n, time |-> now]), start, g)
<1> DEFINE L == Len(m)
           K == Len(w)
           e == [node |-> n, trip |-> now - start]
           new == Append(m, e)
           far == Append(w, [node |-> n, time |-> now])
           g == [i \in 1 .. L + 1 |-> IF i = L + 1 THEN K + 1 ELSE f[i]]
<1>1. L \in Nat \ {0} /\ K \in Nat
  BY SeqElim
<1>2. e \in MemEntry /\ e.node = n /\ e.trip = now - start
  BY MemEntryType
<1> HIDE DEF e
<1>3. /\ Len(new) = L + 1 /\ new[L + 1] = e
      /\ \A k \in 1 .. L : new[k] = m[k]
  BY <1>2, AppendElim
<1> HIDE DEF new
<1>4. /\ Len(far) = K + 1
      /\ \A k \in 1 .. K : far[k] = w[k]
      /\ far[K + 1].node = n /\ far[K + 1].time = now
      /\ LastVisit(far, n, K + 1)
      /\ \A k \in 1 .. K : \A x : x # n /\ LastVisit(w, x, k) => LastVisit(far, x, k)
  BY OneMoreVisit
<1> HIDE DEF far
<1>5. /\ \A i \in 1 .. L : f[i] \in 1 .. K
      /\ f[L] = K
      /\ \A i, j \in 1 .. L : i < j => f[i] < f[j]
      /\ \A i \in 1 .. L : LastVisit(w, m[i].node, f[i])
      /\ \A i \in 1 .. L - 1 :
           /\ m[i + 1].node = w[f[i] + 1].node
           /\ m[i + 1].trip - m[i].trip = w[f[i] + 1].time - w[f[i]].time
      /\ m[1].node = w[1].node
      /\ m[L].trip = w[K].time - start
  BY DEF Erasure
<1>6. 1 \in 1 .. L /\ L \in 1 .. L /\ K \in 1 .. K /\ 1 \in 1 .. K
  BY <1>1, <1>5
<1>7. \A i \in 1 .. L + 1 : i = L + 1 \/ (i \in 1 .. L /\ i # L + 1)
  BY <1>1
<1>8. g[L + 1] = K + 1 /\ \A i \in 1 .. L : g[i] = f[i]
  BY <1>1, <1>7
<1>9. g \in [1 .. L + 1 -> 1 .. K + 1]
  <2>1. \A i \in 1 .. L : f[i] \in 1 .. K + 1
    BY <1>1, <1>5
  <2>2. K + 1 \in 1 .. K + 1
    BY <1>1
  <2> QED
    BY <2>1, <2>2, <1>7
<1> HIDE DEF g, L, K
<1>10. \A i, j \in 1 .. L + 1 : i < j => g[i] < g[j]
  <2> SUFFICES ASSUME NEW i \in 1 .. L + 1, NEW j \in 1 .. L + 1, i < j
               PROVE  g[i] < g[j]
    OBVIOUS
  <2>1. i \in 1 .. L
    BY <1>1
  <2>2. CASE j = L + 1
    <3>1. f[i] < K + 1
      BY <1>1, <1>5, <2>1
    <3> QED
      BY <1>8, <2>1, <2>2, <3>1
  <2>3. CASE j \in 1 .. L
    BY <1>5, <1>8, <2>1, <2>3
  <2> QED
    BY <1>7, <2>2, <2>3
<1>11. ASSUME NEW i \in 1 .. L + 1 PROVE LastVisit(far, new[i].node, g[i])
  <2>1. CASE i = L + 1
    BY <1>2, <1>3, <1>4, <1>8, <2>1
  <2>2. CASE i \in 1 .. L
    <3>1. new[i] = m[i] /\ g[i] = f[i] /\ f[i] \in 1 .. K
      BY <1>3, <1>5, <1>8, <2>2
    <3>2. LastVisit(w, m[i].node, f[i]) /\ m[i].node # n
      BY <1>5, <2>2 DEF L
    <3> QED
      BY <1>4, <3>1, <3>2
  <2> QED
    BY <1>7, <2>1, <2>2
<1>12. ASSUME NEW i \in 1 .. L
       PROVE  /\ new[i + 1].node = far[g[i] + 1].node
              /\ new[i + 1].trip - new[i].trip = far[g[i] + 1].time - far[g[i]].time
  <2>1. CASE i = L
    <3>1. g[i] = K /\ new[i + 1] = e /\ new[i] = m[L] /\ far[K] = w[K]
      BY <1>3, <1>4, <1>5, <1>6, <1>8, <2>1
    <3>2. w[K].time \in Nat
      <4>1. w[K] \in Visit
        BY <1>6, SeqElim DEF K
      <4> QED
        BY <4>1 DEF Visit
    <3> QED
      BY <3>1, <3>2, <1>2, <1>4, <1>5
  <2>2. CASE i # L
    <3>1. i \in 1 .. L - 1 /\ i + 1 \in 1 .. L
      BY <1>1, <2>2
    <3>2. f[i] \in 1 .. K /\ f[i] + 1 \in 1 .. K
      <4>1. i < L
        BY <1>1, <3>1
      <4>2. f[i] \in 1 .. K /\ f[i] < f[L]
        BY <1>5, <1>6, <4>1
      <4> QED
        BY <1>1, <1>5, <4>2
    <3>3. /\ new[i + 1] = m[i + 1] /\ new[i] = m[i] /\ g[i] = f[i]
          /\ far[f[i] + 1] = w[f[i] + 1] /\ far[f[i]] = w[f[i]]
      BY <1>3, <1>4, <1>8, <3>1, <3>2
    <3>4. /\ m[i + 1].node = w[f[i] + 1].node
          /\ m[i + 1].trip - m[i].trip = w[f[i] + 1].time - w[f[i]].time
      BY ONLY <1>5, <3>1
    <3> QED
      BY ONLY <3>3, <3>4
  <2> QED
    BY <2>1, <2>2
<1>13. new[1].node = far[1].node
  BY <1>3, <1>4, <1>5, <1>6
<1>14. (L + 1) - 1 = L
  BY <1>1
<1>15. Erasure(new, far, start, g)
  BY <1>2, <1>3, <1>4, <1>8, <1>9, <1>10, <1>11, <1>12, <1>13, <1>14 DEF Erasure
<1> QED
  BY <1>15 DEF new, far, e

\* A visit to the node of entry i: the loop is erased, and the trip times
\* before it shifted by the time it took.
LEMMA LoopErasure ==
  ASSUME NEW m \in Seq(MemEntry), Len(m) \in Nat \ {0},
         \A j, k \in 1 .. Len(m) : m[j].node = m[k].node => j = k,
         NEW w \in Seq(Visit), NEW start \in Nat, NEW f, Erasure(m, w, start, f),
         NEW i \in 1 .. Len(m), NEW now \in Nat,
         NEW new, Len(new) = i,
         \A j \in 1 .. i : /\ new[j].node = m[j].node
                           /\ new[j].trip = m[j].trip + (now - start - m[i].trip)
  PROVE  \E g : Erasure(new, Append(w, [node |-> m[i].node, time |-> now]), start, g)
<1> DEFINE L == Len(m)
           K == Len(w)
           n == m[i].node
           t == now - start - m[i].trip
           far == Append(w, [node |-> n, time |-> now])
           g == [j \in 1 .. i |-> IF j = i THEN K + 1 ELSE f[j]]
<1>1. L \in Nat \ {0} /\ K \in Nat /\ i \in Nat \ {0} /\ i <= L
      /\ \A j \in 1 .. L : m[j] \in MemEntry
  BY SeqElim
<1>2. n \in Node /\ t \in Int
  BY <1>1, MemEntryType
<1> HIDE DEF t
<1>3. ASSUME NEW j \in 1 .. i
      PROVE  j \in 1 .. L /\ new[j].node = m[j].node /\ new[j].trip = m[j].trip + t
  BY <1>1 DEF t
<1>4. Len(new) = i
  OBVIOUS
<1> HIDE DEF n
<1>5. /\ Len(far) = K + 1
      /\ \A k \in 1 .. K : far[k] = w[k]
      /\ far[K + 1].node = n /\ far[K + 1].time = now
      /\ LastVisit(far, n, K + 1)
      /\ \A k \in 1 .. K : \A x : x # n /\ LastVisit(w, x, k) => LastVisit(far, x, k)
  BY <1>2, OneMoreVisit
<1> HIDE DEF far
<1>6. /\ \A j \in 1 .. L : f[j] \in 1 .. K
      /\ f[L] = K
      /\ \A j, k \in 1 .. L : j < k => f[j] < f[k]
      /\ \A j \in 1 .. L : LastVisit(w, m[j].node, f[j])
      /\ \A j \in 1 .. L - 1 :
           /\ m[j + 1].node = w[f[j] + 1].node
           /\ m[j + 1].trip - m[j].trip = w[f[j] + 1].time - w[f[j]].time
      /\ m[1].node = w[1].node
  BY DEF Erasure
<1>7. \A j \in 1 .. i : j = i \/ (j \in 1 .. i - 1 /\ j # i)
  BY <1>1
<1>8. g[i] = K + 1 /\ \A j \in 1 .. i - 1 : g[j] = f[j]
  BY <1>1
<1>9. g \in [1 .. i -> 1 .. K + 1]
  <2>1. \A j \in 1 .. i : f[j] \in 1 .. K + 1
    BY <1>1, <1>3, <1>6
  <2>2. K + 1 \in 1 .. K + 1
    BY <1>1
  <2> QED
    BY <2>1, <2>2
<1> HIDE DEF g, L, K
<1>10. \A j, k \in 1 .. i : j < k => g[j] < g[k]
  <2> SUFFICES ASSUME NEW j \in 1 .. i, NEW k \in 1 .. i, j < k
               PROVE  g[j] < g[k]
    OBVIOUS
  <2>1. j \in 1 .. i - 1 /\ j \in 1 .. L /\ k \in 1 .. L
    BY <1>1, <1>3
  <2>2. CASE k = i
    <3>1. f[j] < K + 1
      BY <1>1, <1>6, <2>1
    <3> QED
      BY <1>8, <2>1, <2>2, <3>1
  <2>3. CASE k \in 1 .. i - 1
    BY <1>6, <1>8, <2>1, <2>3
  <2> QED
    BY <1>7, <2>2, <2>3
<1>11. ASSUME NEW j \in 1 .. i
       PROVE  LastVisit(far, new[j].node, g[j])
  <2>1. CASE j = i
    BY <2>1, <1>3, <1>5, <1>8 DEF n
  <2>2. CASE j \in 1 .. i - 1
    <3>1. j \in 1 .. L /\ j # i /\ f[j] \in 1 .. K
      BY <1>1, <1>3, <1>6, <2>2
    <3>2. m[j].node # n
      BY <3>1 DEF n, L
    <3> QED
      BY <3>1, <3>2, <2>2, <1>3, <1>5, <1>6, <1>8
  <2> QED
    BY <1>7, <2>1, <2>2
<1>12. ASSUME NEW j \in 1 .. i - 1
       PROVE  /\ new[j + 1].node = far[g[j] + 1].node
              /\ new[j + 1].trip - new[j].trip = far[g[j] + 1].time - far[g[j]].time
  <2>1. j \in 1 .. i /\ j + 1 \in 1 .. i /\ j \in 1 .. L - 1 /\ j + 1 \in 1 .. L
        /\ j < j + 1
    BY <1>1
  <2>2. f[j] \in 1 .. K /\ f[j + 1] \in 1 .. K /\ f[j] < f[j + 1]
    <3>1. j \in 1 .. L /\ j + 1 \in 1 .. L
      BY <1>3, <2>1
    <3> QED
      BY ONLY <1>6, <2>1, <3>1
  <2>3. f[j] + 1 \in 1 .. K
    BY ONLY <1>1, <2>2
  <2>4. /\ far[g[j] + 1] = w[f[j] + 1] /\ far[g[j]] = w[f[j]]
        /\ m[j + 1].node = w[f[j] + 1].node
        /\ m[j + 1].trip - m[j].trip = w[f[j] + 1].time - w[f[j]].time
    <3>1. g[j] = f[j]
      BY <1>8
    <3>2. far[f[j] + 1] = w[f[j] + 1] /\ far[f[j]] = w[f[j]]
      BY <1>5, <2>2, <2>3
    <3> QED
      BY <1>6, <2>1, <3>1, <3>2
  <2>5. /\ new[j + 1].node = m[j + 1].node /\ new[j + 1].trip = m[j + 1].trip + t
        /\ new[j].trip = m[j].trip + t
    BY <1>3, <2>1
  <2>6. m[j + 1].trip \in Int /\ m[j].trip \in Int
    BY <1>1, <1>3, <2>1, MemEntryType
  <2> QED
    BY <1>2, <2>4, <2>5, <2>6
<1>13. new[1].node = far[1].node
  <2>1. 1 \in 1 .. i /\ 1 \in 1 .. K
    BY <1>1, <1>6
  <2> QED
    BY <1>3, <1>5, <1>6, <2>1
<1>14. new[i].trip = now - start
  <2>1. i \in 1 .. i /\ m[i].trip \in Int
    BY <1>1, <1>3, MemEntryType
  <2> QED
    BY <1>3, <2>1 DEF t
<1>15. Erasure(new, far, start, g)
  BY <1>4, <1>5, <1>8, <1>9, <1>10, <1>11, <1>12, <1>13, <1>14 DEF Erasure
<1> QED
  BY <1>15 DEF far, n

\* memorize at a neighbour: both cases.
LEMMA MemorizeErases ==
  ASSUME NEW lists, NEW m, GoodMemory(m, lists), NEW w \in Seq(Visit),
         NEW start \in Nat, NEW f, Erasure(m, w, start, f),
         NEW n \in Node, NEW now \in Nat
  PROVE  \E g : Erasure(Memorize(m, n, now - start),
                        Append(w, [node |-> n, time |-> now]), start, g)
<1>1. /\ m \in Seq(MemEntry) /\ Len(m) \in Nat \ {0} /\ DOMAIN m = 1 .. Len(m)
      /\ \A j, k \in 1 .. Len(m) : m[j].node = m[k].node => j = k
  BY SeqElim, MaxNumNodesAssumption DEF GoodMemory
<1>2. CASE IndicesOf(m, n) = {}
  <2>1. \A i \in 1 .. Len(m) : m[i].node # n
    BY <1>1, <1>2 DEF IndicesOf
  <2>2. Memorize(m, n, now - start) = Append(m, [node |-> n, trip |-> now - start])
    BY <1>2 DEF Memorize
  <2>3. \E g : Erasure(Append(m, [node |-> n, trip |-> now - start]),
                      Append(w, [node |-> n, time |-> now]), start, g)
    BY <1>1, <2>1, NewNodeErasure
  <2> QED
    BY <2>2, <2>3
<1>3. CASE IndicesOf(m, n) # {}
  <2>1. PICK i \in 1 .. Len(m) : m[i].node = n
    BY <1>1, <1>3 DEF IndicesOf
  <2>2. FirstIndexOf(m, n) = i
    BY <2>1, ScansAgree
  <2> DEFINE t == (now - start) - m[i].trip
             new == [j \in 1 .. i |-> [m[j] EXCEPT !.trip = @ + t]]
  <2>3. Memorize(m, n, now - start) = new
    BY <1>3, <2>2 DEF Memorize, EraseLoop
  <2>4. Len(new) = i
    BY <1>1
  <2>5. ASSUME NEW j \in 1 .. i
        PROVE  new[j].node = m[j].node /\ new[j].trip = m[j].trip + t
    <3>1. m[j] \in MemEntry
      BY <1>1, SeqElim
    <3> HIDE DEF t
    <3>2. new[j] = [m[j] EXCEPT !.trip = m[j].trip + t]
      OBVIOUS
    <3> HIDE DEF new
    <3> QED
      BY <3>1, <3>2, MemEntryType
  <2> HIDE DEF new
  <2>6. \E g : Erasure(new, Append(w, [node |-> m[i].node, time |-> now]), start, g)
    BY <1>1, <2>4, <2>5, LoopErasure
  <2> QED
    BY <2>1, <2>3, <2>6
<1> QED
  BY <1>2, <1>3

----------------------------------------------------------------------------
(* The handlers keep the way of every ant. *)

\* An ant whose memory is its walk without loops has visited its last entry
\* last.
LEMMA EndOfWalk ==
  ASSUME NEW p, p \in Ant, NEW lists, GoodMemory(p.mem, lists),
         NEW f, Erasure(p.mem, p.walk, p.start, f)
  PROVE  /\ Len(p.walk) \in Nat \ {0} /\ Len(p.mem) \in Nat \ {0}
         /\ p.walk[Len(p.walk)].node = p.mem[Len(p.mem)].node
<1>1. Len(p.mem) \in 1 .. Len(p.mem) /\ Len(p.mem) \in Nat \ {0}
  BY SeqElim, MaxNumNodesAssumption DEF GoodMemory
<1>2. f[Len(p.mem)] \in 1 .. Len(p.walk) /\ Len(p.walk) \in Nat
  <2>1. p.walk \in Seq(Visit)
    BY AntType
  <2> QED
    BY <1>1, <2>1, SeqElim DEF Erasure
<1>3. LastVisit(p.walk, p.mem[Len(p.mem)].node, Len(p.walk))
  BY <1>1 DEF Erasure
<1> QED
  BY <1>1, <1>2, <1>3 DEF LastVisit

\* The part of a handler that memorizes.
LEMMA MemorizedWay ==
  ASSUME NEW lists, NEW p, AntOK(p, lists), WayOK(p), clock \in Nat,
         p.dir = "DOWN", GoodMemory(Memorize(p.mem, p.daddr, clock - p.start), lists)
  PROVE  LET r == Memorized(p)
             K == Len(r.walk)
         IN  /\ \E f : Erasure(r.mem, r.walk, r.start, f)
             /\ K \in Nat /\ K >= 2
             /\ r.ttl = 2 * NumNodes - K + 2
             /\ \A j \in 1 .. K - 2 : r.walk[j].node # r.walk[j + 2].node
             /\ r.walk[K - 1].node = p.saddr
<1> DEFINE r == Memorized(p)
           w == p.walk
           K == Len(w)
<1>1. /\ p \in Ant /\ GoodMemory(p.mem, lists) /\ w \in Seq(Visit)
      /\ p.start \in Nat /\ p.daddr \in Node /\ p.saddr = p.mem[Len(p.mem)].node
      /\ p.ttl \in Int /\ p.daddr \in Node
  BY AntType DEF AntOK
<1>2. PICK f : Erasure(p.mem, w, p.start, f)
  BY DEF WayOK
<1>3. K \in Nat \ {0} /\ w[K].node = p.saddr
  BY <1>1, <1>2, EndOfWalk
<1>4. /\ r.mem = Memorize(p.mem, p.daddr, clock - p.start)
      /\ r.walk = Append(w, [node |-> p.daddr, time |-> clock])
      /\ r.ttl = p.ttl /\ r.start = p.start
  <2>1. Memorize(p.mem, p.daddr, clock - p.start) \in Seq(MemEntry)
    BY DEF GoodMemory
  <2> QED
    BY <1>1, <2>1, MemorizedProperties
<1> HIDE DEF r, w
<1>5. \E g : Erasure(r.mem, r.walk, r.start, g)
  BY <1>1, <1>2, <1>4, MemorizeErases
<1>6. /\ Len(r.walk) = K + 1
      /\ \A k \in 1 .. K : r.walk[k] = w[k]
      /\ r.walk[K + 1].node = p.daddr
  BY <1>1, <1>4, OneMoreVisit
<1>7. /\ p.ttl = 2 * NumNodes - K + 1
      /\ \A j \in 1 .. K - 2 : w[j].node # w[j + 2].node
      /\ K >= 2 => p.daddr # w[K - 1].node
  BY DEF WayOK, LifeLeft, Onward, w
<1> HIDE DEF K
<1>8. ASSUME NEW j \in 1 .. K - 1
      PROVE  r.walk[j].node # r.walk[j + 2].node
  <2>1. j \in 1 .. K /\ r.walk[j] = w[j]
    BY <1>3, <1>6
  <2>2. CASE j = K - 1
    <3>1. j + 2 = K + 1 /\ K >= 2
      BY <1>3, <2>2
    <3> QED
      BY <2>1, <2>2, <3>1, <1>6, <1>7
  <2>3. CASE j # K - 1
    <3>1. j \in 1 .. K - 2 /\ j + 2 \in 1 .. K
      BY <1>3, <2>3
    <3> QED
      BY <2>1, <3>1, <1>6, <1>7
  <2> QED
    BY <2>2, <2>3
<1>9. r.walk[K].node = p.saddr
  BY <1>3, <1>6
<1>10. (K + 1) - 2 = K - 1 /\ (K + 1) - 1 = K /\ K + 1 \in Nat /\ K + 1 >= 2
  BY <1>3
<1>11. r.ttl = 2 * NumNodes - (K + 1) + 2
  BY <1>3, <1>4, <1>7, NumNodesAssumption
<1> QED
  BY <1>5, <1>6, <1>8, <1>9, <1>10, <1>11 DEF r

\* A launched ant has made one visit.
LEMMA LaunchedWay ==
  ASSUME clock \in Nat, launched \in Nat, NEW n \in Node, NEW dst, NEW next, next # n
  PROVE  WayOK(NewAnt(n, dst, next)) /\ NewAnt(n, dst, next).id = launched + 1
<1> DEFINE q == NewAnt(n, dst, next)
<1>1. /\ q.id = launched + 1 /\ q.dir = "DOWN" /\ q.saddr = n /\ q.daddr = next
      /\ q.mem = <<[node |-> n, trip |-> 0]>> /\ q.ttl = 2 * NumNodes
      /\ q.start = clock /\ q.walk = <<[node |-> n, time |-> clock]>>
  BY DEF NewAnt
<1> HIDE DEF q
<1>2. /\ Len(q.mem) = 1 /\ q.mem[1].node = n /\ q.mem[1].trip = 0
      /\ Len(q.walk) = 1 /\ q.walk[1].node = n /\ q.walk[1].time = clock
  BY <1>1
<1>3. Erasure(q.mem, q.walk, q.start, [i \in 1 .. 1 |-> 1])
  BY <1>1, <1>2 DEF Erasure, LastVisit
<1>4. LifeLeft(q)
  BY <1>1, <1>2, NumNodesAssumption DEF LifeLeft
<1>5. Onward(q)
  BY <1>1, <1>2 DEF Onward
<1> QED
  BY <1>1, <1>3, <1>4, <1>5 DEF WayOK, q

\* A forward ant that is passed on.
LEMMA ForwardedWay ==
  ASSUME NEW lists, NEW p, AntOK(p, lists), WayOK(p), clock \in Nat,
         p.dir = "DOWN", GoodMemory(Memorize(p.mem, p.daddr, clock - p.start), lists),
         NEW next \in Node, next # p.daddr, next # p.saddr
  PROVE  WayOK(Sent(Memorized(p), next)) /\ Sent(Memorized(p), next).id = p.id
<1> DEFINE r == Memorized(p)
           q == Sent(r, next)
           K == Len(r.walk)
<1>1. /\ \E f : Erasure(r.mem, r.walk, r.start, f)
      /\ K \in Nat /\ K >= 2
      /\ r.ttl = 2 * NumNodes - K + 2
      /\ \A j \in 1 .. K - 2 : r.walk[j].node # r.walk[j + 2].node
      /\ r.walk[K - 1].node = p.saddr
  BY MemorizedWay
<1>2. r \in Ant /\ r.daddr = p.daddr /\ r.dir = "DOWN" /\ r.id = p.id
  <2>1. Memorize(p.mem, p.daddr, clock - p.start) \in Seq(MemEntry) /\ p \in Ant
    BY DEF GoodMemory, AntOK
  <2> QED
    BY <2>1, MemorizedProperties
<1> HIDE DEF r
<1>3. /\ q.saddr = p.daddr /\ q.daddr = next /\ q.dir = "DOWN" /\ q.mem = r.mem
      /\ q.id = p.id /\ q.ttl = r.ttl - 1 /\ q.walk = r.walk /\ q.start = r.start
  BY <1>2, SentProperties
<1> HIDE DEF q
<1>4. LifeLeft(q)
  BY <1>1, <1>3, NumNodesAssumption DEF LifeLeft
<1>5. Onward(q)
  BY <1>1, <1>3 DEF Onward
<1>6. WayOK(q)
  BY <1>1, <1>3, <1>4, <1>5 DEF WayOK
<1> QED
  BY <1>3, <1>6 DEF q, r

\* A forward ant that turns at its destination.
LEMMA TurnedWay ==
  ASSUME NEW lists, NEW p, AntOK(p, lists), WayOK(p), clock \in Nat,
         p.dir = "DOWN", GoodMemory(Memorize(p.mem, p.daddr, clock - p.start), lists),
         Memorize(p.mem, p.daddr, clock - p.start)
           [Len(Memorize(p.mem, p.daddr, clock - p.start))].node = p.daddr,
         Len(Memorize(p.mem, p.daddr, clock - p.start)) >= 2
  PROVE  WayOK(Reversed(Memorized(p))) /\ Reversed(Memorized(p)).id = p.id
<1> DEFINE r == Memorized(p)
           m == Memorize(p.mem, p.daddr, clock - p.start)
           q == Reversed(r)
           K == Len(r.walk)
           L == Len(m)
           next == m[L - 1].node
<1>1. /\ \E f : Erasure(r.mem, r.walk, r.start, f)
      /\ K \in Nat /\ K >= 2
      /\ r.ttl = 2 * NumNodes - K + 2
      /\ \A j \in 1 .. K - 2 : r.walk[j].node # r.walk[j + 2].node
  BY MemorizedWay
<1>2. r \in Ant /\ r.daddr = p.daddr /\ r.id = p.id /\ r.mem = m
  <2>1. m \in Seq(MemEntry) /\ p \in Ant
    BY DEF GoodMemory, AntOK
  <2> QED
    BY <2>1, MemorizedProperties
<1>3. /\ m \in Seq(MemEntry) /\ L \in Nat /\ L >= 2 /\ m[L].node = p.daddr
      /\ \A i, j \in 1 .. L : m[i].node = m[j].node => i = j
  BY SeqElim DEF GoodMemory
<1> HIDE DEF r, m
<1>4. L - 1 \in 1 .. L /\ L \in 1 .. L /\ L - 1 # L
  BY <1>3
<1>5. m[L - 1] \in MemEntry
  BY <1>3, <1>4, SeqElim
<1>6. next \in Node /\ next # p.daddr
  BY <1>3, <1>4, <1>5, MemEntryType
<1>7. /\ q.saddr = p.daddr /\ q.daddr = next /\ q.dir = "UP" /\ q.mem = m
      /\ q.id = p.id /\ q.ttl = r.ttl - 1 /\ q.walk = r.walk /\ q.start = r.start
  BY <1>2, <1>6, ReversedProperties
<1> HIDE DEF q
<1>8. LifeLeft(q)
  <2> SUFFICES ASSUME NEW i \in 1 .. L, next = m[i].node
               PROVE  q.ttl = 2 * NumNodes - K - L + 2 + i
    BY <1>7 DEF LifeLeft
  <2>1. i = L - 1
    BY <1>3, <1>4
  <2> QED
    BY <1>1, <1>3, <1>7, <2>1, NumNodesAssumption
<1>9. Onward(q)
  BY <1>1, <1>6, <1>7 DEF Onward
<1>10. WayOK(q)
  BY <1>1, <1>2, <1>7, <1>8, <1>9 DEF WayOK
<1> QED
  BY <1>7, <1>10 DEF q, r

\* A backward ant that is sent on.
LEMMA RetracingWay ==
  ASSUME NEW lists, NEW p, AntOK(p, lists), WayOK(p), p.dir = "UP",
         NEW i \in 1 .. Len(p.mem) - 1, OnWayBack(p, i), i >= 2,
         NEW q, q = [Sent(p, p.mem[i - 1].node) EXCEPT !.laid = Append(@, p.daddr)]
  PROVE  WayOK(q) /\ q.id = p.id /\ q # p
<1> DEFINE m == p.mem
           L == Len(m)
           K == Len(p.walk)
           next == m[i - 1].node
           s == Sent(p, next)
<1>1. /\ p \in Ant /\ m \in Seq(MemEntry) /\ L \in Nat /\ p.ttl \in Int
      /\ \A j, k \in 1 .. L : m[j].node = m[k].node => j = k
      /\ K \in Nat
  <2>1. p \in Ant /\ GoodMemory(m, lists) /\ p.walk \in Seq(Visit) /\ p.ttl \in Int
    BY AntType DEF AntOK
  <2> QED
    BY <2>1, SeqElim DEF GoodMemory
<1>2. i \in 1 .. L /\ i \in Nat /\ i - 1 \in 1 .. L /\ i - 1 # i
  BY <1>1
<1>3. m[i - 1] \in MemEntry
  BY <1>1, <1>2, SeqElim
<1>4. next \in Node /\ next # p.daddr
  BY <1>1, <1>2, <1>3, MemEntryType DEF OnWayBack
<1>5. /\ s \in Ant /\ s.saddr = p.daddr /\ s.daddr = next /\ s.dir = "UP"
      /\ s.mem = m /\ s.id = p.id /\ s.ttl = p.ttl - 1 /\ s.walk = p.walk
      /\ s.start = p.start
  <2> HIDE DEF s, next
  <2> QED
    BY <1>1, <1>4, SentProperties DEF s
<1>6. /\ q.saddr = p.daddr /\ q.daddr = next /\ q.dir = "UP"
      /\ q.mem = m /\ q.id = p.id /\ q.ttl = p.ttl - 1 /\ q.walk = p.walk
      /\ q.start = p.start
  <2>1. q = [s EXCEPT !.laid = Append(@, p.daddr)]
    OBVIOUS
  <2> HIDE DEF s
  <2> QED
    BY <1>5, <2>1 DEF Ant
<1>7. LifeLeft(q)
  <2> SUFFICES ASSUME NEW j \in 1 .. L, next = m[j].node
               PROVE  q.ttl = 2 * NumNodes - K - L + 2 + j
    BY <1>6 DEF LifeLeft
  <2>1. j = i - 1
    BY <1>1, <1>2
  <2>2. p.ttl = 2 * NumNodes - K - L + 2 + i
    BY <1>2 DEF WayOK, LifeLeft, OnWayBack
  <2>3. /\ NumNodes \in Int /\ K \in Int /\ L \in Int /\ i \in Int
        /\ q.ttl = p.ttl - 1 /\ p.ttl \in Int
    BY <1>1, <1>2, <1>6, NumNodesAssumption
  <2> HIDE DEF K, L, m, next, s
  <2> QED
    BY <2>1, <2>2, <2>3
<1>8. Onward(q)
  BY <1>4, <1>6 DEF WayOK, Onward
<1>9. q # p
  <2>1. q.ttl # p.ttl
    <3>1. p.ttl \in Int /\ q.ttl = p.ttl - 1
      BY <1>1, <1>6
    <3> HIDE DEF s, next
    <3> QED
      BY <3>1
  <2> QED
    BY <2>1
<1> QED
  BY <1>6, <1>7, <1>8, <1>9 DEF WayOK

----------------------------------------------------------------------------
(* The steps keep the invariant. *)

\* At most one ant is replaced by one with its number.
LEMMA ReplacedAnt ==
  ASSUME WInv, IInv', UNCHANGED launched, NEW p \in net, NEW q,
         net' \subseteq (net \ {p}) \cup {q}, WayOK(q), q.id = p.id
  PROVE  WInv'
<1>1. \A a \in net' : WayOK(a) /\ a.id \in 1 .. launched'
  BY DEF WInv
<1>2. \A a, b \in net' : a.id = b.id => a = b
  BY DEF WInv
<1> QED
  BY <1>1, <1>2 DEF WInv

\* No ant comes.
LEMMA NoNewAnt ==
  ASSUME WInv, IInv', UNCHANGED launched, net' \subseteq net PROVE WInv'
<1>1. \A a \in net' : WayOK(a) /\ a.id \in 1 .. launched'
  BY DEF WInv
<1>2. \A a, b \in net' : a.id = b.id => a = b
  BY DEF WInv
<1> QED
  BY <1>1, <1>2 DEF WInv

\* What memorize does for a forward ant in flight.
LEMMA ArrivingAnt ==
  ASSUME WInv, NEW p \in net, p.dir = "DOWN", ~MemoryFull(p.mem, p.daddr)
  PROVE  LET m == Memorize(p.mem, p.daddr, clock - p.start)
         IN  /\ AntOK(p, nbr) /\ WayOK(p) /\ clock \in Nat
             /\ GoodMemory(m, nbr)
             /\ m[Len(m)].node = p.daddr
             /\ p.daddr = p.dst => Len(m) >= 2
<1> DEFINE m == Memorize(p.mem, p.daddr, clock - p.start)
<1>1. AntOK(p, nbr) /\ WayOK(p) /\ clock \in Nat
  BY DEF WInv, IInv, TypeOK
<1>2. /\ GoodMemory(p.mem, nbr) /\ p.daddr \in Node /\ clock - p.start \in Int
      /\ p.daddr \in Range(nbr[Last(p.mem).node])
  BY <1>1, AntType DEF AntOK, Last
<1>3. /\ GoodMemory(m, nbr) /\ m[Len(m)].node = p.daddr
      /\ p.daddr # p.mem[1].node => Len(m) >= 2
  BY <1>2, MemorizeProperties
<1>4. p.daddr = p.dst => p.daddr # p.mem[1].node
  BY <1>1 DEF AntOK, GoodMemory
<1> QED
  BY <1>1, <1>3, <1>4

\* The ant timer expires.
LEMMA ExpireTimerWInv ==
  ASSUME WInv, IInv', NEW n \in Node, ExpireTimer(n) PROVE WInv'
<1>1. PICK dst \in Dest \ {n} : \E next \in NextHops(rt[n][dst], n) :
        net' = net \cup (IF next = n THEN {} ELSE {NewAnt(n, dst, next)})
  BY DEF ExpireTimer
<1>2. PICK next \in NextHops(rt[n][dst], n) :
        net' = net \cup (IF next = n THEN {} ELSE {NewAnt(n, dst, next)})
  BY <1>1
<1>3. launched' = launched + 1 /\ launched \in Nat /\ clock \in Nat
  BY DEF ExpireTimer, WInv, IInv, TypeOK
<1>4. \A a \in net : WayOK(a) /\ a.id \in 1 .. launched' /\ a.id # launched + 1
  BY <1>3 DEF WInv
<1>5. CASE next = n
  BY <1>2, <1>4, <1>5 DEF WInv
<1>6. CASE next # n
  <2> DEFINE q == NewAnt(n, dst, next)
  <2>1. WayOK(q) /\ q.id = launched + 1
    BY <1>3, <1>6, LaunchedWay
  <2>2. net' = net \cup {q} /\ q.id \in 1 .. launched'
    BY <1>2, <1>3, <1>6, <2>1
  <2> HIDE DEF q
  <2>3. \A a \in net' : WayOK(a) /\ a.id \in 1 .. launched'
    BY <1>4, <2>1, <2>2
  <2>4. \A a, b \in net' : a.id = b.id => a = b
    BY <1>4, <2>1, <2>2 DEF WInv
  <2> QED
    BY <2>3, <2>4 DEF WInv
<1> QED
  BY <1>5, <1>6

\* A forward ant is passed on, or freed at a dead end.
LEMMA ForwardAntWInv ==
  ASSUME WInv, IInv', NEW p \in net, ForwardAnt(p) PROVE WInv'
<1>1. PICK next \in NextHops(rt[p.daddr][p.dst], p.saddr) :
        net' = (net \ {p}) \cup (IF next \in {p.daddr, p.saddr} THEN {}
                                 ELSE {Sent(Memorized(p), next)})
  BY DEF ForwardAnt
<1>2. p.dir = "DOWN" /\ ~MemoryFull(p.mem, p.daddr) /\ UNCHANGED launched
  BY DEF ForwardAnt
<1>3. CASE next \in {p.daddr, p.saddr}
  BY <1>1, <1>2, <1>3, NoNewAnt
<1>4. CASE next \notin {p.daddr, p.saddr}
  <2>1. /\ AntOK(p, nbr) /\ WayOK(p) /\ clock \in Nat
        /\ GoodMemory(Memorize(p.mem, p.daddr, clock - p.start), nbr)
    BY <1>2, ArrivingAnt
  <2>2. next \in Node
    <3>1. p.daddr \in Node /\ p.dst \in Addr
      BY <2>1, AntType DEF AntOK
    <3>2. next \in Neighbors(rt[p.daddr][p.dst])
      BY <1>4, NextHopsProperties
    <3>3. next \in Range(nbr[p.daddr]) /\ nbr[p.daddr] \in Seq(Node)
      BY <3>1, <3>2 DEF WInv, IInv, TypeOK, TableOK
    <3> QED
      BY <3>3, SeqElim DEF Range
  <2> DEFINE q == Sent(Memorized(p), next)
  <2>3. WayOK(q) /\ q.id = p.id
    BY <1>2, <1>4, <2>1, <2>2, ForwardedWay
  <2>4. net' = (net \ {p}) \cup {q}
    BY <1>1, <1>4
  <2> HIDE DEF q
  <2> QED
    BY <1>2, <2>3, <2>4, ReplacedAnt
<1> QED
  BY <1>3, <1>4

\* A forward ant turns.
LEMMA TurnAntWInv ==
  ASSUME WInv, IInv', NEW p \in net, TurnAnt(p) PROVE WInv'
<1> DEFINE q == Reversed(Memorized(p))
           m == Memorize(p.mem, p.daddr, clock - p.start)
<1>1. /\ p.dir = "DOWN" /\ ~MemoryFull(p.mem, p.daddr) /\ p.daddr = p.dst
      /\ UNCHANGED launched /\ net' = (net \ {p}) \cup {q}
  BY DEF TurnAnt
<1>2. /\ AntOK(p, nbr) /\ WayOK(p) /\ clock \in Nat
      /\ GoodMemory(m, nbr) /\ m[Len(m)].node = p.daddr /\ Len(m) >= 2
  BY <1>1, ArrivingAnt
<1>3. WayOK(q) /\ q.id = p.id
  BY <1>1, <1>2, TurnedWay
<1> HIDE DEF q
<1> QED
  BY <1>1, <1>3, ReplacedAnt

\* A backward ant is sent on.
LEMMA BackwardAntWInv ==
  ASSUME WInv, IInv', NEW p \in net, BackwardAnt(p) PROVE WInv'
<1>1. /\ AntOK(p, nbr) /\ WayOK(p) /\ p.dir = "UP" /\ p.daddr # p.dst
      /\ UNCHANGED launched
  BY DEF BackwardAnt, WInv, IInv
<1>2. PICK i \in 1 .. Len(p.mem) - 1 :
        OnWayBack(p, i) /\ PreviousIndex(p.mem, p.daddr) = i - 1 /\ i >= 2
  BY <1>1, BackwardPosition
<1> DEFINE q == [Sent(p, p.mem[i - 1].node) EXCEPT !.laid = Append(@, p.daddr)]
<1>3. net' = (net \ {p}) \cup {q}
  <2>1. ~(i - 1 < 1)
    BY <1>2
  <2> QED
    BY ONLY <1>2, <2>1, BackwardAnt(p) DEF BackwardAnt
<1>4. WayOK(q) /\ q.id = p.id
  BY <1>1, <1>2, RetracingWay
<1> HIDE DEF q
<1> QED
  BY <1>1, <1>3, <1>4, ReplacedAnt

\* Before any launch there is no ant.
LEMMA InitWInv == Init => WInv
BY InitIInv DEF Init, WInv

\* Every step keeps the invariant.
LEMMA NextWInv == WInv /\ [Next]_vars => WInv'
<1> SUFFICES ASSUME WInv, [Next]_vars PROVE WInv'
  OBVIOUS
<1>1. IInv'
  BY NextIInv DEF WInv
<1>2. ASSUME NEW n \in Node, Start(n) \/ Stop(n) \/ ExpireTimer(n) PROVE WInv'
  BY <1>1, <1>2, NoNewAnt, ExpireTimerWInv DEF Start, Stop
<1>3. ASSUME NEW link \in LateLinks, AddNeighbor(link[1], link[2]) PROVE WInv'
  BY <1>1, <1>3, NoNewAnt DEF AddNeighbor
<1>4. ASSUME NEW p \in net, Receive(p) \/ LoseAnt(p) PROVE WInv'
  <2>1. CASE ForwardAnt(p) \/ TurnAnt(p) \/ BackwardAnt(p)
    BY <1>1, <2>1, ForwardAntWInv, TurnAntWInv, BackwardAntWInv
  <2>2. CASE OverflowAnt(p) \/ FinishAnt(p) \/ DiscardAnt(p) \/ LoseAnt(p)
    BY <1>1, <2>2, NoNewAnt DEF OverflowAnt, FinishAnt, DiscardAnt, LoseAnt
  <2> QED
    BY <1>4, <2>1, <2>2 DEF Receive
<1>5. CASE Tick \/ UNCHANGED vars
  BY <1>1, <1>5, NoNewAnt DEF Tick, vars
<1> QED
  BY <1>2, <1>3, <1>4, <1>5 DEF Next

----------------------------------------------------------------------------
(* The theorems about ways. *)

\* Every ant's memory, time-to-live and number are right in every behaviour.
THEOREM WayInvariance == Spec => []WInv
BY InitWInv, NextWInv, PTL DEF Spec

\* The visit at which an ant left an entry for good.
LEMMA DepartureOf ==
  ASSUME WInv, NEW p \in net, NEW f, Erasure(p.mem, p.walk, p.start, f),
         NEW i \in 1 .. Len(p.mem)
  PROVE  Departure(p, i) = f[i] /\ f[i] \in 1 .. Len(p.walk)
<1>1. p.walk \in Seq(Visit)
  BY AntType DEF WInv, IInv, AntOK
<1>2. f[i] \in 1 .. Len(p.walk) /\ LastVisit(p.walk, p.mem[i].node, f[i])
  BY DEF Erasure
<1> QED
  BY <1>1, <1>2, LastVisitUnique DEF Departure

\* What is known of each ant's memory and walk.
LEMMA AntErasure ==
  ASSUME WInv, NEW p \in net
  PROVE  \E f : /\ Erasure(p.mem, p.walk, p.start, f)
                /\ Len(p.mem) \in Nat \ {0}
                /\ p.walk[Len(p.walk)].node = p.mem[Len(p.mem)].node
                /\ \A i \in 1 .. Len(p.mem) : Departure(p, i) = f[i]
<1>1. PICK f : Erasure(p.mem, p.walk, p.start, f)
  BY DEF WInv, WayOK
<1>2. p \in Ant /\ GoodMemory(p.mem, nbr)
  BY DEF WInv, IInv, AntOK
<1>3. /\ Len(p.mem) \in Nat \ {0}
      /\ p.walk[Len(p.walk)].node = p.mem[Len(p.mem)].node
  BY <1>1, <1>2, EndOfWalk
<1>4. \A i \in 1 .. Len(p.mem) : Departure(p, i) = f[i]
  BY <1>1, DepartureOf
<1> QED
  BY <1>1, <1>3, <1>4

\* MemoryIsLoopErasure: however often a walk crosses itself, the memory is
\* that walk with its loops removed.
THEOREM MemoryErasesLoops == Spec => []MemoryIsLoopErasure
<1>1. WInv => MemoryIsLoopErasure
  <2> SUFFICES ASSUME WInv, NEW p \in net
               PROVE  /\ p.mem[1].node = p.walk[1].node
                      /\ Last(p.mem).node = Last(p.walk).node
                      /\ \A i \in 1 .. Len(p.mem) - 1 :
                           p.mem[i + 1].node = p.walk[Departure(p, i) + 1].node
    BY DEF MemoryIsLoopErasure
  <2>1. PICK f : /\ Erasure(p.mem, p.walk, p.start, f)
                 /\ Len(p.mem) \in Nat \ {0}
                 /\ p.walk[Len(p.walk)].node = p.mem[Len(p.mem)].node
                 /\ \A i \in 1 .. Len(p.mem) : Departure(p, i) = f[i]
    BY AntErasure
  <2>2. \A i \in 1 .. Len(p.mem) - 1 : i \in 1 .. Len(p.mem)
    BY <2>1
  <2> QED
    BY <2>1, <2>2 DEF Erasure, Last
<1> QED
  BY <1>1, WayInvariance, PTL

\* TripTimesMeasureHops: the trip times of the memory are the times of its
\* hops, whatever loops were cut out between them.
THEOREM TripTimesRight == Spec => []TripTimesMeasureHops
<1>1. WInv => TripTimesMeasureHops
  <2> SUFFICES ASSUME WInv, NEW p \in net
               PROVE  /\ Last(p.mem).trip = Last(p.walk).time - p.start
                      /\ \A i \in 1 .. Len(p.mem) - 1 :
                           p.mem[i + 1].trip - p.mem[i].trip
                             = p.walk[Departure(p, i) + 1].time
                                 - p.walk[Departure(p, i)].time
    BY DEF TripTimesMeasureHops
  <2>1. PICK f : /\ Erasure(p.mem, p.walk, p.start, f)
                 /\ Len(p.mem) \in Nat \ {0}
                 /\ \A i \in 1 .. Len(p.mem) : Departure(p, i) = f[i]
    BY AntErasure
  <2>2. \A i \in 1 .. Len(p.mem) - 1 : i \in 1 .. Len(p.mem)
    BY <2>1
  <2> QED
    BY <2>1, <2>2 DEF Erasure, Last
<1> QED
  BY <1>1, WayInvariance, PTL

\* NoImmediateBacktrack: no ant turns on the spot or is sent to its sender.
THEOREM AntsMoveOnward == Spec => []NoImmediateBacktrack
<1>1. WInv => NoImmediateBacktrack
  BY DEF WInv, WayOK, Onward, NoImmediateBacktrack
<1> QED
  BY <1>1, WayInvariance, PTL

\* A memory has no more entries than the network has nodes.
LEMMA MemoryFitsNetwork ==
  ASSUME IsFiniteSet(Node), Cardinality(Node) <= NumNodes,
         NEW lists, NEW mem, GoodMemory(mem, lists)
  PROVE  Len(mem) <= NumNodes
<1> DEFINE L == Len(mem)
           g == [i \in 1 .. L |-> mem[i].node]
<1>1. /\ L \in Nat /\ \A i \in 1 .. L : mem[i] \in MemEntry
      /\ \A i, j \in 1 .. L : mem[i].node = mem[j].node => i = j
  BY SeqElim DEF GoodMemory
<1>2. g \in [1 .. L -> Node] /\ \A i \in 1 .. L : g[i] = mem[i].node
  BY <1>1, MemEntryType
<1> HIDE DEF g, L
<1>3. Cardinality(Node) \in Nat
  BY FS_CardinalityType
<1>4. IsFiniteSet(1 .. L) /\ Cardinality(1 .. L) = L
  <2>1. IsFiniteSet(1 .. L) /\ Cardinality(1 .. L) = IF 1 > L THEN 0 ELSE L - 1 + 1
    BY <1>1, FS_Interval
  <2> QED
    BY <1>1, <2>1
<1>5. SUFFICES ASSUME Cardinality(Node) < L PROVE FALSE
  BY <1>1, <1>3, NumNodesAssumption DEF L
<1>6. \E i, j \in 1 .. L : i # j /\ g[i] = g[j]
  <2> DEFINE S == 1 .. L
  <2>1. IsFiniteSet(S) /\ Cardinality(Node) < Cardinality(S) /\ g \in [S -> Node]
    BY <1>2, <1>4, <1>5
  <2> HIDE DEF S
  <2>2. \E i, j \in S : i # j /\ g[i] = g[j]
    BY <2>1, FS_PigeonHole
  <2> QED
    BY <2>2 DEF S
<1> QED
  BY <1>1, <1>2, <1>6

\* DirectAntsGetHome: in a network whose nodes the script has counted, an ant
\* that went out without a loop has time-to-live for the whole way back.
THEOREM DirectAntsHome ==
  ASSUME IsFiniteSet(Node), Cardinality(Node) <= NumNodes
  PROVE  Spec => []DirectAntsGetHome
<1>1. WInv => DirectAntsGetHome
  <2> SUFFICES ASSUME WInv, NEW p \in net, NEW i \in DOMAIN p.mem,
                      p.dir = "UP", Len(p.walk) = Len(p.mem),
                      p.daddr = p.mem[i].node
               PROVE  p.ttl > i
    BY DEF DirectAntsGetHome
  <2>1. GoodMemory(p.mem, nbr) /\ LifeLeft(p)
    BY DEF WInv, IInv, AntOK, WayOK
  <2>2. Len(p.mem) \in Nat /\ i \in 1 .. Len(p.mem)
    BY <2>1, SeqElim DEF GoodMemory
  <2>3. Len(p.mem) <= NumNodes
    BY <2>1, MemoryFitsNetwork
  <2>4. p.ttl = 2 * NumNodes - Len(p.mem) - Len(p.mem) + 2 + i
    BY <2>1, <2>2 DEF LifeLeft
  <2> DEFINE L == Len(p.mem)
  <2>5. L \in Nat /\ i \in Nat /\ NumNodes \in Nat /\ L <= NumNodes
        /\ p.ttl = 2 * NumNodes - L - L + 2 + i
    BY <2>2, <2>3, <2>4, NumNodesAssumption
  <2> HIDE DEF L
  <2> QED
    BY <2>5
<1> QED
  BY <1>1, WayInvariance, PTL

----------------------------------------------------------------------------
(* Which links gain. *)

\* update raises the share of no link but the travelled one.
LEMMA UpdateGains ==
  ASSUME NEW row \in Row, NEW next, NEW k \in DOMAIN row.link,
         UpdateRow(row, next).link[k].num * row.den
           > row.link[k].num * UpdateRow(row, next).den
  PROVE  row.link[k].neighbor = next
<1> SUFFICES ASSUME row.link[k].neighbor # next PROVE FALSE
  OBVIOUS
<1> DEFINE upd == [j \in DOMAIN row.link |->
                     [row.link[j] EXCEPT !.num =
                        IF row.link[j].neighbor = next
                          THEN Reinforce(@, row.den) ELSE Evaporate(@)]]
           num == row.link[k].num
           den == row.den
<1>1. row.link # <<>> /\ den \in Nat \ {0} /\ num \in Nat /\ row.link[k] \in Link
  BY RowType, LinkType
<1>2. UpdateRow(row, next) = [den |-> den * RDen, link |-> upd]
  BY <1>1 DEF UpdateRow
<1>3. upd[k].num = Evaporate(num)
  <2>1. upd[k] = [row.link[k] EXCEPT !.num = Evaporate(num)]
    OBVIOUS
  <2> HIDE DEF upd
  <2> QED
    BY <1>1, <2>1, LinkType
<1> HIDE DEF upd
<1>4. ((RDen - RNum) * num) * den > num * (den * RDen)
  BY <1>2, <1>3 DEF Evaporate
<1> HIDE DEF num, den
<1>5. RDen \in Nat /\ RNum \in Nat
  BY RAssumption
<1>6. /\ ((RDen - RNum) * num) * den = num * (den * RDen) - RNum * (num * den)
      /\ RNum * (num * den) \in Nat /\ num * (den * RDen) \in Nat
  BY <1>1, <1>5
<1> QED
  BY <1>4, <1>6

\* The gain of every link at this step is due to an ant that travelled it.
TravelledLinksGain ==
  \A n \in Node, d \in Addr : \A k \in DOMAIN rt[n][d].link :
    starts'[n] = starts[n] /\ Gains(n, d, k) =>
      \E p \in net :
        LET w == p.walk  left == LastVisitTo(w, n)
        IN  /\ p \notin net' /\ p.daddr = n
            /\ rt[n][d].link[k].neighbor = w[left + 1].node
            /\ \E j \in left + 1 .. Len(w) : w[j].node = d

\* A row that stays gains nothing.
LEMMA SameRowNoGain ==
  ASSUME IInv, NEW n \in Node, NEW d \in Addr, NEW k \in DOMAIN rt[n][d].link,
         rt'[n][d] = rt[n][d]
  PROVE  ~Gains(n, d, k)
<1>1. rt[n][d] \in Row
  BY DEF IInv, TypeOK
<1>2. rt[n][d].den \in Nat /\ rt[n][d].link[k].num \in Nat
  BY <1>1, RowType, LinkType
<1>3. rt[n][d].link[k].num * rt[n][d].den \in Nat
  BY <1>2
<1> QED
  BY <1>3 DEF Gains

\* update_table for a backward ant raises the link it left by, and only for
\* what it reached afterwards.
LEMMA BackwardGains ==
  ASSUME WInv, NEW p \in net, p.dir = "UP", p \notin net',
         rt' = [rt EXCEPT ![p.daddr] = UpdatedTable(@, p.mem, p.daddr)]
  PROVE  TravelledLinksGain
<1> DEFINE m == p.mem
           w == p.walk
           L == Len(m)
<1>1. AntOK(p, nbr) /\ IInv
  BY DEF WInv, IInv
<1>2. PICK i \in 1 .. L - 1 : OnWayBack(p, i)
  BY <1>1 DEF AntOK
<1>3. PICK f : Erasure(m, w, p.start, f)
  BY DEF WInv, WayOK
<1>4. /\ L \in Nat /\ i \in 1 .. L /\ i \in Nat /\ DOMAIN m = 1 .. L
      /\ i + 1 \in 1 .. L /\ GoodMemory(m, nbr) /\ p.daddr \in Node
  BY <1>1, AntType, SeqElim DEF AntOK, GoodMemory
<1>5. FirstIndexOf(m, p.daddr) = i
  BY <1>2, <1>4, ScansAgree DEF OnWayBack
<1>6. LastVisitTo(w, p.daddr) = f[i] /\ f[i] \in 1 .. Len(w)
  <2>1. Departure(p, i) = f[i] /\ f[i] \in 1 .. Len(w)
    BY <1>3, <1>4, DepartureOf
  <2> QED
    BY <1>2, <2>1 DEF Departure, OnWayBack
<1>7. LinkTravelled(m, p.daddr) = w[f[i] + 1].node
  <2>1. m[i + 1].node = w[f[i] + 1].node
    BY <1>3 DEF Erasure
  <2> QED
    BY <1>5, <2>1 DEF LinkTravelled
<1>8. ASSUME NEW d \in ReachedThrough(m, p.daddr)
      PROVE  \E j \in f[i] + 1 .. Len(w) : w[j].node = d
  <2>1. PICK k \in i + 1 .. L : d = m[k].node
    BY <1>5 DEF ReachedThrough
  <2>2. k \in 1 .. L /\ i < k
    BY <1>4
  <2>3. f[k] \in 1 .. Len(w) /\ f[i] < f[k] /\ w[f[k]].node = d
    BY <1>3, <1>4, <2>1, <2>2 DEF Erasure, LastVisit
  <2>4. f[k] \in f[i] + 1 .. Len(w)
    BY <1>6, <2>3
  <2> QED
    BY <2>3, <2>4
<1>9. SUFFICES ASSUME NEW n \in Node, NEW d \in Addr,
                      NEW k \in DOMAIN rt[n][d].link, Gains(n, d, k)
               PROVE  /\ n = p.daddr
                      /\ rt[n][d].link[k].neighbor = w[f[i] + 1].node
                      /\ d \in ReachedThrough(m, p.daddr)
  BY <1>6, <1>8 DEF TravelledLinksGain
<1>10. rt'[n][d] # rt[n][d]
  BY <1>1, <1>9, SameRowNoGain
<1>11. rt \in [Node -> [Addr -> Row]]
  BY <1>1 DEF IInv, TypeOK
<1>12. n = p.daddr
  BY <1>10, <1>11
<1>13. rt'[n][d] = UpdatedTable(rt[n], m, n)[d]
  BY <1>4, <1>11, <1>12
<1>14. /\ d \in ReachedThrough(m, p.daddr)
       /\ rt'[n][d] = UpdateRow(rt[n][d], LinkTravelled(m, n))
  BY <1>10, <1>12, <1>13 DEF UpdatedTable
<1>15. rt[n][d].link[k].neighbor = LinkTravelled(m, n)
  BY <1>9, <1>11, <1>14, UpdateGains DEF Gains
<1> QED
  BY <1>7, <1>12, <1>14, <1>15

\* A start command is the only other step that changes a table.
LEMMA NextGains == WInv /\ [Next]_vars => [TravelledLinksGain]_vars
<1> SUFFICES ASSUME WInv, Next PROVE TravelledLinksGain
  OBVIOUS
<1>0. IInv
  BY DEF WInv
<1>1. ASSUME UNCHANGED rt PROVE TravelledLinksGain
  BY <1>0, <1>1, SameRowNoGain DEF TravelledLinksGain
<1>2. ASSUME NEW n \in Node, Start(n) PROVE TravelledLinksGain
  <2> SUFFICES ASSUME NEW m \in Node, NEW d \in Addr,
                      NEW k \in DOMAIN rt[m][d].link, starts'[m] = starts[m]
               PROVE  ~Gains(m, d, k)
    BY DEF TravelledLinksGain
  <2>1. m # n
    BY <1>0, <1>2 DEF Start, IInv, TypeOK
  <2>2. rt'[m][d] = rt[m][d]
    BY <1>0, <1>2, <2>1 DEF Start, IInv, TypeOK
  <2> QED
    BY <1>0, <2>2, SameRowNoGain
<1>3. ASSUME NEW p \in net, BackwardAnt(p) PROVE TravelledLinksGain
  <2>1. AntOK(p, nbr) /\ WayOK(p) /\ p.dir = "UP" /\ p.daddr # p.dst
    BY <1>0, <1>3 DEF BackwardAnt, WInv, IInv
  <2>2. PICK i \in 1 .. Len(p.mem) - 1 :
          OnWayBack(p, i) /\ PreviousIndex(p.mem, p.daddr) = i - 1 /\ i >= 2
    BY <2>1, BackwardPosition
  <2> DEFINE q == [Sent(p, p.mem[i - 1].node) EXCEPT !.laid = Append(@, p.daddr)]
  <2>3. net' = (net \ {p}) \cup {q}
    <3>1. ~(i - 1 < 1)
      BY <2>2
    <3> QED
      BY ONLY <1>3, <2>2, <3>1 DEF BackwardAnt
  <2>4. q # p
    BY <2>1, <2>2, RetracingWay
  <2> HIDE DEF q
  <2> QED
    BY <1>3, <2>1, <2>3, <2>4, BackwardGains DEF BackwardAnt
<1>4. ASSUME NEW p \in net, FinishAnt(p) PROVE TravelledLinksGain
  BY <1>4, BackwardGains DEF FinishAnt
<1>5. ASSUME NEW n \in Node, Stop(n) \/ ExpireTimer(n) PROVE UNCHANGED rt
  BY <1>5 DEF Stop, ExpireTimer
<1>6. ASSUME NEW link \in LateLinks, AddNeighbor(link[1], link[2]) PROVE UNCHANGED rt
  BY <1>6 DEF AddNeighbor
<1>7. ASSUME NEW p \in net,
             ForwardAnt(p) \/ TurnAnt(p) \/ OverflowAnt(p) \/ DiscardAnt(p) \/ LoseAnt(p)
      PROVE  UNCHANGED rt
  BY <1>7 DEF ForwardAnt, TurnAnt, OverflowAnt, DiscardAnt, LoseAnt
<1>8. Tick => UNCHANGED rt
  BY DEF Tick
<1> QED
  BY <1>1, <1>2, <1>3, <1>4, <1>5, <1>6, <1>7, <1>8 DEF Next, Receive

\* OnlyTravelledLinksGain: whatever happens in the network, a step raises
\* the pheromone of a link only for an ant that left the node by it for good
\* and reached the destination afterwards.
THEOREM TravelledLinksOnly == Spec => OnlyTravelledLinksGain
<1>1. WInv /\ [Next]_vars => [TravelledLinksGain]_vars
  BY NextGains
<1>2. Spec => [][TravelledLinksGain]_vars
  BY <1>1, WayInvariance, PTL DEF Spec
<1> QED
  BY <1>2 DEF OnlyTravelledLinksGain, TravelledLinksGain

----------------------------------------------------------------------------
(* The refinement of AntTrip. *)

\* The trips under way.
Trips == {TripOf(p) : p \in net}

NodesOf(mem) == [i \in DOMAIN mem |-> mem[i].node]

\* The nodes of a memory are a path as long as the memory.
LEMMA NodesOfMemory ==
  ASSUME NEW mem \in Seq(MemEntry)
  PROVE  /\ NodesOf(mem) \in Seq(Node) /\ Len(NodesOf(mem)) = Len(mem)
         /\ DOMAIN NodesOf(mem) = 1 .. Len(mem)
         /\ \A i \in 1 .. Len(mem) : NodesOf(mem)[i] = mem[i].node
<1>1. /\ DOMAIN mem = 1 .. Len(mem) /\ Len(mem) \in Nat
      /\ \A i \in 1 .. Len(mem) : mem[i].node \in Node
  BY SeqElim, MemEntryType
<1>2. /\ NodesOf(mem) \in [1 .. Len(mem) -> Node]
      /\ DOMAIN NodesOf(mem) = 1 .. Len(mem)
      /\ \A i \in 1 .. Len(mem) : NodesOf(mem)[i] = mem[i].node
  BY <1>1 DEF NodesOf
<1>3. NodesOf(mem) \in Seq(Node) /\ Len(NodesOf(mem)) = Len(mem)
  BY <1>1, <1>2, SeqIntro
<1> QED
  BY <1>2, <1>3

\* The fields of a trip, and that equal fields make equal trips.
LEMMA TripFields ==
  ASSUME NEW p
  PROVE  /\ TripOf(p).id = p.id
         /\ TripOf(p).to = IF p.dir = "DOWN" THEN p.dst ELSE p.src
         /\ TripOf(p).path = NodesOf(p.mem)
         /\ TripOf(p).pos = LastIndexOf(p.mem, p.saddr)
         /\ TripOf(p).back = (p.dir = "UP")
BY DEF TripOf, PathOf, NodesOf

\* The two modules update a row alike.
LEMMA SameUpdate ==
  \A row, next : Trip!UpdateRow(row, next) = UpdateRow(row, next)
BY DEF Trip!UpdateRow, UpdateRow, Trip!Reinforce, Reinforce, Trip!Evaporate, Evaporate

\* The path of the memory after memorize is the path of a trip extended.
LEMMA MemorizedPath ==
  ASSUME NEW lists, NEW mem, GoodMemory(mem, lists), NEW n \in Node, NEW time \in Int
  PROVE  NodesOf(Memorize(mem, n, time)) = Trip!Extended(NodesOf(mem), n)
<1> DEFINE L == Len(mem)
           path == NodesOf(mem)
           new == Memorize(mem, n, time)
<1>1. /\ mem \in Seq(MemEntry) /\ L \in Nat /\ DOMAIN mem = 1 .. L
      /\ \A i, j \in 1 .. L : mem[i].node = mem[j].node => i = j
      /\ \A i \in 1 .. L : mem[i] \in MemEntry
  BY SeqElim DEF GoodMemory
<1>2. /\ path \in Seq(Node) /\ Len(path) = L /\ DOMAIN path = 1 .. L
      /\ \A i \in 1 .. L : path[i] = mem[i].node
  BY <1>1, NodesOfMemory
<1> HIDE DEF path, new, L
<1>3. CASE \E i \in 1 .. L : mem[i].node = n
  <2>1. PICK i \in 1 .. L : mem[i].node = n
    BY <1>3
  <2>2. IndicesOf(mem, n) # {} /\ FirstIndexOf(mem, n) = i
    BY <1>1, <2>1, ScansAgree DEF L, IndicesOf
  <2> DEFINE t == time - mem[i].trip
  <2>3. new = [j \in 1 .. i |-> [mem[j] EXCEPT !.trip = @ + t]]
    BY <2>2 DEF new, Memorize, EraseLoop
  <2> HIDE DEF t
  <2>4. i \in Nat /\ \A j \in 1 .. i : j \in 1 .. L
    BY <1>1
  <2>5. \A j \in 1 .. i : new[j].node = path[j]
    <3> SUFFICES ASSUME NEW j \in 1 .. i PROVE new[j].node = path[j]
      OBVIOUS
    <3>1. mem[j] \in MemEntry /\ path[j] = mem[j].node
      BY <1>1, <1>2, <2>4
    <3>2. new[j] = [mem[j] EXCEPT !.trip = mem[j].trip + t]
      BY <2>3
    <3> QED
      BY <3>1, <3>2, MemEntryType
  <2>6. DOMAIN new = 1 .. i
    BY <2>3
  <2>7. NodesOf(new) = [j \in 1 .. i |-> path[j]]
    BY <2>5, <2>6 DEF NodesOf
  <2>8. n \in Trip!Range(path) /\ (CHOOSE k \in DOMAIN path : path[k] = n) = i
    <3>1. path[i] = n /\ i \in DOMAIN path
      BY <1>2, <2>1
    <3>2. \A k \in DOMAIN path : path[k] = n => k = i
      BY <1>1, <1>2, <2>1
    <3> QED
      BY <3>1, <3>2 DEF Trip!Range
  <2>9. SubSeq(path, 1, i) = [j \in 1 .. i |-> path[j]]
    BY <1>2, <2>4
  <2> QED
    BY <2>7, <2>8, <2>9 DEF Trip!Extended, path, new
<1>4. CASE ~ \E i \in 1 .. L : mem[i].node = n
  <2> DEFINE e == [node |-> n, trip |-> time]
  <2>1. e \in MemEntry /\ e.node = n
    BY MemEntryType
  <2>2. new = Append(mem, e)
    BY <1>1, <1>4 DEF new, Memorize, IndicesOf
  <2> HIDE DEF e
  <2>3. /\ new \in Seq(MemEntry) /\ Len(new) = L + 1
        /\ \A k \in 1 .. L : new[k] = mem[k]
        /\ new[L + 1] = e
    BY <1>1, <2>1, <2>2, AppendElim DEF L
  <2>4. /\ Append(path, n) \in Seq(Node) /\ Len(Append(path, n)) = L + 1
        /\ \A k \in 1 .. L : Append(path, n)[k] = path[k]
        /\ Append(path, n)[L + 1] = n
    BY <1>2, AppendElim
  <2> DEFINE far == Append(path, n)
  <2>5. DOMAIN far = 1 .. L + 1 /\ far = [k \in DOMAIN far |-> far[k]]
    <3> HIDE DEF far
    <3>1. far \in Seq(Node) /\ Len(far) = L + 1
      BY <2>4 DEF far
    <3>2. DOMAIN far = 1 .. Len(far) /\ far = [k \in DOMAIN far |-> far[k]]
      BY <3>1, SeqElim
    <3> QED
      BY <3>1, <3>2
  <2>6. \A k \in 1 .. L + 1 : k = L + 1 \/ k \in 1 .. L
    BY <1>1
  <2>7. DOMAIN new = 1 .. L + 1
    BY <2>3, SeqElim
  <2>8. \A k \in 1 .. L + 1 : new[k].node = far[k]
    BY <1>2, <2>1, <2>3, <2>4, <2>6
  <2> HIDE DEF far
  <2>9. NodesOf(new) = far
    BY <2>5, <2>7, <2>8 DEF NodesOf
  <2>10. n \notin Trip!Range(path)
    BY <1>2, <1>4 DEF Trip!Range
  <2> QED
    BY <2>9, <2>10 DEF Trip!Extended, far, path, new
<1> QED
  BY <1>3, <1>4

\* An ant replaced or dropped is a trip replaced or dropped.
LEMMA TripsSwapped ==
  ASSUME WInv, NEW p \in net
  PROVE  /\ TripOf(p) \in Trips
         /\ {TripOf(x) : x \in net \ {p}} = Trips \ {TripOf(p)}
         /\ \A q : {TripOf(x) : x \in (net \ {p}) \cup {q}}
                     = (Trips \ {TripOf(p)}) \cup {TripOf(q)}
<1>1. \A x \in net : TripOf(x) = TripOf(p) => x = p
  BY TripFields DEF WInv
<1>2. {TripOf(x) : x \in net \ {p}} = Trips \ {TripOf(p)}
  BY <1>1 DEF Trips
<1>3. \A q : {TripOf(x) : x \in (net \ {p}) \cup {q}}
               = {TripOf(x) : x \in net \ {p}} \cup {TripOf(q)}
  OBVIOUS
<1> QED
  BY <1>2, <1>3 DEF Trips

\* The step of the abstract specification, in terms of the trips here.
TripStep == Trip!TripNext \/ UNCHANGED <<Trips, nbr, rt>>

\* A launch.
LEMMA ExpireTimerTrip ==
  ASSUME WInv, NEW n \in Node, ExpireTimer(n) PROVE TripStep
<1>1. PICK dst \in Dest \ {n} : \E next \in NextHops(rt[n][dst], n) :
        net' = net \cup (IF next = n THEN {} ELSE {NewAnt(n, dst, next)})
  BY DEF ExpireTimer
<1>2. PICK next \in NextHops(rt[n][dst], n) :
        net' = net \cup (IF next = n THEN {} ELSE {NewAnt(n, dst, next)})
  BY <1>1
<1>3. UNCHANGED <<nbr, rt>> /\ launched \in Nat /\ launched < MaxLaunch
  BY DEF ExpireTimer, WInv, IInv, TypeOK
<1>4. CASE next = n
  BY <1>2, <1>3, <1>4 DEF TripStep, Trips
<1>5. CASE next # n
  <2> DEFINE q == NewAnt(n, dst, next)
             e == [node |-> n, trip |-> 0]
  <2>1. /\ q.id = launched + 1 /\ q.dir = "DOWN" /\ q.dst = dst /\ q.mem = <<e>>
        /\ q.saddr = n
    BY DEF NewAnt
  <2>2. e.node = n
    OBVIOUS
  <2> HIDE DEF q, e
  <2>3. NodesOf(q.mem) = <<n>>
    BY <2>1, <2>2 DEF NodesOf
  <2>4. LastIndexOf(q.mem, q.saddr) = 1
    <3>1. IndicesOf(q.mem, n) = {1}
      BY <2>1, <2>2 DEF IndicesOf
    <3> QED
      BY <2>1, <3>1 DEF LastIndexOf
  <2>5. TripOf(q) = [id |-> launched + 1, to |-> dst, path |-> <<n>>, pos |-> 1,
                     back |-> FALSE]
    BY <2>1, <2>3, <2>4 DEF TripOf, PathOf, NodesOf
  <2>6. {TripOf(x) : x \in net'} = Trips \cup {TripOf(q)}
    BY <1>2, <1>5 DEF Trips, q
  <2>7. \A a \in Trips : a.id # launched + 1
    BY <1>3, TripFields DEF Trips, WInv
  <2>8. launched + 1 \in 1 .. MaxLaunch /\ dst \in Addr /\ dst # n
    BY <1>3, BoundsAssumption DEF Addr
  <2>9. Trip!Launch(n, dst, launched + 1)
    BY <1>3, <2>5, <2>6, <2>7, <2>8 DEF Trip!Launch, Trips
  <2> QED
    BY <2>8, <2>9 DEF TripStep, Trip!TripNext
<1> QED
  BY <1>4, <1>5

\* A trip that differs from another in three fields.
LEMMA TripChanged ==
  ASSUME NEW x, NEW z, NEW l, NEW h, NEW y,
         x = [id |-> x.id, to |-> x.to, path |-> x.path, pos |-> x.pos, back |-> x.back],
         y = [id |-> y.id, to |-> y.to, path |-> y.path, pos |-> y.pos, back |-> y.back],
         y.id = x.id, y.to = x.to, y.path = z, y.pos = l, y.back = h
  PROVE  y = [x EXCEPT !.path = z, !.pos = l, !.back = h]
<1> DEFINE u == [x EXCEPT !.path = z]
           v == [u EXCEPT !.pos = l]
<1>1. [x EXCEPT !.path = z, !.pos = l, !.back = h] = [v EXCEPT !.back = h]
  OBVIOUS
<1>2. u = [id |-> x.id, to |-> x.to, path |-> z, pos |-> x.pos, back |-> x.back]
  OBVIOUS
<1> HIDE DEF u
<1>3. v = [id |-> x.id, to |-> x.to, path |-> z, pos |-> l, back |-> x.back]
  BY <1>2
<1> HIDE DEF v
<1>4. [v EXCEPT !.back = h] = [id |-> x.id, to |-> x.to, path |-> z, pos |-> l, back |-> h]
  BY <1>3
<1>5. y = [id |-> x.id, to |-> x.to, path |-> z, pos |-> l, back |-> h]
  OBVIOUS
<1> QED
  BY <1>1, <1>4, <1>5

\* A forward ant arrives and is sent on or sent back: the trip explores.
LEMMA ArrivalTrip ==
  ASSUME WInv, NEW p \in net, p.dir = "DOWN", p.saddr # p.daddr, UNCHANGED <<nbr, rt>>,
         GoodMemory(Memorize(p.mem, p.daddr, clock - p.start), nbr),
         Memorize(p.mem, p.daddr, clock - p.start)
           [Len(Memorize(p.mem, p.daddr, clock - p.start))].node = p.daddr,
         NEW q, net' = (net \ {p}) \cup {q},
         q.mem = Memorize(p.mem, p.daddr, clock - p.start),
         q.saddr = p.daddr, q.id = p.id,
         q.dir = IF p.daddr = p.dst THEN "UP" ELSE "DOWN",
         IF p.daddr = p.dst THEN q.src = p.dst ELSE q.dst = p.dst
  PROVE  TripStep
<1> DEFINE m == Memorize(p.mem, p.daddr, clock - p.start)
           a == TripOf(p)
           b == TripOf(q)
           n == p.daddr
           path == Trip!Extended(a.path, n)
<1>1. AntOK(p, nbr) /\ clock \in Nat
  BY DEF WInv, IInv, TypeOK
<1>2. /\ GoodMemory(p.mem, nbr) /\ p.mem \in Seq(MemEntry) /\ n \in Node
      /\ clock - p.start \in Int
      /\ p.saddr = p.mem[Len(p.mem)].node /\ n \in Range(nbr[p.saddr])
  BY <1>1, AntType DEF AntOK, GoodMemory
<1>3. a.path = NodesOf(p.mem) /\ a.id = p.id /\ a.to = p.dst /\ a.back = FALSE
  BY TripFields
<1>4. Last(a.path) = p.saddr /\ Trip!Last(a.path) = p.saddr
  <2>1. Len(p.mem) \in 1 .. Len(p.mem)
    BY <1>2, SeqElim DEF GoodMemory
  <2>2. Len(a.path) = Len(p.mem) /\ a.path[Len(p.mem)] = p.saddr
    BY <1>2, <1>3, <2>1, NodesOfMemory
  <2> QED
    BY <2>2 DEF Last, Trip!Last
<1>5. path = NodesOf(m)
  BY <1>2, <1>3, MemorizedPath
<1>6. m \in Seq(MemEntry) /\ Len(path) = Len(m) /\ Len(m) \in 1 .. Len(m)
  BY <1>5, NodesOfMemory, SeqElim DEF GoodMemory
<1>7. LastIndexOf(m, n) = Len(m)
  BY <1>6, ScansAgree
<1>8. /\ b.path = path /\ b.pos = Len(path) /\ b.id = a.id /\ b.to = a.to
      /\ b.back = (n = a.to)
  <2>1. b.path = NodesOf(m) /\ b.pos = LastIndexOf(m, n) /\ b.id = p.id
    BY TripFields
  <2>2. b.to = p.dst /\ b.back = (n = p.dst)
    BY TripFields
  <2> QED
    BY <1>3, <1>5, <1>6, <1>7, <2>1, <2>2
<1>9. b = [a EXCEPT !.path = path, !.pos = Len(path), !.back = (n = a.to)]
  <2>1. /\ a = [id |-> a.id, to |-> a.to, path |-> a.path, pos |-> a.pos, back |-> a.back]
        /\ b = [id |-> b.id, to |-> b.to, path |-> b.path, pos |-> b.pos, back |-> b.back]
    BY DEF TripOf
  <2> DEFINE home == (n = a.to)
             last == Len(path)
  <2>2. b.back = home /\ b.pos = last
    BY <1>8, Zenon
  <2> HIDE DEF home, last
  <2>3. b.path = path /\ b.id = a.id /\ b.to = a.to
    BY <1>8
  <2> HIDE DEF a, b, path
  <2>4. b = [a EXCEPT !.path = path, !.pos = last, !.back = home]
    BY ONLY <2>1, <2>2, <2>3, TripChanged
  <2> QED
    BY <2>4, Zenon DEF home, last
<1>10. Range(nbr[p.saddr]) = Trip!Range(nbr[p.saddr])
  BY DEF Range, Trip!Range
<1>11. {TripOf(x) : x \in net'} = (Trips \ {a}) \cup {b} /\ a \in Trips
  BY TripsSwapped
<1> HIDE DEF a, b, m, path
<1>12. Trip!Explore(a, n)
  BY <1>2, <1>3, <1>4, <1>9, <1>10, <1>11 DEF Trip!Explore, Trips, path
<1> QED
  BY <1>2, <1>11, <1>12 DEF TripStep, Trip!TripNext, Trips

\* An ant that is dropped: the trip is lost.
LEMMA LostTrip ==
  ASSUME WInv, NEW p \in net, net' = net \ {p}, UNCHANGED <<nbr, rt>>
  PROVE  TripStep
<1>1. {TripOf(x) : x \in net'} = Trips \ {TripOf(p)} /\ TripOf(p) \in Trips
  BY TripsSwapped
<1>2. Trip!Lose(TripOf(p))
  BY <1>1 DEF Trip!Lose, Trips
<1> QED
  BY <1>1, <1>2 DEF TripStep, Trip!TripNext, Trips

\* The table and the place of a backward ant, in terms of its trip.
LEMMA RetracePosition ==
  ASSUME WInv, NEW p \in net, p.dir = "UP", NEW i \in 1 .. Len(p.mem) - 1,
         OnWayBack(p, i)
  PROVE  LET a == TripOf(p)
             behind == {a.path[k] : k \in a.pos .. Len(a.path)}
         IN  /\ a.back /\ a.pos = i + 1 /\ a.path[a.pos - 1] = p.daddr
             /\ \A table : UpdatedTable(table, p.mem, p.daddr)
                  = [d \in Addr |-> IF d \in behind
                                      THEN Trip!UpdateRow(table[d], a.path[a.pos])
                                      ELSE table[d]]
<1> DEFINE a == TripOf(p)
           m == p.mem
           L == Len(m)
           behind == {a.path[k] : k \in a.pos .. Len(a.path)}
<1>1. GoodMemory(m, nbr) /\ m \in Seq(MemEntry) /\ L \in Nat
  BY SeqElim DEF WInv, IInv, AntOK, GoodMemory
<1>2. i \in 1 .. L /\ i + 1 \in 1 .. L /\ (i + 1) - 1 = i
  BY <1>1
<1>3. a.path = NodesOf(m) /\ a.pos = LastIndexOf(m, p.saddr) /\ a.back
  BY TripFields
<1>4. Len(a.path) = L /\ \A k \in 1 .. L : a.path[k] = m[k].node
  BY <1>1, <1>3, NodesOfMemory
<1>5. a.pos = i + 1
  BY <1>1, <1>2, <1>3, ScansAgree DEF OnWayBack
<1>6. FirstIndexOf(m, p.daddr) = i
  BY <1>1, <1>2, ScansAgree DEF OnWayBack
<1> HIDE DEF a
<1>7. behind = ReachedThrough(m, p.daddr)
  <2>1. \A k \in i + 1 .. L : k \in 1 .. L
    BY <1>1, <1>2
  <2>2. behind = {m[k].node : k \in i + 1 .. L}
    BY <1>4, <1>5, <2>1
  <2> QED
    BY <1>6, <2>2 DEF ReachedThrough
<1>8. a.path[a.pos] = LinkTravelled(m, p.daddr)
  BY <1>2, <1>4, <1>5, <1>6 DEF LinkTravelled
<1>9. a.path[a.pos - 1] = p.daddr
  BY <1>2, <1>4, <1>5 DEF OnWayBack
<1> HIDE DEF behind
<1>10. \A table : UpdatedTable(table, m, p.daddr)
         = [d \in Addr |-> IF d \in behind THEN Trip!UpdateRow(table[d], a.path[a.pos])
                                           ELSE table[d]]
  BY <1>7, <1>8, SameUpdate DEF UpdatedTable
<1> QED
  BY <1>3, <1>5, <1>9, <1>10 DEF a, behind

\* A backward ant updates a table and is sent on, or ends at its source.
LEMMA RetraceTrip ==
  ASSUME WInv, NEW p \in net, BackwardAnt(p) \/ FinishAnt(p) PROVE TripStep
<1> DEFINE a == TripOf(p)
           n == p.daddr
           behind == {a.path[k] : k \in a.pos .. Len(a.path)}
<1>1. /\ AntOK(p, nbr) /\ p.dir = "UP" /\ UNCHANGED nbr
      /\ rt' = [rt EXCEPT ![n] = UpdatedTable(@, p.mem, n)]
  BY DEF BackwardAnt, FinishAnt, WInv, IInv
<1>2. PICK i \in 1 .. Len(p.mem) - 1 :
        /\ OnWayBack(p, i) /\ PreviousIndex(p.mem, n) = i - 1
        /\ n # p.dst => i >= 2
  BY <1>1, BackwardPosition
<1>3. /\ a.back /\ a.pos = i + 1 /\ a.path[a.pos - 1] = n
      /\ \A table : UpdatedTable(table, p.mem, n)
           = [d \in Addr |-> IF d \in behind THEN Trip!UpdateRow(table[d], a.path[a.pos])
                                             ELSE table[d]]
  BY <1>1, <1>2, RetracePosition
<1>4. p \in Ant /\ GoodMemory(p.mem, nbr) /\ n \in Node
  BY <1>1, AntType DEF AntOK
<1>5. i \in 1 .. Len(p.mem) /\ i \in Nat \ {0} /\ 1 \in 1 .. Len(p.mem)
  BY <1>4, SeqElim DEF GoodMemory
<1>6. n = p.dst <=> i = 1
  BY <1>2, <1>4, <1>5 DEF OnWayBack, GoodMemory
<1>7. /\ a \in Trips
      /\ {TripOf(x) : x \in net \ {p}} = Trips \ {a}
      /\ \A q : {TripOf(x) : x \in (net \ {p}) \cup {q}} = (Trips \ {a}) \cup {TripOf(q)}
  BY TripsSwapped
<1>8. rt' = [rt EXCEPT ![n] = [d \in Addr |->
               IF d \in behind THEN Trip!UpdateRow(rt[n][d], a.path[a.pos])
                               ELSE rt[n][d]]]
  BY <1>1, <1>3
<1>9. {TripOf(x) : x \in net'} =
        (Trips \ {a}) \cup (IF a.pos = 2 THEN {} ELSE {[a EXCEPT !.pos = @ - 1]})
  <2>1. CASE BackwardAnt(p)
    <3>1. n # p.dst /\ i >= 2 /\ ~(i - 1 < 1) /\ i # 1
      BY <1>2, <1>5, <2>1 DEF BackwardAnt
    <3> DEFINE s == Sent(p, p.mem[i - 1].node)
               q == [s EXCEPT !.laid = Append(@, n)]
    <3>2. net' = (net \ {p}) \cup {q}
      BY <1>2, <2>1, <3>1 DEF BackwardAnt
    <3>3. /\ q.id = p.id /\ q.dir = p.dir /\ q.src = p.src /\ q.dst = p.dst
          /\ q.mem = p.mem /\ q.saddr = n
      BY <1>4 DEF Sent, Ant
    <3> HIDE DEF q
    <3>4. LastIndexOf(q.mem, q.saddr) = i
      BY <1>2, <1>4, <1>5, <3>3, ScansAgree DEF OnWayBack
    <3>5. TripOf(q) = [a EXCEPT !.pos = i]
      <4> DEFINE b == TripOf(q)
      <4>1. /\ b.id = a.id /\ b.to = a.to /\ b.path = a.path /\ b.pos = i
            /\ b.back = a.back
        BY <3>3, <3>4, TripFields
      <4>2. /\ a = [id |-> a.id, to |-> a.to, path |-> a.path, pos |-> a.pos,
                   back |-> a.back]
            /\ b = [id |-> b.id, to |-> b.to, path |-> b.path, pos |-> b.pos,
                   back |-> b.back]
        BY DEF TripOf
      <4> HIDE DEF a, b
      <4>3. b = [a EXCEPT !.pos = i]
        BY <4>1, <4>2
      <4> QED
        BY <4>3 DEF b
    <3>6. (i + 1) - 1 = i /\ i + 1 # 2
      BY <1>5, <3>1
    <3>7. TripOf(q) = [a EXCEPT !.pos = @ - 1]
      BY <1>3, <3>5, <3>6 DEF TripOf
    <3> QED
      BY <1>3, <1>7, <3>2, <3>6, <3>7
  <2>2. CASE FinishAnt(p)
    <3>1. i = 1 /\ net' = net \ {p}
      BY <1>6, <2>2 DEF FinishAnt
    <3> QED
      BY <1>3, <1>7, <3>1
  <2> QED
    BY <2>1, <2>2
<1> HIDE DEF a
<1>10. Trip!Retrace(a)
  BY <1>1, <1>3, <1>8, <1>9 DEF Trip!Retrace, Trips
<1> QED
  BY <1>7, <1>10 DEF TripStep, Trip!TripNext, Trips

\* A script command.
LEMMA CommandTrip ==
  /\ \A n \in Node : IInv /\ Start(n) => TripStep
  /\ \A m, n \in Node : IInv /\ AddNeighbor(m, n) => TripStep
<1>1. ASSUME NEW n \in Node, IInv, Start(n) PROVE TripStep
  <2>1. \A m \in Node \ {n} : rt'[m] = rt[m]
    BY <1>1 DEF Start, IInv, TypeOK
  <2>2. UNCHANGED <<Trips, nbr>>
    BY <1>1 DEF Start, Trips
  <2>3. Trip!Configure(n)
    BY <2>1, <2>2 DEF Trip!Configure, Trips
  <2> QED
    BY <2>3 DEF TripStep, Trip!TripNext
<1>2. ASSUME NEW m \in Node, NEW n \in Node, IInv, AddNeighbor(m, n) PROVE TripStep
  <2>1. \A k \in Node : Range(nbr[k]) \subseteq Range(nbr'[k])
    <3>1. nbr \in [Node -> Seq(Node)] /\ SymmetricLists(nbr)
      BY <1>2 DEF IInv, TypeOK
    <3> DEFINE new == WithNeighbor(WithNeighbor(nbr, m, n), n, m)
    <3>2. \A k \in Node : Range(nbr[k]) \subseteq Range(new[k])
      BY <3>1, AddedNeighbor
    <3>3. nbr' = new
      BY <1>2 DEF AddNeighbor
    <3> QED
      BY <3>2, <3>3
  <2>2. UNCHANGED <<Trips, rt>>
    BY <1>2 DEF AddNeighbor, Trips
  <2>3. Trip!Configure(m)
    BY <2>1, <2>2 DEF Trip!Configure, Trips, Range, Trip!Range
  <2> QED
    BY <2>3 DEF TripStep, Trip!TripNext
<1> QED
  BY <1>1, <1>2

\* A forward ant: explored, or freed at a dead end.
LEMMA ForwardTrip ==
  ASSUME WInv, NEW p \in net, ForwardAnt(p) \/ TurnAnt(p) PROVE TripStep
<1>1. /\ p.dir = "DOWN" /\ p.saddr # p.daddr /\ ~MemoryFull(p.mem, p.daddr)
      /\ UNCHANGED <<nbr, rt>>
  BY DEF ForwardAnt, TurnAnt, Handled
<1> DEFINE m == Memorize(p.mem, p.daddr, clock - p.start)
           r == Memorized(p)
<1>2. /\ AntOK(p, nbr) /\ clock \in Nat /\ GoodMemory(m, nbr)
      /\ m[Len(m)].node = p.daddr
      /\ p.daddr = p.dst => Len(m) >= 2
  BY <1>1, ArrivingAnt
<1>3. m \in Seq(MemEntry) /\ p \in Ant
  BY <1>2 DEF GoodMemory, AntOK
<1>4. /\ r \in Ant /\ r.mem = m /\ r.daddr = p.daddr /\ r.dir = "DOWN"
      /\ r.src = p.src /\ r.dst = p.dst /\ r.id = p.id
  BY <1>1, <1>2, <1>3, MemorizedProperties
<1>5. CASE ForwardAnt(p)
  <2>1. PICK next : net' = (net \ {p}) \cup (IF next \in {p.daddr, p.saddr} THEN {}
                                             ELSE {Sent(r, next)})
    BY <1>5 DEF ForwardAnt
  <2>2. CASE next \in {p.daddr, p.saddr}
    BY <1>1, <2>1, <2>2, LostTrip
  <2>3. CASE next \notin {p.daddr, p.saddr}
    <3> DEFINE q == Sent(r, next)
    <3> HIDE DEF r
    <3>1. /\ q.mem = m /\ q.saddr = p.daddr /\ q.id = p.id /\ q.dir = "DOWN"
          /\ q.dst = p.dst
      BY <1>4 DEF Sent, Ant
    <3>2. p.daddr # p.dst /\ net' = (net \ {p}) \cup {q}
      BY <1>5, <2>1, <2>3 DEF ForwardAnt
    <3> HIDE DEF q
    <3> QED
      BY <1>1, <1>2, <3>1, <3>2, ArrivalTrip
  <2> QED
    BY <2>2, <2>3
<1>6. CASE TurnAnt(p)
  <2> DEFINE q == Reversed(r)
  <2>1. p.daddr = p.dst /\ net' = (net \ {p}) \cup {q}
    BY <1>6 DEF TurnAnt
  <2> HIDE DEF r
  <2>2. /\ q.mem = m /\ q.saddr = p.daddr /\ q.id = p.id /\ q.dir = "UP"
        /\ q.src = p.dst
    BY <1>4 DEF Reversed, Sent, Ant
  <2> HIDE DEF q
  <2> QED
    BY <1>1, <1>2, <2>1, <2>2, ArrivalTrip
<1> QED
  BY <1>5, <1>6

\* Every step of the agents is a step of the trips or none at all.
LEMMA NextTrip == WInv /\ [Next]_vars => TripStep
<1> SUFFICES ASSUME WInv, [Next]_vars PROVE TripStep
  OBVIOUS
<1>0. IInv
  BY DEF WInv
<1>1. ASSUME NEW n \in Node, Start(n) \/ Stop(n) \/ ExpireTimer(n) PROVE TripStep
  <2>1. CASE Stop(n)
    BY <2>1 DEF Stop, TripStep, Trips
  <2> QED
    BY <1>0, <1>1, <2>1, CommandTrip, ExpireTimerTrip
<1>2. ASSUME NEW link \in LateLinks, AddNeighbor(link[1], link[2]) PROVE TripStep
  BY <1>0, <1>2, CommandTrip, LateLinksAssumption
<1>3. ASSUME NEW p \in net, Receive(p) \/ LoseAnt(p) PROVE TripStep
  <2>1. CASE OverflowAnt(p) \/ DiscardAnt(p) \/ LoseAnt(p)
    BY <2>1, LostTrip DEF OverflowAnt, DiscardAnt, LoseAnt
  <2> QED
    BY <1>3, <2>1, ForwardTrip, RetraceTrip DEF Receive
<1>4. CASE Tick \/ UNCHANGED vars
  BY <1>4 DEF Tick, vars, TripStep, Trips
<1> QED
  BY <1>1, <1>2, <1>3, <1>4 DEF Next

\* ImplementsTrip: the agents, with packets, addresses, memory scans, a
\* time-to-live and drops, implement the trips of AntTrip.
THEOREM AgentsImplementTrips == Spec => ImplementsTrip
<1>1. Init => Trip!TripInit
  <2>1. Init => nbr \in [Node -> Seq(Node)] /\ rt = [n \in Node |-> [d \in Addr |-> NoRow]]
                 /\ {TripOf(p) : p \in net} = {}
    BY SetupAssumption DEF Init
  <2> QED
    BY <2>1 DEF Trip!TripInit, Trip!NoRow, NoRow
<1>2. WInv /\ [Next]_vars => [Trip!TripNext]_(Trip!tvars)
  BY NextTrip DEF TripStep, Trips, Trip!tvars
<1> QED
  BY <1>1, <1>2, WayInvariance, PTL DEF Spec, ImplementsTrip, Trip!TripSpec
=============================================================================
