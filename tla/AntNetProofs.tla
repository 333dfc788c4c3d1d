---------------------------- MODULE AntNetProofs ----------------------------
(***************************************************************************)
(* Theorems about AntNet, for every topology, every value of the constants *)
(* and any number of ants.                                                 *)
(***************************************************************************)
EXTENDS AntNet, TLAPS

----------------------------------------------------------------------------
(* Sequences.  The element set is a variable here, so that the provers need *)
(* not look into it. *)

\* A function on 1..n is a sequence.
LEMMA SeqIntro ==
  ASSUME NEW S, NEW n \in Nat, NEW f \in [1 .. n -> S]
  PROVE  f \in Seq(S) /\ Len(f) = n
OBVIOUS

\* What membership in Seq(S) gives.
LEMMA SeqElim ==
  ASSUME NEW S, NEW s \in Seq(S)
  PROVE  /\ Len(s) \in Nat
         /\ DOMAIN s = 1 .. Len(s)
         /\ \A k \in 1 .. Len(s) : s[k] \in S
         /\ s = <<>> <=> Len(s) = 0
OBVIOUS

\* Append adds one element behind the others.
LEMMA AppendElim ==
  ASSUME NEW S, NEW s \in Seq(S), NEW e \in S
  PROVE  /\ Append(s, e) \in Seq(S)
         /\ Len(Append(s, e)) = Len(s) + 1
         /\ \A k \in 1 .. Len(s) : Append(s, e)[k] = s[k]
         /\ Append(s, e)[Len(s) + 1] = e
OBVIOUS

\* Concatenation, element by element.
LEMMA ConcatElim ==
  ASSUME NEW S, NEW s \in Seq(S), NEW t \in Seq(S)
  PROVE  /\ s \o t \in Seq(S)
         /\ Len(s \o t) = Len(s) + Len(t)
         /\ \A k \in 1 .. Len(s) + Len(t) :
              (s \o t)[k] = IF k <= Len(s) THEN s[k] ELSE t[k - Len(s)]
OBVIOUS

\* A new element in front leaves every other one in the range.
LEMMA RangeOfPrepend ==
  ASSUME NEW S, NEW s \in Seq(S), NEW e \in S
  PROVE  <<e>> \o s \in Seq(S) /\ Range(<<e>> \o s) = Range(s) \cup {e}
<1> DEFINE t == <<e>> \o s
<1>1. /\ t \in Seq(S) /\ Len(t) = Len(s) + 1
      /\ t[1] = e
      /\ \A k \in 1 .. Len(s) : t[k + 1] = s[k]
  OBVIOUS
<1>2. DOMAIN t = 1 .. Len(s) + 1 /\ DOMAIN s = 1 .. Len(s) /\ Len(s) \in Nat
  BY <1>1, SeqElim
<1> HIDE DEF t
<1>3. Range(t) \subseteq Range(s) \cup {e}
  <2> SUFFICES ASSUME NEW k \in 1 .. Len(s) + 1
               PROVE  t[k] \in Range(s) \cup {e}
    BY <1>2 DEF Range
  <2>1. CASE k = 1
    BY <2>1, <1>1
  <2>2. CASE k # 1
    <3>1. k - 1 \in 1 .. Len(s) /\ t[(k - 1) + 1] = s[k - 1]
      BY <2>2, <1>1, <1>2
    <3>2. t[k] = s[k - 1]
      BY <3>1, <1>2
    <3> QED
      BY <3>1, <3>2, <1>2 DEF Range
  <2> QED
    BY <2>1, <2>2
<1>4. Range(s) \cup {e} \subseteq Range(t)
  <2>1. e \in Range(t)
    BY <1>1, <1>2 DEF Range
  <2>2. ASSUME NEW k \in 1 .. Len(s) PROVE s[k] \in Range(t)
    BY <1>1, <1>2, k + 1 \in 1 .. Len(s) + 1 DEF Range
  <2> QED
    BY <2>1, <2>2, <1>2 DEF Range
<1> QED
  BY <1>1, <1>3, <1>4 DEF t

----------------------------------------------------------------------------
(* Rows of a routing table. *)

\* Links: their fields, and a link with another value.
LEMMA LinkType ==
  /\ \A m \in Node, x \in Nat : [neighbor |-> m, num |-> x] \in Link
  /\ \A l \in Link : l.neighbor \in Node /\ l.num \in Nat
  /\ \A l \in Link : \A x : [l EXCEPT !.num = x] = [neighbor |-> l.neighbor, num |-> x]
BY DEF Link

\* Rows: their fields, and the rows that are built from them.
LEMMA RowType ==
  /\ \A d \in Nat \ {0}, l \in Seq(Link) : [den |-> d, link |-> l] \in Row
  /\ \A row \in Row : /\ row.den \in Nat \ {0} /\ row.link \in Seq(Link)
                      /\ DOMAIN row.link = 1 .. Len(row.link) /\ Len(row.link) \in Nat
                      /\ \A k \in DOMAIN row.link : row.link[k] \in Link
<1>1. ASSUME NEW row \in Row
      PROVE  row.den \in Nat \ {0} /\ row.link \in Seq(Link)
  BY DEF Row
<1>2. ASSUME NEW row \in Row
      PROVE  /\ DOMAIN row.link = 1 .. Len(row.link) /\ Len(row.link) \in Nat
             /\ \A k \in DOMAIN row.link : row.link[k] \in Link
  BY <1>1, SeqElim
<1> QED
  BY <1>1, <1>2 DEF Row

\* A destination without a row has a row without links.
LEMMA NoRowType == NoRow \in Row /\ NoRow.link = <<>>
<1>1. <<>> \in Seq(Link) /\ 1 \in Nat \ {0}
  OBVIOUS
<1> QED
  BY <1>1, RowType DEF NoRow

\* A row with every value in [0,1].
UnitRow(row) == \A k \in DOMAIN row.link : row.link[k].num <= row.den

(***************************************************************************)
(* add_entry for a non-empty list of neighbours gives a row with those     *)
(* links added and all values still in [0,1].                              *)
(***************************************************************************)
LEMMA AddEntriesProperties ==
  ASSUME NEW row \in Row, NEW nbs \in Seq(Node), nbs # <<>>
  PROVE  /\ AddEntries(row, nbs) \in Row
         /\ Neighbors(AddEntries(row, nbs)) \subseteq Neighbors(row) \cup Range(nbs)
         /\ UnitRow(row) => UnitRow(AddEntries(row, nbs))
<1> DEFINE n   == Len(nbs)
           N   == Len(row.link)
           old == [k \in DOMAIN row.link |-> [row.link[k] EXCEPT !.num = @ * n]]
           new == [k \in 1 .. n |-> [neighbor |-> nbs[k], num |-> row.den]]
           all == old \o new
<1>1. /\ n \in Nat \ {0} /\ DOMAIN nbs = 1 .. n
      /\ \A k \in 1 .. n : nbs[k] \in Node
  BY SeqElim
<1>2. /\ row.den \in Nat \ {0} /\ N \in Nat /\ DOMAIN row.link = 1 .. N
      /\ \A k \in 1 .. N : row.link[k] \in Link
  BY RowType
<1>3. AddEntries(row, nbs) = [den |-> row.den * n, link |-> all]
  BY DEF AddEntries
<1> HIDE DEF n, N
<1>4. ASSUME NEW k \in 1 .. N
      PROVE  /\ old[k] \in Link /\ old[k].neighbor = row.link[k].neighbor
             /\ old[k].num = row.link[k].num * n
  <2>1. row.link[k] \in Link /\ row.link[k].num * n \in Nat
    BY <1>1, <1>2, LinkType
  <2>2. old[k] = [row.link[k] EXCEPT !.num = row.link[k].num * n]
    BY <1>2
  <2> HIDE DEF old
  <2>3. old[k] = [neighbor |-> row.link[k].neighbor, num |-> row.link[k].num * n]
    BY <2>1, <2>2, LinkType
  <2> QED
    BY <2>1, <2>3, LinkType
<1>5. ASSUME NEW k \in 1 .. n
      PROVE  new[k] \in Link /\ new[k].neighbor = nbs[k] /\ new[k].num = row.den
  BY <1>1, <1>2, LinkType
<1>6. old \in Seq(Link) /\ Len(old) = N
  <2>1. old \in [1 .. N -> Link]
    BY <1>2, <1>4
  <2> QED
    BY <2>1, <1>2, SeqIntro
<1>7. new \in Seq(Link) /\ Len(new) = n
  <2>1. new \in [1 .. n -> Link]
    BY <1>5
  <2> QED
    BY <2>1, <1>1, SeqIntro
<1> HIDE DEF old, new
<1>8. /\ all \in Seq(Link) /\ Len(all) = N + n
      /\ \A k \in 1 .. N + n : all[k] = IF k <= N THEN old[k] ELSE new[k - N]
  BY <1>6, <1>7, ConcatElim
<1>9. DOMAIN all = 1 .. N + n
  BY <1>8, SeqElim
<1> HIDE DEF all
<1>10. row.den * n \in Nat \ {0}
  BY <1>1, <1>2
<1>11. AddEntries(row, nbs) \in Row
  BY <1>3, <1>8, <1>10, RowType
<1>12. ASSUME NEW k \in 1 .. N + n
       PROVE  /\ all[k].neighbor \in Neighbors(row) \cup Range(nbs)
              /\ UnitRow(row) => all[k].num <= row.den * n
  <2>1. CASE k <= N
    <3>1. k \in 1 .. N /\ all[k] = old[k]
      BY <2>1, <1>8, <1>2, <1>1
    <3>2. all[k].neighbor \in Neighbors(row)
      BY <3>1, <1>4, <1>2 DEF Neighbors
    <3>3. ASSUME UnitRow(row) PROVE all[k].num <= row.den * n
      <4>1. row.link[k].num \in Nat /\ row.link[k].num <= row.den
        BY <3>1, <3>3, <1>2, LinkType DEF UnitRow
      <4>2. row.link[k].num * n <= row.den * n
        BY <4>1, <1>1, <1>2
      <4> QED
        BY <4>2, <3>1, <1>4
    <3> QED
      BY <3>2, <3>3
  <2>2. CASE ~(k <= N)
    <3>1. k - N \in 1 .. n /\ all[k] = new[k - N]
      BY <2>2, <1>8, <1>2, <1>1
    <3>2. all[k].neighbor \in Range(nbs)
      BY <3>1, <1>5, <1>1 DEF Range
    <3>3. row.den <= row.den * n
      BY <1>1, <1>2
    <3> QED
      BY <3>1, <3>2, <3>3, <1>5
  <2> QED
    BY <2>1, <2>2
<1>13. Neighbors(AddEntries(row, nbs)) \subseteq Neighbors(row) \cup Range(nbs)
  <2> SUFFICES ASSUME NEW k \in 1 .. N + n
               PROVE  all[k].neighbor \in Neighbors(row) \cup Range(nbs)
    BY <1>3, <1>9 DEF Neighbors
  <2> QED
    BY <1>12
<1>14. UnitRow(row) => UnitRow(AddEntries(row, nbs))
  BY <1>3, <1>9, <1>12 DEF UnitRow
<1> QED
  BY <1>11, <1>13, <1>14

\* reinforce_pheromone and evaporate_pheromone stay in [0,1].
LEMMA UpdateArithmetic ==
  ASSUME NEW num \in Nat, NEW den \in Nat \ {0}
  PROVE  /\ Evaporate(num) \in Nat
         /\ num <= den => Reinforce(num, den) \in Nat
         /\ num <= den => Reinforce(num, den) <= den * RDen
         /\ num <= den => Evaporate(num) <= den * RDen
<1>1. RNum \in Nat /\ RDen \in Nat \ {0} /\ RNum <= RDen /\ RDen - RNum \in Nat
  BY RAssumption
<1>2. Evaporate(num) \in Nat
  BY <1>1 DEF Evaporate
<1>3. ASSUME num <= den
      PROVE  Reinforce(num, den) \in Nat /\ Reinforce(num, den) <= den * RDen
  <2>1. den - num \in Nat /\ RNum * (den - num) <= RDen * (den - num)
    BY <1>1, <1>3
  <2>2. RNum * (den - num) \in Nat /\ num * RDen \in Nat
    BY <1>1, <2>1
  <2>3. num * RDen + RDen * (den - num) = den * RDen
    BY <1>1, <1>3
  <2> QED
    BY <2>1, <2>2, <2>3, <1>1 DEF Reinforce
<1>4. ASSUME num <= den
      PROVE  Evaporate(num) <= den * RDen
  <2>1. (RDen - RNum) * num <= RDen * num
    BY <1>1
  <2>2. RDen * num <= RDen * den
    BY <1>1, <1>4
  <2> QED
    BY <1>1, <2>1, <2>2 DEF Evaporate
<1> QED
  BY <1>2, <1>3, <1>4

\* update leaves a row's links alone and its values in [0,1].
LEMMA UpdateRowProperties ==
  ASSUME NEW row \in Row, UnitRow(row), NEW next
  PROVE  /\ UpdateRow(row, next) \in Row
         /\ UnitRow(UpdateRow(row, next))
         /\ Neighbors(UpdateRow(row, next)) = Neighbors(row)
<1>1. CASE row.link = <<>>
  BY <1>1 DEF UpdateRow
<1>2. CASE row.link # <<>>
  <2> DEFINE N    == Len(row.link)
             new(k) == IF row.link[k].neighbor = next
                         THEN Reinforce(row.link[k].num, row.den)
                         ELSE Evaporate(row.link[k].num)
             upd  == [k \in DOMAIN row.link |->
                       [row.link[k] EXCEPT !.num =
                          IF row.link[k].neighbor = next
                            THEN Reinforce(@, row.den) ELSE Evaporate(@)]]
  <2>1. /\ row.den \in Nat \ {0} /\ N \in Nat /\ DOMAIN row.link = 1 .. N
        /\ \A k \in 1 .. N : row.link[k] \in Link
    BY RowType
  <2>2. UpdateRow(row, next) = [den |-> row.den * RDen, link |-> upd]
    BY <1>2 DEF UpdateRow
  <2> HIDE DEF N
  <2>3. ASSUME NEW k \in 1 .. N
        PROVE  /\ upd[k] \in Link
               /\ upd[k].neighbor = row.link[k].neighbor
               /\ upd[k].num <= row.den * RDen
    <3>1. /\ row.link[k] \in Link /\ row.link[k].num \in Nat
          /\ row.link[k].neighbor \in Node /\ row.link[k].num <= row.den
      BY <2>1, LinkType DEF UnitRow
    <3>2. new(k) \in Nat /\ new(k) <= row.den * RDen
      BY <3>1, <2>1, UpdateArithmetic
    <3>3. upd[k] = [row.link[k] EXCEPT !.num = new(k)]
      BY <2>1
    <3> HIDE DEF new, upd
    <3>4. upd[k] = [neighbor |-> row.link[k].neighbor, num |-> new(k)]
      BY <3>1, <3>3, LinkType
    <3> QED
      BY <3>1, <3>2, <3>4, LinkType
  <2>4. upd \in [1 .. N -> Link]
    BY <2>1, <2>3
  <2>5. DOMAIN upd = 1 .. N
    BY <2>1
  <2> HIDE DEF upd, new
  <2>6. upd \in Seq(Link)
    BY <2>4, <2>1, SeqIntro
  <2>7. row.den * RDen \in Nat \ {0}
    BY <2>1, RAssumption
  <2>8. UpdateRow(row, next) \in Row
    BY <2>2, <2>6, <2>7, RowType
  <2>9. UnitRow(UpdateRow(row, next))
    BY <2>2, <2>3, <2>5 DEF UnitRow
  <2>10. Neighbors(UpdateRow(row, next)) = Neighbors(row)
    BY <2>1, <2>2, <2>3, <2>5 DEF Neighbors
  <2> QED
    BY <2>8, <2>9, <2>10
<1> QED
  BY <1>1, <1>2

\* calc_next returns the parent or a link of the row.
LEMMA NextHopsProperties ==
  ASSUME NEW row, NEW parent, NEW next \in NextHops(row, parent)
  PROVE  next = parent \/ next \in Neighbors(row)
<1>1. PICK q \in QueueLengths(row) : next \in CalcNext(row, parent, q)
  BY DEF NextHops
<1>2. CASE next = parent
  BY <1>2
<1>3. CASE next # parent
  <2>1. \E k \in Candidates(row, parent) : next = row.link[k].neighbor
    BY <1>1, <1>3 DEF CalcNext
  <2> QED
    BY <2>1 DEF Candidates, Neighbors
<1> QED
  BY <1>2, <1>3

----------------------------------------------------------------------------
(* The memory of an ant. *)

\* Memory entries: their fields, and an entry with another trip time.
LEMMA MemEntryType ==
  /\ \A n \in Node, t \in Int : [node |-> n, trip |-> t] \in MemEntry
  /\ \A e \in MemEntry : e.node \in Node /\ e.trip \in Int
  /\ \A e \in MemEntry : \A t : [e EXCEPT !.trip = t] = [node |-> e.node, trip |-> t]
BY DEF MemEntry

\* A memory as the handlers leave it: within its bound, no node twice, and
\* consecutive nodes neighbours by the neighbour lists.
GoodMemory(mem, lists) ==
  /\ mem \in Seq(MemEntry)
  /\ Len(mem) \in 1 .. MaxNumNodes
  /\ \A i, j \in 1 .. Len(mem) : mem[i].node = mem[j].node => i = j
  /\ \A i \in 1 .. Len(mem) - 1 : mem[i + 1].node \in Range(lists[mem[i].node])

\* In such a memory both scans find a node at its only index.
LEMMA ScansAgree ==
  ASSUME NEW lists, NEW mem, GoodMemory(mem, lists), NEW i \in 1 .. Len(mem)
  PROVE  /\ IndicesOf(mem, mem[i].node) = {i}
         /\ FirstIndexOf(mem, mem[i].node) = i
         /\ LastIndexOf(mem, mem[i].node) = i
<1>1. DOMAIN mem = 1 .. Len(mem) /\ Len(mem) \in Nat
  BY SeqElim DEF GoodMemory
<1>2. IndicesOf(mem, mem[i].node) = {i}
  BY <1>1 DEF IndicesOf, GoodMemory
<1>3. \A k \in {i} : \A j \in {i} : k <= j /\ j <= k
  OBVIOUS
<1> QED
  BY <1>2, <1>3 DEF FirstIndexOf, LastIndexOf

\* memorize at a neighbour n of the last node: a good memory again, which
\* ends at n, starts where it did and has no other new node.
LEMMA MemorizeProperties ==
  ASSUME NEW lists, NEW mem, GoodMemory(mem, lists),
         NEW n \in Node, n \in Range(lists[Last(mem).node]),
         NEW time \in Int, ~MemoryFull(mem, n)
  PROVE  LET new == Memorize(mem, n, time)
         IN  /\ GoodMemory(new, lists)
             /\ new[Len(new)].node = n
             /\ new[1].node = mem[1].node
             /\ \A k \in 1 .. Len(new) :
                  new[k].node = n \/ \E j \in 1 .. Len(mem) : new[k].node = mem[j].node
             /\ n # mem[1].node => Len(new) >= 2
<1> DEFINE new == Memorize(mem, n, time)
           L   == Len(mem)
<1>1. /\ mem \in Seq(MemEntry) /\ L \in 1 .. MaxNumNodes /\ L \in Nat \ {0}
      /\ DOMAIN mem = 1 .. L
      /\ \A k \in 1 .. L : mem[k] \in MemEntry
  BY SeqElim, MaxNumNodesAssumption DEF GoodMemory
<1>2. CASE IndicesOf(mem, n) = {}
  <2>1. \A k \in 1 .. L : mem[k].node # n
    BY <1>2, <1>1 DEF IndicesOf
  <2>2. L + 1 \in 1 .. MaxNumNodes
    BY <1>1, <1>2, MaxNumNodesAssumption DEF MemoryFull
  <2> DEFINE e == [node |-> n, trip |-> time]
  <2>3. e \in MemEntry /\ e.node = n
    BY MemEntryType
  <2>4. new = Append(mem, e)
    BY <1>2 DEF Memorize
  <2> HIDE DEF e, new, L
  <2>5. /\ new \in Seq(MemEntry) /\ Len(new) = L + 1
        /\ \A k \in 1 .. L : new[k] = mem[k]
        /\ new[L + 1] = e
    BY <2>3, <2>4, <1>1, AppendElim DEF L
  <2>6. \A i, j \in 1 .. L + 1 : new[i].node = new[j].node => i = j
    <3>1. \A k \in 1 .. L + 1 : k = L + 1 \/ k \in 1 .. L
      BY <1>1
    <3> QED
      BY <3>1, <2>1, <2>3, <2>5 DEF GoodMemory, L
  <2>7. ASSUME NEW i \in 1 .. L
        PROVE  new[i + 1].node \in Range(lists[new[i].node])
    <3>1. CASE i = L
      BY <3>1, <2>3, <2>5, <1>1 DEF Last, L
    <3>2. CASE i # L
      <4>1. i \in 1 .. L - 1 /\ i + 1 \in 1 .. L
        BY <3>2, <1>1
      <4>2. mem[i + 1].node \in Range(lists[mem[i].node])
        BY <4>1 DEF GoodMemory, L
      <4> QED
        BY <4>1, <4>2, <2>5
    <3> QED
      BY <3>1, <3>2
  <2>8. GoodMemory(new, lists)
    BY <2>2, <2>5, <2>6, <2>7, <1>1 DEF GoodMemory
  <2>9. \A k \in 1 .. Len(new) :
          new[k].node = n \/ \E j \in 1 .. L : new[k].node = mem[j].node
    <3>1. \A k \in 1 .. L + 1 : k = L + 1 \/ k \in 1 .. L
      BY <1>1
    <3> QED
      BY <3>1, <2>3, <2>5
  <2>10. 1 \in 1 .. L /\ L + 1 >= 2
    BY <1>1
  <2> QED
    BY <2>3, <2>5, <2>8, <2>9, <2>10 DEF new, L
<1>3. CASE IndicesOf(mem, n) # {}
  <2>1. PICK i \in 1 .. L : mem[i].node = n
    BY <1>3, <1>1 DEF IndicesOf
  <2>2. FirstIndexOf(mem, n) = i
    BY <2>1, ScansAgree
  <2> DEFINE t == time - mem[i].trip
  <2>3. mem[i].trip \in Int /\ t \in Int
    BY <1>1, MemEntryType
  <2>4. new = [j \in 1 .. i |-> [mem[j] EXCEPT !.trip = @ + t]]
    BY <1>3, <2>2 DEF Memorize, EraseLoop
  <2> HIDE DEF t, new
  <2>5. i \in Nat \ {0} /\ i <= L /\ \A j \in 1 .. i : j \in 1 .. L
    BY <1>1
  <2>6. ASSUME NEW j \in 1 .. i
        PROVE  new[j] \in MemEntry /\ new[j].node = mem[j].node
    <3>1. mem[j] \in MemEntry /\ mem[j].trip + t \in Int
      BY <2>3, <2>5, <1>1, MemEntryType
    <3>2. new[j] = [mem[j] EXCEPT !.trip = mem[j].trip + t]
      BY <2>4
    <3>3. new[j] = [node |-> mem[j].node, trip |-> mem[j].trip + t]
      BY <3>1, <3>2, MemEntryType
    <3> QED
      BY <3>1, <3>3, MemEntryType
  <2>7. new \in [1 .. i -> MemEntry]
    BY <2>4, <2>6
  <2>8. new \in Seq(MemEntry) /\ Len(new) = i
    BY <2>5, <2>7, SeqIntro
  <2>9. \A j, k \in 1 .. i : new[j].node = new[k].node => j = k
    BY <2>5, <2>6 DEF GoodMemory, L
  <2>10. \A j \in 1 .. i - 1 : new[j + 1].node \in Range(lists[new[j].node])
    <3> SUFFICES ASSUME NEW j \in 1 .. i - 1
                 PROVE  new[j + 1].node \in Range(lists[new[j].node])
      OBVIOUS
    <3>1. j \in 1 .. i /\ j + 1 \in 1 .. i /\ j \in 1 .. L - 1
      BY <2>5, <1>1
    <3>2. mem[j + 1].node \in Range(lists[mem[j].node])
      BY <3>1 DEF GoodMemory, L
    <3> QED
      BY <3>1, <3>2, <2>6
  <2>11. i \in 1 .. MaxNumNodes
    BY <1>1, <2>5, MaxNumNodesAssumption
  <2>12. GoodMemory(new, lists)
    BY <2>8, <2>9, <2>10, <2>11 DEF GoodMemory
  <2>13. 1 \in 1 .. i /\ i \in 1 .. i /\ (i # 1 => i >= 2)
    BY <2>5
  <2> QED
    BY <2>1, <2>5, <2>6, <2>8, <2>12, <2>13 DEF new
<1> QED
  BY <1>2, <1>3

----------------------------------------------------------------------------
(* The inductive invariant. *)

(***************************************************************************)
(* A backward ant on its way from mem[i+1] to mem[i].                      *)
(***************************************************************************)
OnWayBack(p, i) ==
  /\ p.daddr = p.mem[i].node /\ p.saddr = p.mem[i + 1].node
  /\ p.laid = [k \in 1 .. Len(p.mem) - 1 - i |-> p.mem[Len(p.mem) - k].node]
  /\ p.src = p.mem[Len(p.mem)].node /\ p.dst = p.mem[1].node

AntOK(p, lists) ==
  /\ p \in Ant
  /\ GoodMemory(p.mem, lists)
  /\ p.daddr \in Range(lists[p.saddr])
  /\ p.dir = "DOWN" =>
       /\ p.saddr = p.mem[Len(p.mem)].node /\ p.src = p.mem[1].node
       /\ p.laid = <<>>
       /\ \A i \in 1 .. Len(p.mem) : p.mem[i].node # p.dst
  /\ p.dir = "UP" => \E i \in 1 .. Len(p.mem) - 1 : OnWayBack(p, i)

\* A table whose values are in [0,1] and whose links are listed.
TableOK(table, list) ==
  \A d \in Addr : /\ table[d] \in Row /\ UnitRow(table[d])
                  /\ Neighbors(table[d]) \subseteq Range(list)

(***************************************************************************)
(* TypeOK is not inductive: that a memory index is in range depends on     *)
(* where the ant is, and that evaporated pheromone is a natural number on  *)
(* its being in [0,1].                                                     *)
(***************************************************************************)
IInv ==
  /\ TypeOK
  /\ SymmetricLists(nbr)
  /\ \A n \in Node : TableOK(rt[n], nbr[n])
  /\ \A p \in net : AntOK(p, nbr)

\* The fields of an ant.
LEMMA AntType ==
  ASSUME NEW p \in Ant
  PROVE  /\ p.id \in Nat /\ p.dir \in {"DOWN", "UP"} /\ p.src \in Addr /\ p.dst \in Addr
         /\ p.mem \in Seq(MemEntry) /\ p.saddr \in Node /\ p.daddr \in Node
         /\ p.ttl \in Int /\ p.start \in Nat /\ p.walk \in Seq(Visit)
         /\ p.laid \in Seq(Node)
BY DEF Ant


\* One field of an ant replaced by a value of its type gives an ant.
LEMMA AntExcept ==
  /\ \A p \in Ant, n \in Node : /\ [p EXCEPT !.saddr = n] \in Ant
                                /\ [p EXCEPT !.daddr = n] \in Ant
  /\ \A p \in Ant, x \in Int : [p EXCEPT !.ttl = x] \in Ant
  /\ \A p \in Ant, d \in {"DOWN", "UP"} : [p EXCEPT !.dir = d] \in Ant
  /\ \A p \in Ant, a \in Addr : /\ [p EXCEPT !.src = a] \in Ant
                                /\ [p EXCEPT !.dst = a] \in Ant
  /\ \A p \in Ant, m \in Seq(MemEntry) : [p EXCEPT !.mem = m] \in Ant
  /\ \A p \in Ant, w \in Seq(Visit) : [p EXCEPT !.walk = w] \in Ant
  /\ \A p \in Ant, l \in Seq(Node) : [p EXCEPT !.laid = l] \in Ant
<1>1. \A p \in Ant, n \in Node : [p EXCEPT !.saddr = n] \in Ant /\ [p EXCEPT !.daddr = n] \in Ant
  BY DEF Ant
<1>2. \A p \in Ant, x \in Int : [p EXCEPT !.ttl = x] \in Ant
  BY DEF Ant
<1>3. \A p \in Ant, d \in {"DOWN", "UP"} : [p EXCEPT !.dir = d] \in Ant
  BY DEF Ant
<1>4. \A p \in Ant, a \in Addr : [p EXCEPT !.src = a] \in Ant /\ [p EXCEPT !.dst = a] \in Ant
  BY DEF Ant
<1>5. \A p \in Ant, m \in Seq(MemEntry) : [p EXCEPT !.mem = m] \in Ant
  BY DEF Ant
<1>6. \A p \in Ant, w \in Seq(Visit) : [p EXCEPT !.walk = w] \in Ant
  BY DEF Ant
<1>7. \A p \in Ant, l \in Seq(Node) : [p EXCEPT !.laid = l] \in Ant
  BY DEF Ant
<1> QED
  BY <1>1, <1>2, <1>3, <1>4, <1>5, <1>6, <1>7

\* What a node changes in an ant when it sends it.
LEMMA SentProperties ==
  ASSUME NEW p \in Ant, NEW next \in Node, NEW q, q = Sent(p, next)
  PROVE  /\ q \in Ant
         /\ q.saddr = p.daddr /\ q.daddr = next
         /\ q.dir = p.dir /\ q.src = p.src /\ q.dst = p.dst
         /\ q.mem = p.mem /\ q.laid = p.laid
         /\ q.id = p.id /\ q.ttl = p.ttl - 1 /\ q.walk = p.walk /\ q.start = p.start
<1>1. p.daddr \in Node /\ p.ttl - 1 \in Int
  BY AntType
<1> DEFINE a == [p EXCEPT !.saddr = p.daddr]
           b == [a EXCEPT !.daddr = next]
<1>2. q = [b EXCEPT !.ttl = p.ttl - 1]
  BY DEF Sent, Ant
<1>3. q \in Ant
  <2>1. a \in Ant
    BY <1>1, AntExcept
  <2> HIDE DEF a
  <2>2. b \in Ant
    BY <2>1, AntExcept
  <2> HIDE DEF b
  <2> QED
    BY <1>1, <1>2, <2>2, AntExcept
<1>4. /\ q.saddr = p.daddr /\ q.daddr = next
      /\ q.dir = p.dir /\ q.src = p.src /\ q.dst = p.dst
      /\ q.mem = p.mem /\ q.laid = p.laid
      /\ q.id = p.id /\ q.ttl = p.ttl - 1 /\ q.walk = p.walk /\ q.start = p.start
  BY DEF Sent, Ant
<1> QED
  BY <1>3, <1>4

\* What memorize changes in an ant.
LEMMA MemorizedProperties ==
  ASSUME NEW p \in Ant, clock \in Nat,
         Memorize(p.mem, p.daddr, clock - p.start) \in Seq(MemEntry)
  PROVE  LET q == Memorized(p)
         IN  /\ q \in Ant
             /\ q.mem = Memorize(p.mem, p.daddr, clock - p.start)
             /\ q.walk = Append(p.walk, [node |-> p.daddr, time |-> clock])
             /\ q.saddr = p.saddr /\ q.daddr = p.daddr
             /\ q.dir = p.dir /\ q.src = p.src /\ q.dst = p.dst
             /\ q.laid = p.laid
             /\ q.id = p.id /\ q.ttl = p.ttl /\ q.start = p.start
<1> DEFINE q == Memorized(p)
           m == Memorize(p.mem, p.daddr, clock - p.start)
           w == Append(p.walk, [node |-> p.daddr, time |-> clock])
<1>1. w \in Seq(Visit)
  <2>1. p.walk \in Seq(Visit) /\ [node |-> p.daddr, time |-> clock] \in Visit
    BY AntType DEF Visit
  <2> QED
    BY <2>1, AppendElim
<1>2. q = [p EXCEPT !.mem = m, !.walk = w]
  BY DEF Memorized, Ant
<1>3. m \in Seq(MemEntry)
  OBVIOUS
<1> HIDE DEF w, m, q
<1> DEFINE a == [p EXCEPT !.mem = m]
<1>4. q = [a EXCEPT !.walk = w]
  BY <1>2 DEF Ant
<1>5. q \in Ant
  <2>1. a \in Ant
    BY <1>3, AntExcept
  <2> HIDE DEF a
  <2> QED
    BY <1>1, <1>4, <2>1, AntExcept
<1>6. /\ q.mem = m /\ q.walk = w
      /\ q.saddr = p.saddr /\ q.daddr = p.daddr
      /\ q.dir = p.dir /\ q.src = p.src /\ q.dst = p.dst
      /\ q.laid = p.laid
      /\ q.id = p.id /\ q.ttl = p.ttl /\ q.start = p.start
  BY <1>2 DEF Ant
<1> QED
  BY <1>5, <1>6 DEF q, m, w

\* What create_backward_ant_pkt changes in an ant.
LEMMA ReversedProperties ==
  ASSUME NEW p \in Ant, NEW next \in Node, next = p.mem[Len(p.mem) - 1].node,
         NEW q, q = Reversed(p)
  PROVE  /\ q \in Ant
         /\ q.saddr = p.daddr /\ q.daddr = next
         /\ q.dir = "UP" /\ q.src = p.dst /\ q.dst = p.src
         /\ q.mem = p.mem /\ q.laid = p.laid
         /\ q.id = p.id /\ q.ttl = p.ttl - 1 /\ q.walk = p.walk /\ q.start = p.start
<1> DEFINE s == Sent(p, next)
<1>1. p.src \in Addr /\ p.dst \in Addr
  BY AntType
<1>2. /\ s \in Ant /\ s.saddr = p.daddr /\ s.daddr = next
      /\ s.mem = p.mem /\ s.laid = p.laid
      /\ s.id = p.id /\ s.ttl = p.ttl - 1 /\ s.walk = p.walk /\ s.start = p.start
  BY SentProperties
<1>3. q = [s EXCEPT !.dir = "UP", !.src = p.dst, !.dst = p.src]
  BY DEF Reversed
<1> HIDE DEF s
<1> DEFINE a == [s EXCEPT !.dir = "UP"]
           b == [a EXCEPT !.src = p.dst]
<1>4. q = [b EXCEPT !.dst = p.src]
  BY <1>2, <1>3 DEF Ant
<1>5. q \in Ant
  <2>1. a \in Ant
    BY <1>2, AntExcept
  <2> HIDE DEF a
  <2>2. b \in Ant
    BY <1>1, <2>1, AntExcept
  <2> HIDE DEF b
  <2> QED
    BY <1>1, <1>4, <2>2, AntExcept
<1>6. /\ q.saddr = s.saddr /\ q.daddr = s.daddr
      /\ q.dir = "UP" /\ q.src = p.dst /\ q.dst = p.src
      /\ q.mem = s.mem /\ q.laid = s.laid
      /\ q.id = s.id /\ q.ttl = s.ttl /\ q.walk = s.walk /\ q.start = s.start
  BY <1>2, <1>3 DEF Ant
<1> QED
  BY <1>2, <1>5, <1>6

----------------------------------------------------------------------------
(* The handlers keep every ant right. *)

\* Where a backward ant is: the scan of backward_ant_pkt finds the position.
LEMMA BackwardPosition ==
  ASSUME NEW lists, NEW p, AntOK(p, lists), p.dir = "UP"
  PROVE  \E i \in 1 .. Len(p.mem) - 1 :
           /\ OnWayBack(p, i)
           /\ PreviousIndex(p.mem, p.daddr) = i - 1
           /\ p.daddr # p.dst => i >= 2
<1>1. PICK i \in 1 .. Len(p.mem) - 1 : OnWayBack(p, i)
  BY DEF AntOK
<1>2. i \in 1 .. Len(p.mem) /\ i \in Nat \ {0}
  BY SeqElim DEF AntOK, GoodMemory
<1>3. LastIndexOf(p.mem, p.daddr) = i
  BY <1>1, <1>2, ScansAgree DEF AntOK, OnWayBack
<1>4. p.daddr # p.dst => i # 1
  BY <1>1 DEF OnWayBack
<1> QED
  BY <1>1, <1>2, <1>3, <1>4 DEF PreviousIndex

\* A forward ant that is passed on to a neighbour.
LEMMA ForwardedAnt ==
  ASSUME NEW lists, NEW p, AntOK(p, lists), clock \in Nat,
         p.dir = "DOWN", p.daddr # p.dst, ~MemoryFull(p.mem, p.daddr),
         NEW next \in Node, next \in Range(lists[p.daddr])
  PROVE  AntOK(Sent(Memorized(p), next), lists)
<1> DEFINE m == Memorize(p.mem, p.daddr, clock - p.start)
           r == Memorized(p)
           q == Sent(r, next)
<1>1. /\ p \in Ant /\ GoodMemory(p.mem, lists)
      /\ p.daddr \in Node /\ clock - p.start \in Int
      /\ p.daddr \in Range(lists[Last(p.mem).node])
  BY AntType DEF AntOK, Last
<1>2. /\ GoodMemory(m, lists) /\ m[Len(m)].node = p.daddr
      /\ m[1].node = p.mem[1].node
      /\ \A k \in 1 .. Len(m) :
           m[k].node = p.daddr \/ \E j \in 1 .. Len(p.mem) : m[k].node = p.mem[j].node
  BY <1>1, MemorizeProperties
<1> HIDE DEF m
<1>3. /\ r \in Ant /\ r.mem = m /\ r.daddr = p.daddr /\ r.dir = "DOWN"
      /\ r.src = p.src /\ r.dst = p.dst /\ r.laid = p.laid
  <2>1. m \in Seq(MemEntry)
    BY <1>2 DEF GoodMemory
  <2> QED
    BY <1>1, <2>1, MemorizedProperties DEF m
<1> HIDE DEF r
<1>4. /\ q \in Ant /\ q.saddr = p.daddr /\ q.daddr = next /\ q.dir = "DOWN"
      /\ q.src = p.src /\ q.dst = p.dst /\ q.mem = m /\ q.laid = p.laid
  BY <1>3, SentProperties
<1> HIDE DEF q
<1>5. /\ \A k \in 1 .. Len(m) : m[k].node # p.dst
      /\ p.src = p.mem[1].node /\ p.laid = <<>>
  BY <1>2 DEF AntOK
<1>6. AntOK(q, lists)
  BY <1>2, <1>4, <1>5 DEF AntOK
<1> QED
  BY <1>6 DEF q, r

\* A forward ant that has reached its destination and turns.
LEMMA TurnedAnt ==
  ASSUME NEW lists, NEW p, AntOK(p, lists), SymmetricLists(lists), clock \in Nat,
         p.dir = "DOWN", p.daddr = p.dst, ~MemoryFull(p.mem, p.daddr)
  PROVE  AntOK(Reversed(Memorized(p)), lists)
<1> DEFINE m == Memorize(p.mem, p.daddr, clock - p.start)
           L == Len(m)
           r == Memorized(p)
           q == Reversed(r)
<1>1. /\ p \in Ant /\ GoodMemory(p.mem, lists)
      /\ p.daddr \in Node /\ clock - p.start \in Int
      /\ p.daddr \in Range(lists[Last(p.mem).node])
  BY AntType DEF AntOK, Last
<1>2. p.daddr # p.mem[1].node
  BY DEF AntOK, GoodMemory
<1>3. /\ GoodMemory(m, lists) /\ m[L].node = p.daddr
      /\ m[1].node = p.mem[1].node /\ L >= 2
  BY <1>1, <1>2, MemorizeProperties
<1> HIDE DEF m
<1>4. /\ r \in Ant /\ r.mem = m /\ r.daddr = p.daddr
      /\ r.src = p.src /\ r.dst = p.dst /\ r.laid = p.laid
  <2>1. m \in Seq(MemEntry)
    BY <1>3 DEF GoodMemory
  <2> QED
    BY <1>1, <2>1, MemorizedProperties DEF m
<1> HIDE DEF r
<1>5. L \in Nat /\ L - 1 \in 1 .. L - 1 /\ L - 1 \in 1 .. L /\ (L - 1) + 1 = L /\ L \in 1 .. L
  BY <1>3, SeqElim DEF GoodMemory
<1>6. m[L - 1].node \in Node /\ m[L].node \in Node
  BY <1>3, <1>5, SeqElim, MemEntryType DEF GoodMemory
<1>7. /\ q \in Ant /\ q.saddr = p.daddr /\ q.daddr = m[L - 1].node
      /\ q.dir = "UP" /\ q.src = p.dst /\ q.dst = p.src
      /\ q.mem = m /\ q.laid = p.laid
  BY <1>4, <1>6, ReversedProperties
<1> HIDE DEF q
<1>8. m[L - 1].node \in Range(lists[m[L].node])
  <2>1. m[L].node \in Range(lists[m[L - 1].node])
    BY <1>3, <1>5 DEF GoodMemory
  <2> QED
    BY <2>1, <1>6 DEF SymmetricLists
<1>9. p.laid = [k \in 1 .. L - 1 - (L - 1) |-> m[L - k].node]
  <2>1. p.laid = <<>> /\ L - 1 - (L - 1) = 0
    BY <1>5 DEF AntOK
  <2> QED
    BY <2>1
<1>10. OnWayBack(q, L - 1)
  BY <1>3, <1>5, <1>7, <1>9 DEF OnWayBack, AntOK
<1>11. AntOK(q, lists)
  BY <1>3, <1>5, <1>7, <1>8, <1>10 DEF AntOK
<1> QED
  BY <1>11 DEF q, r

\* A backward ant that is sent on by a node that has updated its table.
LEMMA RetracingAnt ==
  ASSUME NEW lists, NEW p, AntOK(p, lists), SymmetricLists(lists),
         NEW i \in 1 .. Len(p.mem) - 1, OnWayBack(p, i), i >= 2, p.dir = "UP"
  PROVE  AntOK([Sent(p, p.mem[i - 1].node) EXCEPT !.laid = Append(@, p.daddr)], lists)
<1> DEFINE m == p.mem
           L == Len(m)
           s == Sent(p, m[i - 1].node)
           l == Append(p.laid, p.daddr)
           q == [s EXCEPT !.laid = l]
<1>1. p \in Ant /\ GoodMemory(m, lists) /\ p.laid \in Seq(Node) /\ p.daddr \in Node
  BY AntType DEF AntOK
<1>2. /\ L \in Nat /\ i \in 1 .. L /\ i \in Nat /\ i - 1 \in 1 .. L - 1
      /\ i - 1 \in 1 .. L /\ (i - 1) + 1 = i
  BY <1>1, SeqElim DEF GoodMemory
<1>3. m[i - 1].node \in Node /\ m[i].node \in Node
  BY <1>1, <1>2, SeqElim, MemEntryType DEF GoodMemory
<1>4. /\ s \in Ant /\ s.saddr = p.daddr /\ s.daddr = m[i - 1].node
      /\ s.dir = "UP" /\ s.src = p.src /\ s.dst = p.dst
      /\ s.mem = m /\ s.laid = p.laid
  <2> DEFINE next == m[i - 1].node
  <2>1. next \in Node /\ s = Sent(p, next)
    BY <1>3
  <2> HIDE DEF next, s
  <2>2. /\ s \in Ant /\ s.saddr = p.daddr /\ s.daddr = next
        /\ s.dir = p.dir /\ s.src = p.src /\ s.dst = p.dst
        /\ s.mem = p.mem /\ s.laid = p.laid
    BY <1>1, <2>1, SentProperties
  <2> QED
    BY <2>2 DEF next
<1>5. l \in Seq(Node)
  BY <1>1, AppendElim
<1>6. l = [k \in 1 .. L - 1 - (i - 1) |-> m[L - k].node]
  <2> DEFINE a == L - 1 - i
  <2>1. a \in Nat /\ L - 1 - (i - 1) = a + 1 /\ L - (a + 1) = i
    BY <1>2
  <2>2. p.laid = [k \in 1 .. a |-> m[L - k].node] /\ p.daddr = m[i].node
    BY DEF OnWayBack
  <2>3. Len(p.laid) = a
    <3>1. DOMAIN p.laid = 1 .. a /\ DOMAIN p.laid = 1 .. Len(p.laid) /\ Len(p.laid) \in Nat
      BY <1>1, <2>2, SeqElim
    <3> QED
      BY <3>1, <2>1
  <2>4. /\ Len(l) = a + 1 /\ l[a + 1] = m[i].node
        /\ \A k \in 1 .. a : l[k] = m[L - k].node
    BY <1>1, <2>2, <2>3, AppendElim
  <2>5. DOMAIN l = 1 .. a + 1 /\ l = [k \in DOMAIN l |-> l[k]]
    <3> HIDE DEF l, a
    <3>1. DOMAIN l = 1 .. Len(l) /\ l = [k \in DOMAIN l |-> l[k]]
      BY <1>5, SeqElim
    <3> QED
      BY <2>4, <3>1
  <2> HIDE DEF a, l
  <2>6. \A k \in 1 .. a + 1 : l[k] = m[L - k].node
    BY <2>1, <2>4
  <2> QED
    BY <2>1, <2>5, <2>6
<1> HIDE DEF s, l
<1>7. q = [s EXCEPT !.laid = Append(@, p.daddr)]
  BY <1>4 DEF l
<1>8. q \in Ant
  BY <1>4, <1>5, AntExcept
<1>9. /\ q.saddr = p.daddr /\ q.daddr = m[i - 1].node
      /\ q.dir = "UP" /\ q.src = p.src /\ q.dst = p.dst
      /\ q.mem = m /\ q.laid = l
  BY <1>4 DEF Ant
<1>10. q.daddr \in Range(lists[q.saddr])
  <2>1. m[i].node \in Range(lists[m[i - 1].node]) /\ p.daddr = m[i].node
    BY <1>1, <1>2 DEF GoodMemory, OnWayBack
  <2> QED
    BY <2>1, <1>3, <1>9 DEF SymmetricLists
<1> HIDE DEF q
<1>11. OnWayBack(q, i - 1)
  BY <1>2, <1>6, <1>9 DEF OnWayBack
<1>12. AntOK(q, lists)
  BY <1>1, <1>2, <1>8, <1>9, <1>10, <1>11 DEF AntOK
<1> QED
  BY <1>12, <1>7 DEF s

----------------------------------------------------------------------------
(* Tables and neighbour lists. *)

\* update_table leaves a table right, whatever the memory holds.
LEMMA UpdatedTableOK ==
  ASSUME NEW table, NEW list, TableOK(table, list), NEW mem, NEW n
  PROVE  /\ UpdatedTable(table, mem, n) \in [Addr -> Row]
         /\ TableOK(UpdatedTable(table, mem, n), list)
<1> DEFINE new == UpdatedTable(table, mem, n)
<1> SUFFICES ASSUME NEW d \in Addr
             PROVE  /\ new[d] \in Row /\ UnitRow(new[d])
                    /\ Neighbors(new[d]) \subseteq Range(list)
  BY DEF UpdatedTable, TableOK
<1>1. /\ table[d] \in Row /\ UnitRow(table[d])
      /\ Neighbors(table[d]) \subseteq Range(list)
  BY DEF TableOK
<1>2. new[d] = table[d] \/ new[d] = UpdateRow(table[d], LinkTravelled(mem, n))
  BY DEF UpdatedTable
<1> QED
  BY <1>1, <1>2, UpdateRowProperties

\* So does initialize_rtable.
LEMMA InitializedTableOK ==
  ASSUME NEW n \in Node, rt[n] \in [Addr -> Row], nbr[n] \in Seq(Node),
         TableOK(rt[n], nbr[n])
  PROVE  /\ InitializedTable(n) \in [Addr -> Row]
         /\ TableOK(InitializedTable(n), nbr[n])
<1>1. CASE nbr[n] = <<>>
  BY <1>1 DEF InitializedTable
<1>2. CASE nbr[n] # <<>>
  <2> DEFINE new == InitializedTable(n)
  <2>1. new = [d \in Addr |-> IF d \in Dest \ {n} THEN AddEntries(rt[n][d], nbr[n])
                                                 ELSE rt[n][d]]
    BY <1>2 DEF InitializedTable
  <2> HIDE DEF new
  <2>2. ASSUME NEW d \in Addr
        PROVE  /\ new[d] \in Row /\ UnitRow(new[d])
               /\ Neighbors(new[d]) \subseteq Range(nbr[n])
    <3>1. /\ rt[n][d] \in Row /\ UnitRow(rt[n][d])
          /\ Neighbors(rt[n][d]) \subseteq Range(nbr[n])
      BY DEF TableOK
    <3>2. new[d] = rt[n][d] \/ new[d] = AddEntries(rt[n][d], nbr[n])
      BY <2>1
    <3> QED
      BY <1>2, <3>1, <3>2, AddEntriesProperties
  <2> QED
    BY <2>1, <2>2 DEF TableOK, new
<1> QED
  BY <1>1, <1>2

\* Nothing that holds by the neighbour lists is lost when they grow.
LEMMA GrowingLists ==
  ASSUME NEW lists, NEW more,
         \A n \in Node : Range(lists[n]) \subseteq Range(more[n])
  PROVE  /\ \A p : AntOK(p, lists) => AntOK(p, more)
         /\ \A n \in Node : \A table :
              TableOK(table, lists[n]) => TableOK(table, more[n])
<1>1. ASSUME NEW p, AntOK(p, lists)
      PROVE  AntOK(p, more)
  <2>1. p \in Ant /\ GoodMemory(p.mem, lists) /\ p.saddr \in Node
    BY <1>1, AntType DEF AntOK
  <2>2. \A i \in 1 .. Len(p.mem) - 1 : i \in 1 .. Len(p.mem) /\ p.mem[i].node \in Node
    BY <2>1, SeqElim, MemEntryType DEF GoodMemory
  <2>3. GoodMemory(p.mem, more)
    BY <2>1, <2>2 DEF GoodMemory
  <2> QED
    BY <1>1, <2>1, <2>3 DEF AntOK
<1>2. \A n \in Node : \A table :
        TableOK(table, lists[n]) => TableOK(table, more[n])
  BY DEF TableOK
<1> QED
  BY <1>1, <1>2

\* One addNeighbor adds one element to the range of one list.
LEMMA WithNeighborProperties ==
  ASSUME NEW lists \in [Node -> Seq(Node)], NEW m \in Node, NEW n \in Node
  PROVE  LET new == WithNeighbor(lists, m, n)
         IN  /\ new \in [Node -> Seq(Node)]
             /\ \A k \in Node : \A a :
                  a \in Range(new[k]) <=> a \in Range(lists[k]) \/ (k = m /\ a = n)
<1> DEFINE new == WithNeighbor(lists, m, n)
           list == <<n>> \o lists[m]
<1>1. list \in Seq(Node) /\ Range(list) = Range(lists[m]) \cup {n}
  BY RangeOfPrepend
<1>2. new = [lists EXCEPT ![m] = list]
  BY DEF WithNeighbor
<1> HIDE DEF list, new
<1>3. /\ new \in [Node -> Seq(Node)] /\ new[m] = list
      /\ \A k \in Node \ {m} : new[k] = lists[k]
  BY <1>1, <1>2
<1> QED
  BY <1>1, <1>3 DEF new

\* add-neighbor keeps the lists symmetric and takes nothing from them.
LEMMA AddedNeighbor ==
  ASSUME NEW lists \in [Node -> Seq(Node)], SymmetricLists(lists),
         NEW m \in Node, NEW n \in Node
  PROVE  LET new == WithNeighbor(WithNeighbor(lists, m, n), n, m)
         IN  /\ new \in [Node -> Seq(Node)]
             /\ SymmetricLists(new)
             /\ \A k \in Node : Range(lists[k]) \subseteq Range(new[k])
<1> DEFINE new == WithNeighbor(WithNeighbor(lists, m, n), n, m)
           one == WithNeighbor(lists, m, n)
<1>1. /\ one \in [Node -> Seq(Node)]
      /\ \A k \in Node : \A a :
           a \in Range(one[k]) <=> a \in Range(lists[k]) \/ (k = m /\ a = n)
  BY WithNeighborProperties
<1>2. /\ new \in [Node -> Seq(Node)]
      /\ \A k \in Node : \A a :
           a \in Range(new[k]) <=> a \in Range(one[k]) \/ (k = n /\ a = m)
  <2>1. new = WithNeighbor(one, n, m)
    OBVIOUS
  <2> HIDE DEF new, one
  <2> QED
    BY <1>1, <2>1, WithNeighborProperties
<1> HIDE DEF new, one
<1>3. \A k \in Node : \A a :
        a \in Range(new[k]) <=>
          a \in Range(lists[k]) \/ (k = m /\ a = n) \/ (k = n /\ a = m)
  <2> SUFFICES ASSUME NEW k \in Node, NEW a
               PROVE  a \in Range(new[k]) <=>
                        a \in Range(lists[k]) \/ (k = m /\ a = n) \/ (k = n /\ a = m)
    OBVIOUS
  <2>1. a \in Range(one[k]) <=> a \in Range(lists[k]) \/ (k = m /\ a = n)
    BY <1>1
  <2>2. a \in Range(new[k]) <=> a \in Range(one[k]) \/ (k = n /\ a = m)
    BY <1>2
  <2> QED
    BY <2>1, <2>2
<1>4. SymmetricLists(new)
  BY <1>3 DEF SymmetricLists
<1> QED
  BY <1>2, <1>3, <1>4 DEF new

----------------------------------------------------------------------------
(* The steps keep the inductive invariant. *)

\* Handlers change only tables, counters and ants.
LEMMA HandlerStep ==
  ASSUME IInv, UNCHANGED nbr,
         rt' \in [Node -> [Addr -> Row]], \A n \in Node : TableOK(rt'[n], nbr[n]),
         timer' \in [Node -> BOOLEAN], starts' \in [Node -> Nat],
         launched' \in Nat, clock' \in Nat,
         \A p \in net' : p \in net \/ AntOK(p, nbr)
  PROVE  IInv'
<1>1. \A p \in net' : AntOK(p, nbr)
  BY DEF IInv
<1>2. net' \subseteq Ant
  BY <1>1 DEF AntOK
<1> QED
  BY <1>1, <1>2 DEF IInv, TypeOK

\* A handler that leaves tables, timers and counters alone.
LEMMA AntStep ==
  ASSUME IInv, UNCHANGED <<nbr, rt, timer, starts, launched, clock>>,
         \A p \in net' : p \in net \/ AntOK(p, nbr)
  PROVE  IInv'
BY HandlerStep DEF IInv, TypeOK

\* Before any start: symmetric lists, no rows, no ants.
LEMMA InitIInv == Init => IInv
<1> SUFFICES ASSUME Init PROVE IInv
  OBVIOUS
<1>1. UnitRow(NoRow) /\ Neighbors(NoRow) = {}
  BY NoRowType DEF UnitRow, Neighbors
<1>2. nbr \in [Node -> Seq(Node)] /\ SymmetricLists(nbr)
  BY SetupAssumption DEF Init
<1>3. rt \in [Node -> [Addr -> Row]] /\ \A n \in Node : TableOK(rt[n], nbr[n])
  BY <1>1, NoRowType DEF Init, TableOK
<1> QED
  BY <1>2, <1>3 DEF Init, IInv, TypeOK

\* start: equal pheromone for the listed neighbours, added to what is there.
LEMMA StartIInv ==
  ASSUME IInv, NEW n \in Node, Start(n) PROVE IInv'
<1>1. /\ InitializedTable(n) \in [Addr -> Row]
      /\ TableOK(InitializedTable(n), nbr[n])
  BY InitializedTableOK DEF IInv, TypeOK
<1>2. rt' \in [Node -> [Addr -> Row]] /\ \A m \in Node : TableOK(rt'[m], nbr[m])
  BY <1>1 DEF Start, IInv, TypeOK
<1> QED
  BY <1>2, HandlerStep DEF Start, IInv, TypeOK

\* stop: nothing the invariant is about changes.
LEMMA StopIInv ==
  ASSUME IInv, NEW n \in Node, Stop(n) PROVE IInv'
BY HandlerStep DEF Stop, IInv, TypeOK

\* add-neighbor: the lists grow, so tables and ants stay right.
LEMMA AddNeighborIInv ==
  ASSUME IInv, NEW m \in Node, NEW n \in Node, AddNeighbor(m, n) PROVE IInv'
<1>1. /\ nbr' \in [Node -> Seq(Node)]
      /\ SymmetricLists(nbr')
      /\ \A k \in Node : Range(nbr[k]) \subseteq Range(nbr'[k])
  <2>1. nbr \in [Node -> Seq(Node)] /\ SymmetricLists(nbr)
    BY DEF IInv, TypeOK
  <2>2. nbr' = WithNeighbor(WithNeighbor(nbr, m, n), n, m)
    BY DEF AddNeighbor
  <2> DEFINE new == WithNeighbor(WithNeighbor(nbr, m, n), n, m)
  <2>3. /\ new \in [Node -> Seq(Node)]
        /\ SymmetricLists(new)
        /\ \A k \in Node : Range(nbr[k]) \subseteq Range(new[k])
    BY <2>1, AddedNeighbor
  <2> QED
    BY <2>2, <2>3
<1>2. \A p \in net : AntOK(p, nbr')
  BY <1>1, GrowingLists DEF IInv
<1>3. \A k \in Node : TableOK(rt[k], nbr'[k])
  BY <1>1, GrowingLists DEF IInv
<1> QED
  BY <1>1, <1>2, <1>3 DEF AddNeighbor, IInv, TypeOK

\* A freshly launched ant is right.
LEMMA LaunchedAnt ==
  ASSUME IInv, NEW n \in Node, NEW dst \in Dest \ {n}, NEW next \in Node,
         next \in Range(nbr[n])
  PROVE  AntOK(NewAnt(n, dst, next), nbr)
<1> DEFINE e == [node |-> n, trip |-> 0]
           v == [node |-> n, time |-> clock]
           q == NewAnt(n, dst, next)
<1>1. /\ e \in MemEntry /\ <<e>> \in Seq(MemEntry)
      /\ Len(<<e>>) = 1 /\ <<e>>[1] = e /\ e.node = n
  BY MemEntryType
<1>2. v \in Visit /\ <<v>> \in Seq(Visit)
  BY DEF Visit, IInv, TypeOK
<1> HIDE DEF e, v
<1>3. q = [id |-> launched + 1, dir |-> "DOWN", src |-> n, dst |-> dst,
           mem |-> <<e>>, saddr |-> n, daddr |-> next, ttl |-> 2 * NumNodes,
           start |-> clock, walk |-> <<v>>, laid |-> <<>>]
  BY DEF NewAnt, e, v
<1>4. /\ launched + 1 \in Nat /\ clock \in Nat /\ 2 * NumNodes \in Int
      /\ n \in Addr /\ dst \in Addr /\ <<>> \in Seq(Node)
  BY NumNodesAssumption DEF IInv, TypeOK, Addr
<1> HIDE DEF q
<1>5. q \in Ant
  BY <1>1, <1>2, <1>3, <1>4 DEF Ant
<1>6. 1 \in 1 .. MaxNumNodes
  BY MaxNumNodesAssumption
<1>7. GoodMemory(<<e>>, nbr)
  BY <1>1, <1>6 DEF GoodMemory
<1>8. AntOK(q, nbr)
  BY <1>1, <1>3, <1>5, <1>7 DEF AntOK
<1> QED
  BY <1>8 DEF q

\* The ant timer expires: the ant launched is right.
LEMMA ExpireTimerIInv ==
  ASSUME IInv, NEW n \in Node, ExpireTimer(n) PROVE IInv'
<1>1. PICK dst \in Dest \ {n} : \E next \in NextHops(rt[n][dst], n) :
        net' = net \cup (IF next = n THEN {} ELSE {NewAnt(n, dst, next)})
  BY DEF ExpireTimer
<1>2. PICK next \in NextHops(rt[n][dst], n) :
        net' = net \cup (IF next = n THEN {} ELSE {NewAnt(n, dst, next)})
  BY <1>1
<1>3. CASE next = n
  BY <1>2, <1>3, HandlerStep DEF ExpireTimer, IInv, TypeOK
<1>4. CASE next # n
  <2>1. next \in Neighbors(rt[n][dst])
    BY <1>4, NextHopsProperties
  <2>2. next \in Range(nbr[n]) /\ nbr[n] \in Seq(Node) /\ dst \in Addr
    BY <2>1 DEF IInv, TypeOK, TableOK, Addr
  <2>3. next \in Node
    BY <2>2, SeqElim DEF Range
  <2>4. AntOK(NewAnt(n, dst, next), nbr)
    BY <2>2, <2>3, LaunchedAnt
  <2> QED
    BY <1>2, <1>4, <2>4, HandlerStep DEF ExpireTimer, IInv, TypeOK
<1> QED
  BY <1>3, <1>4

\* A forward ant is passed on, or freed at a dead end.
LEMMA ForwardAntIInv ==
  ASSUME IInv, NEW p \in net, ForwardAnt(p) PROVE IInv'
<1>1. AntOK(p, nbr) /\ p.daddr \in Node /\ p.dst \in Addr
  BY AntType DEF IInv, AntOK
<1>2. PICK next \in NextHops(rt[p.daddr][p.dst], p.saddr) :
        net' = (net \ {p}) \cup (IF next \in {p.daddr, p.saddr} THEN {}
                                 ELSE {Sent(Memorized(p), next)})
  BY DEF ForwardAnt
<1>3. CASE next \in {p.daddr, p.saddr}
  BY <1>2, <1>3, AntStep DEF ForwardAnt
<1>4. CASE next \notin {p.daddr, p.saddr}
  <2>1. next \in Neighbors(rt[p.daddr][p.dst])
    BY <1>4, NextHopsProperties
  <2>2. next \in Range(nbr[p.daddr]) /\ nbr[p.daddr] \in Seq(Node)
    BY <1>1, <2>1 DEF IInv, TypeOK, TableOK
  <2>3. next \in Node
    BY <2>2, SeqElim DEF Range
  <2>4. AntOK(Sent(Memorized(p), next), nbr)
    BY <1>1, <2>2, <2>3, ForwardedAnt DEF ForwardAnt, IInv, TypeOK
  <2> QED
    BY <1>2, <1>4, <2>4, AntStep DEF ForwardAnt
<1> QED
  BY <1>3, <1>4

\* A forward ant turns at its destination.
LEMMA TurnAntIInv ==
  ASSUME IInv, NEW p \in net, TurnAnt(p) PROVE IInv'
<1>1. AntOK(Reversed(Memorized(p)), nbr)
  BY TurnedAnt DEF TurnAnt, IInv, TypeOK
<1> QED
  BY <1>1, AntStep DEF TurnAnt

\* The tables after a backward ant has been at n.
LEMMA UpdatedTables ==
  ASSUME IInv, NEW n \in Node, NEW mem,
         rt' = [rt EXCEPT ![n] = UpdatedTable(@, mem, n)]
  PROVE  rt' \in [Node -> [Addr -> Row]] /\ \A m \in Node : TableOK(rt'[m], nbr[m])
<1>1. /\ UpdatedTable(rt[n], mem, n) \in [Addr -> Row]
      /\ TableOK(UpdatedTable(rt[n], mem, n), nbr[n])
  BY UpdatedTableOK DEF IInv
<1> QED
  BY <1>1 DEF IInv, TypeOK

\* A backward ant updates a table on its way.
LEMMA BackwardAntIInv ==
  ASSUME IInv, NEW p \in net, BackwardAnt(p) PROVE IInv'
<1>1. /\ AntOK(p, nbr) /\ p.daddr \in Node
      /\ p.dir = "UP" /\ p.daddr # p.dst
  BY AntType DEF BackwardAnt, IInv, AntOK
<1>2. PICK i \in 1 .. Len(p.mem) - 1 :
        OnWayBack(p, i) /\ PreviousIndex(p.mem, p.daddr) = i - 1 /\ i >= 2
  BY <1>1, BackwardPosition
<1>3. ~(i - 1 < 1)
  BY <1>2
<1> DEFINE q == [Sent(p, p.mem[i - 1].node) EXCEPT !.laid = Append(@, p.daddr)]
<1>4. net' = (net \ {p}) \cup {q}
  BY <1>2, <1>3 DEF BackwardAnt
<1>5. AntOK(q, nbr)
  BY <1>1, <1>2, RetracingAnt DEF IInv
<1> HIDE DEF q
<1>6. rt' \in [Node -> [Addr -> Row]] /\ \A m \in Node : TableOK(rt'[m], nbr[m])
  BY <1>1, UpdatedTables DEF BackwardAnt
<1> QED
  BY <1>4, <1>5, <1>6, HandlerStep DEF BackwardAnt, IInv, TypeOK

\* A backward ant updates its source's table and ends.
LEMMA FinishAntIInv ==
  ASSUME IInv, NEW p \in net, FinishAnt(p) PROVE IInv'
<1>1. p.daddr \in Node
  BY AntType DEF IInv, AntOK
<1>2. rt' \in [Node -> [Addr -> Row]] /\ \A m \in Node : TableOK(rt'[m], nbr[m])
  BY <1>1, UpdatedTables DEF FinishAnt
<1> QED
  BY <1>2, HandlerStep DEF FinishAnt, IInv, TypeOK

\* An ant is dropped.
LEMMA DropIInv ==
  ASSUME IInv, NEW p \in net, OverflowAnt(p) \/ DiscardAnt(p) \/ LoseAnt(p)
  PROVE  IInv'
BY AntStep DEF OverflowAnt, DiscardAnt, LoseAnt

\* Time passes.
LEMMA TickIInv ==
  ASSUME IInv, Tick PROVE IInv'
BY HandlerStep DEF Tick, IInv, TypeOK

\* Nothing happens.
LEMMA StutterIInv ==
  ASSUME IInv, UNCHANGED vars PROVE IInv'
BY HandlerStep DEF vars, IInv, TypeOK

\* Every step keeps the invariant.
LEMMA NextIInv == IInv /\ [Next]_vars => IInv'
<1> SUFFICES ASSUME IInv, [Next]_vars PROVE IInv'
  OBVIOUS
<1>1. ASSUME NEW n \in Node, Start(n) \/ Stop(n) \/ ExpireTimer(n) PROVE IInv'
  BY <1>1, StartIInv, StopIInv, ExpireTimerIInv
<1>2. ASSUME NEW link \in LateLinks, AddNeighbor(link[1], link[2]) PROVE IInv'
  BY <1>2, AddNeighborIInv, LateLinksAssumption
<1>3. ASSUME NEW p \in net, Receive(p) \/ LoseAnt(p) PROVE IInv'
  BY <1>3, ForwardAntIInv, TurnAntIInv, BackwardAntIInv, FinishAntIInv, DropIInv
     DEF Receive
<1> QED
  BY <1>1, <1>2, <1>3, TickIInv, StutterIInv DEF Next

----------------------------------------------------------------------------
(* The theorems. *)

\* The inductive invariant holds in every behaviour, and with it each of the
\* invariants below.
THEOREM Invariance == Spec => []IInv
BY InitIInv, NextIInv, PTL DEF Spec

\* TypeOK: no handler ever reads a memory outside its bounds, sends to what
\* is not a node or computes a pheromone that is not a number >= 0.
THEOREM TypeCorrect == Spec => []TypeOK
<1>1. IInv => TypeOK
  BY DEF IInv
<1> QED
  BY <1>1, Invariance, PTL

\* MemoryBounded: pkt_memory_ never overflows and holds no node twice.
THEOREM BoundedMemory == Spec => []MemoryBounded
<1>1. IInv => MemoryBounded
  <2> SUFFICES ASSUME IInv, NEW p \in net
               PROVE  /\ Len(p.mem) \in 1 .. MaxNumNodes
                      /\ \A i, j \in DOMAIN p.mem :
                           p.mem[i].node = p.mem[j].node => i = j
    BY DEF MemoryBounded
  <2>1. GoodMemory(p.mem, nbr)
    BY DEF IInv, AntOK
  <2>2. DOMAIN p.mem = 1 .. Len(p.mem)
    BY <2>1, SeqElim DEF GoodMemory
  <2> QED
    BY <2>1, <2>2 DEF GoodMemory
<1> QED
  BY <1>1, Invariance, PTL

\* HopsFollowLinks: an ant is only ever sent over a link of its sender.
THEOREM AntsFollowLinks == Spec => []HopsFollowLinks
<1>1. IInv => HopsFollowLinks
  BY DEF IInv, AntOK, HopsFollowLinks
<1> QED
  BY <1>1, Invariance, PTL

\* BackwardRetracesMemory: update_table and backward_ant_pkt always find
\* their node with the entries they need, and no node of the way back is
\* skipped or repeated.
THEOREM BackwardRetraces == Spec => []BackwardRetracesMemory
<1>1. IInv => BackwardRetracesMemory
  BY DEF IInv, AntOK, OnWayBack, BackwardRetracesMemory, Last
<1> QED
  BY <1>1, Invariance, PTL

\* PheromoneInUnit: for every r_factor_ in [0,1] and every history of
\* starts, added neighbours and updates, pheromone values stay in [0,1].
THEOREM PheromoneBounded == Spec => []PheromoneInUnit
<1>1. IInv => PheromoneInUnit
  BY DEF IInv, TableOK, UnitRow, PheromoneInUnit
<1> QED
  BY <1>1, Invariance, PTL
=============================================================================
