----------------------------- MODULE AntMemory -----------------------------
(***************************************************************************)
(* The memory an ant carries (struct memory, ant_pkt.h): the nodes of its  *)
(* path so far, each with the trip time from the source, in a sequence of  *)
(* at most MaxNumNodes entries.  Entry i here is pkt_memory_[i-1]; Len is  *)
(* pkt_mem_size_.                                                          *)
(***************************************************************************)
EXTENDS Integers, Sequences

CONSTANT MaxNumNodes        \* MAX_NUM_NODES, the size of pkt_memory_

ASSUME MaxNumNodesAssumption == MaxNumNodes \in Nat \ {0}

IndicesOf(mem, n) == {i \in DOMAIN mem : mem[i].node = n}

\* The scans of memorize and update_table run upwards, the one of
\* backward_ant_pkt downwards.
FirstIndexOf(mem, n) ==
  CHOOSE i \in IndicesOf(mem, n) : \A j \in IndicesOf(mem, n) : i <= j

LastIndexOf(mem, n) ==
  CHOOSE i \in IndicesOf(mem, n) : \A j \in IndicesOf(mem, n) : j <= i

MemoryFullLate(mem, n) ==       \* mutant: the bound is off by one
  IndicesOf(mem, n) = {} /\ Len(mem) > MaxNumNodes

(***************************************************************************)
(* memorize.  A revisited node closes a loop: the memory is cut back to    *)
(* its entry, and every trip time kept is moved forward by the time the    *)
(* loop took.  A new node is appended, if there is room.                   *)
(***************************************************************************)
MemoryFull(mem, n) == IndicesOf(mem, n) = {} /\ Len(mem) >= MaxNumNodes

EraseLoopLong(mem, n, time) ==  \* mutant: keeps the first node of the loop
  LET i == FirstIndexOf(mem, n)
      t == time - mem[i].trip
      last == IF i < Len(mem) THEN i + 1 ELSE i
  IN  [j \in 1..last |-> [mem[j] EXCEPT !.trip = @ + t]]

EraseLoopUnshifted(mem, n, time) ==  \* mutant: only the last entry is shifted
  LET i == FirstIndexOf(mem, n)
  IN  [j \in 1..i |-> IF j = i THEN [mem[j] EXCEPT !.trip = time] ELSE mem[j]]

EraseLoop(mem, n, time) ==
  LET i == FirstIndexOf(mem, n)
      t == time - mem[i].trip
  IN  [j \in 1..i |-> [mem[j] EXCEPT !.trip = @ + t]]

Memorize(mem, n, time) ==
  IF IndicesOf(mem, n) # {} THEN EraseLoop(mem, n, time)
                            ELSE Append(mem, [node |-> n, trip |-> time])

(***************************************************************************)
(* What a node on the way back reads from the memory: the node it left     *)
(* through (update_table), the destinations reached through that node, and *)
(* the position of the node before it (backward_ant_pkt).  A node that is  *)
(* not in the memory would make update_table scan past its end; the        *)
(* invariant BackwardRetracesMemory of AntNet is that this never happens.  *)
(***************************************************************************)
LinkTravelled(mem, n) == mem[FirstIndexOf(mem, n) + 1].node

ReachedAnywhere(mem, n) ==      \* mutant: the loop starts at the first entry
  {mem[k].node : k \in DOMAIN mem}

ReachedThrough(mem, n) ==
  {mem[k].node : k \in FirstIndexOf(mem, n) + 1 .. Len(mem)}

PreviousFromEnd(mem, n) ==      \* mutant: the index of create_backward_ant_pkt
  Len(mem) - 2

PreviousIndex(mem, n) == LastIndexOf(mem, n) - 1
=============================================================================
