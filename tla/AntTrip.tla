------------------------------ MODULE AntTrip ------------------------------
(***************************************************************************)
(* What the agents of a network promise of an ant, without its packet: it  *)
(* wanders from neighbour to neighbour on a path whose loops are removed   *)
(* as they close, turns where it was sent, comes back over exactly that    *)
(* path, and every node on the way back reinforces, once and in order, the *)
(* link to the next node of the path for all the destinations behind it.   *)
(* An ant may be lost at any moment; what it has reinforced until then     *)
(* stays.  AntNet is shown to implement this (Trip, in AntNetRefinement).  *)
(***************************************************************************)
EXTENDS Pheromone

CONSTANTS Node, Addr, Id

VARIABLES
  ants,   \* the ants under way
  nbr,    \* the neighbour lists
  rt      \* the routing tables

tvars == <<ants, nbr, rt>>

TripInit ==
  /\ ants = {}
  /\ nbr \in [Node -> Seq(Node)]
  /\ rt = [n \in Node |-> [d \in Addr |-> NoRow]]

\* A script command at node n: only n's table changes, and no link goes.
Configure(n) ==
  /\ \A m \in Node \ {n} : rt'[m] = rt[m]
  /\ \A m \in Node : Range(nbr[m]) \subseteq Range(nbr'[m])
  /\ UNCHANGED ants

Launch(n, to, id) ==
  /\ \A a \in ants : a.id # id
  /\ to # n
  /\ ants' = ants \cup {[id |-> id, to |-> to, path |-> <<n>>, pos |-> 1,
                         back |-> FALSE]}
  /\ UNCHANGED <<nbr, rt>>

\* The path after a step to m, and its loop, if it closed one, removed.
Extended(path, m) ==
  IF m \in Range(path)
    THEN SubSeq(path, 1, CHOOSE i \in DOMAIN path : path[i] = m)
    ELSE Append(path, m)

Explore(a, m) ==
  LET path == Extended(a.path, m)
  IN  /\ ~a.back
      /\ m \in Range(nbr[Last(a.path)]) \ {Last(a.path)}
      /\ ants' = (ants \ {a}) \cup
                   {[a EXCEPT !.path = path, !.pos = Len(path),
                              !.back = (m = a.to)]}
      /\ UNCHANGED <<nbr, rt>>

Retrace(a) ==
  LET n      == a.path[a.pos - 1]
      behind == {a.path[k] : k \in a.pos .. Len(a.path)}
  IN  /\ a.back
      /\ rt' = [rt EXCEPT ![n] = [d \in Addr |->
                  IF d \in behind THEN UpdateRow(rt[n][d], a.path[a.pos])
                                  ELSE rt[n][d]]]
      /\ ants' = (ants \ {a}) \cup
                   (IF a.pos = 2 THEN {} ELSE {[a EXCEPT !.pos = @ - 1]})
      /\ UNCHANGED nbr

Lose(a) == ants' = ants \ {a} /\ UNCHANGED <<nbr, rt>>

TripNext ==
  \/ \E n \in Node : Configure(n)
  \/ \E n \in Node, to \in Addr : \E id \in Id : Launch(n, to, id)
  \/ \E a \in ants : \E m \in Node : Explore(a, m)
  \/ \E a \in ants : Retrace(a) \/ Lose(a)

TripSpec == TripInit /\ [][TripNext]_tvars
=============================================================================
