-------------------------- MODULE AntNetRefinement --------------------------
(***************************************************************************)
(* AntNet implements AntTrip: an ant packet stands for the trip whose path *)
(* is the packet's memory; its position is the node that sent it last.     *)
(***************************************************************************)
EXTENDS AntNet

PathOf(p) == [i \in DOMAIN p.mem |-> p.mem[i].node]

TripOf(p) ==
  [id   |-> p.id,
   to   |-> IF p.dir = "DOWN" THEN p.dst ELSE p.src,
   path |-> PathOf(p),
   pos  |-> LastIndexOf(p.mem, p.saddr),
   back |-> p.dir = "UP"]

Trip == INSTANCE AntTrip WITH ants <- {TripOf(p) : p \in net},
                             Id <- 1 .. MaxLaunch

\* Every step of the agents, with the packet's addresses, its time-to-live,
\* its memory scans and its drops, is a step of a trip or no step at all.
ImplementsTrip == Trip!TripSpec
=============================================================================
