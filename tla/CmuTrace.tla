------------------------------- MODULE CmuTrace -------------------------------
(***************************************************************************)
(* The tracers of a wireless node (CMUTrace, trace/cmu-trace.cc).  They    *)
(* stand between its layers: a packet that passes is written to the trace  *)
(* file and to nam and goes on, or ends there.  Packets come from the pool *)
(* of PacketPool, their types from PacketTypes.                            *)
(*                                                                         *)
(* A tracer works within one call, between calls the layers may do what    *)
(* they like with a packet: the contents of one are chosen anew each time. *)
(* Of a line the model keeps the styles its parts are written in.          *)
(***************************************************************************)
EXTENDS PacketPool, PacketTypes

CONSTANTS
  Tracer,          \* the tracers of the node
  Layer, Event,    \* tracetype and type_ of a tracer
  HasTarget,       \* the tracers whose target_ is set
  NamTracer,       \* the tracers with a nam channel
  Scripted,        \* bound: the tracers a script sends "newtrace" to
  Smac,            \* the simulation's macType is Mac/SMAC
  Header,          \* packet contents: type, message kind or no chunks, where it goes
  PacketTracer,    \* formats that libraries add
  Formats,         \* the types such a format knows
  InitialEnergy, Level1, Level2    \* of the energy model, in units of energy

NoModel == -1      \* energy of a node without an energy model

ASSUME TracerAssumption ==
  /\ Layer \in [Tracer -> {"ROUTER", "MAC", "IFQ", "AGENT", "PHY"}]
  /\ Event \in [Tracer -> {"SEND", "RECV", "DROP", "EOT"}]
  /\ HasTarget \cup NamTracer \cup Scripted \subseteq Tracer
  /\ \A t \in Tracer : Event[t] = "EOT" => Layer[t] = "MAC" /\ t \notin NamTracer
ASSUME HeaderAssumption ==
  Header \subseteq [ptype : 0 .. MaxTypes, kind : {"UPD", "EMPTY", "other"},
                    dst : {"self", "other", "broadcast"}]
ASSUME EnergyAssumption ==
  /\ {InitialEnergy, Level1, Level2} \subseteq Nat
  /\ 0 < Level2 /\ Level2 <= Level1 /\ Level1 <= InitialEnergy

VARIABLES
  energy,          \* energy left, or NoModel
  inroute,         \* a node that saves power has been told to stay awake
  newtrace,        \* newtrace_ of a tracer
  tagged,          \* tagged() of all tracers
  nodeColor,       \* nodeColor[src_] of a tracer
  shown,           \* history: the colour of the node in nam
  pktTrc           \* pktTrc_ and its successors

trace == <<energy, inroute, newtrace, tagged, nodeColor, shown, pktTrc>>

\* nam draws a node with an energy model green, which is level 3.
TraceInit ==
  /\ energy \in {NoModel, InitialEnergy}
  /\ inroute = FALSE
  /\ newtrace = [t \in Tracer |-> FALSE]
  /\ tagged \in BOOLEAN
  /\ nodeColor = [t \in Tracer |-> 3]
  /\ shown = 3
  /\ pktTrc = <<>>

----------------------------------------------------------------------------
(* The energy level nam is to show, and node_energy.                       *)
EnergyLevel ==
  IF energy > InitialEnergy \/ energy <= 0 THEN 0
  ELSE IF energy >= Level1 THEN 3 ELSE IF energy >= Level2 THEN 2 ELSE 1

NodeEnergy == energy = NoModel \/ energy > 0

ShowEarly(t, h) ==      \* mutant: the level is noted before the early return
  LET unseen == Layer[t] = "ROUTER" /\ Event[t] = "RECV" /\ h.dst # "broadcast"
  IN  IF energy = NoModel THEN UNCHANGED <<nodeColor, shown>>
      ELSE /\ nodeColor' = [nodeColor EXCEPT ![t] = EnergyLevel]
           /\ shown' = IF unseen \/ nodeColor[t] = EnergyLevel THEN shown ELSE EnergyLevel

\* nam_format up to the event line: a new colour, if this tracer remembers
\* another.  A router's unicast receptions are not shown, nor their colour.
Show(t, h) ==
  IF \/ Layer[t] = "ROUTER" /\ Event[t] = "RECV" /\ h.dst # "broadcast"
     \/ energy = NoModel \/ nodeColor[t] = EnergyLevel
    THEN UNCHANGED <<nodeColor, shown>>
    ELSE nodeColor' = [nodeColor EXCEPT ![t] = EnergyLevel] /\ shown' = EnergyLevel

----------------------------------------------------------------------------
Style(t) == IF tagged THEN "tagged" ELSE IF newtrace[t] THEN "new" ELSE "old"

FormatMacUntagged(t) ==     \* mutant: the tagged style is forgotten
  IF Style(t) = "old" /\ Layer[t] = "PHY" THEN {}
  ELSE IF Smac \/ ~newtrace[t] THEN {"old"} ELSE {"new"}

\* The MAC part: none at the physical layer in the old style.
FormatMac(t) ==
  IF Style(t) = "old" /\ Layer[t] = "PHY" THEN {}
  ELSE IF Smac THEN {"old"} ELSE {Style(t)}

FormatMacCommon(t) == {Style(t)} \cup FormatMac(t)

\* format_tora: an update is written in tags also in the old style.
FormatTora(t, h) == IF h.kind = "UPD" /\ Style(t) = "old" THEN {"new"} ELSE {Style(t)}

\* format_sctp writes a part for every chunk (it asserts that it knows it), and
\* does not ask for the tagged style.
FormatSctp(t, h) ==
  IF h.kind = "EMPTY" THEN {} ELSE IF newtrace[t] THEN {"new"} ELSE {"old"}

\* format_unknow: the newest format that knows the type writes the part.
FormatUnknown(t, h) ==
  IF SelectInSeq(pktTrc, LAMBDA f : h.ptype \in Formats[f]) = 0 THEN {} ELSE {Style(t)}

\* The part a type has of its own, behind the IP part.  format_aodv and
\* format_aomdv abort on a message they do not know: no Header is one.
FormatOwn(t, h) ==
  CASE h.ptype = PT.TORA -> FormatTora(t, h)
    [] h.ptype = PT.SCTP -> FormatSctp(t, h)
    [] h.ptype \in {PT.AODV, PT.ANT, PT.AOMDV, PT.IMEP, PT.DSR, PT.TCP, PT.ACK, PT.CBR} ->
         {Style(t)}
    [] h.ptype \in {PT.MESSAGE, PT.UDP, PT.DIFF, PT.GAF, PT.PING} -> {}
    [] OTHER -> FormatUnknown(t, h)

\* format: the styles of a line.
Format(t, h) ==
  FormatMacCommon(t) \cup
  (CASE h.ptype \in {PT.MAC, PT.SMAC} -> {}
     [] h.ptype = PT.ARP -> {Style(t)}
     [] OTHER -> {Style(t)} \cup FormatOwn(t, h))

----------------------------------------------------------------------------
StayAwakeAll(h) ==      \* mutant: it is not asked whether there is an energy model
  inroute' = (inroute \/ (h.ptype = PT.CBR /\ h.dst = "self"))

\* format_rtp keeps a node awake that its data has reached.  A node with an
\* energy model saves power here (powersavingflag() may be off, and then it is
\* not told): the node may be told to stay awake more often than by the code.
StayAwake(h) ==
  inroute' = (inroute \/ (h.ptype = PT.CBR /\ h.dst = "self" /\ energy # NoModel))

Traced(t, h) ==
  /\ IF t \in NamTracer THEN Show(t, h) ELSE UNCHANGED <<nodeColor, shown>>
  /\ StayAwake(h)
  /\ UNCHANGED <<energy, newtrace, tagged, pktTrc>>

(* recv(p, h): a dead node's packets end without a trace, the others go on *)
(* to the target if there is one.                                          *)
Recv(t, p, h) ==
  /\ Users(p) > 0
  /\ UNCHANGED types
  /\ \/ ~NodeEnergy /\ FreePacket(p) /\ UNCHANGED trace
     \/ NodeEnergy /\ Traced(t, h) /\ IF t \in HasTarget THEN UNCHANGED pool ELSE FreePacket(p)

\* recv(p, why): the packet always ends.
RecvDropped(t, p, h) ==
  /\ Event[t] = "DROP" /\ Users(p) > 0
  /\ UNCHANGED types
  /\ \/ ~NodeEnergy /\ FreePacket(p) /\ UNCHANGED trace
     \/ NodeEnergy /\ Traced(t, h) /\ FreePacket(p)

\* The command "newtrace".
SetNewTrace(t, b) ==
  /\ newtrace' = [newtrace EXCEPT ![t] = b]
  /\ UNCHANGED <<energy, inroute, tagged, nodeColor, shown, pktTrc, types, pool>>

AddPacketTracer(f) ==
  /\ ~Contains(pktTrc, f)
  /\ pktTrc' = <<f>> \o pktTrc
  /\ UNCHANGED <<energy, inroute, newtrace, tagged, nodeColor, shown, types, pool>>

\* The energy model: the node's energy goes down, and it may sleep again.
Drain(e) ==
  /\ energy > e
  /\ energy' = e
  /\ UNCHANGED <<inroute, newtrace, tagged, nodeColor, shown, pktTrc, types, pool>>

Sleep ==
  /\ inroute /\ inroute' = FALSE
  /\ UNCHANGED <<energy, newtrace, tagged, nodeColor, shown, pktTrc, types, pool>>

TraceStep ==
  \/ \E t \in Tracer, p \in Ids, h \in Header : Recv(t, p, h) \/ RecvDropped(t, p, h)
  \/ \E t \in Scripted, b \in BOOLEAN : SetNewTrace(t, b)
  \/ \E f \in PacketTracer : AddPacketTracer(f)
  \/ \E e \in 0 .. InitialEnergy : Drain(e)
  \/ Sleep

NodeInit == PoolInit /\ TypesInit /\ TraceInit

NodeNext ==
  \/ TraceStep
  \/ PoolNext /\ UNCHANGED <<trace, types>>
  \/ TypesNext /\ UNCHANGED <<trace, pool>>

NodeSpec == NodeInit /\ [][NodeNext]_<<pool, types, trace>>

----------------------------------------------------------------------------
TraceTypeOK ==
  /\ energy \in {NoModel} \cup 0 .. InitialEnergy /\ inroute \in BOOLEAN
  /\ newtrace \in [Tracer -> BOOLEAN] /\ tagged \in BOOLEAN
  /\ nodeColor \in [Tracer -> 0 .. 3] /\ shown \in 0 .. 3
  /\ pktTrc \in Seq(PacketTracer)
  /\ energy = NoModel => ~inroute /\ shown = 3

(* Every tracer remembers on its own which colour it has given the node in *)
(* nam, where all of them write: one that believes the colour right must   *)
(* not be wrong, none is ahead of what nam shows, and nam never shows less *)
(* energy than there is.                                                   *)
NamNeverStale ==
  energy # NoModel =>
    /\ shown >= EnergyLevel
    /\ \A t \in NamTracer : /\ nodeColor[t] = EnergyLevel => shown = EnergyLevel
                           /\ nodeColor[t] >= shown

(* A line is written in the style that is set, whatever the script does to *)
(* the styles, but for three formats: S-MAC's, SCTP's if the trace is      *)
(* tagged, and TORA updates in the old style.                              *)
StylesMixed ==
  \A t \in Tracer, h \in Header :
    Format(t, h) # {Style(t)} <=>
      \/ Smac /\ Style(t) # "old"
      \/ h.ptype = PT.SCTP /\ h.kind # "EMPTY" /\ tagged
      \/ h.ptype = PT.TORA /\ h.kind = "UPD" /\ Style(t) = "old"
=============================================================================
