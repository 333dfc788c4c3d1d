----------------------------- MODULE PacketTypes -----------------------------
(***************************************************************************)
(* Packet types, their names and classes (packet_t, p_info and             *)
(* PacketClassifier, common/packet.h).  Dynamic libraries register further *)
(* types behind the built-in ones; the table of names grows with them.     *)
(*                                                                         *)
(* A built-in type stands for its own name.  The build has HAVE_STL.       *)
(***************************************************************************)
EXTENDS Integers, Sequences, SequencesExt

CONSTANTS
  Name,         \* names libraries register types under
  Undefined,    \* "undefined"
  Unset,        \* an entry of name_ that was not assigned
  Classifier,   \* packet classifiers of libraries
  Knows,        \* the class a classifier gives to a type
  MaxTypes      \* bound: PT_NTYPE

ASSUME NamesAssumption == Undefined \notin Name /\ Unset \notin Name \cup {Undefined}

\* The types some code asks for by name.
PT == [TCP |-> 0, UDP |-> 1, CBR |-> 2, AUDIO |-> 3, VIDEO |-> 4, ACK |-> 5, MESSAGE |-> 13,
       TELNET |-> 26, ARP |-> 34, MAC |-> 35, TORA |-> 36, DSR |-> 37, AODV |-> 38,
       IMEP |-> 39, PING |-> 44, DIFF |-> 46, GAF |-> 49, SCTP |-> 55, SCTP_APP1 |-> 56,
       SMAC |-> 57, HDLC |-> 59, AOMDV |-> 61, ANT |-> 62]

ASSUME TypeBoundAssumption == MaxTypes \in Nat /\ PT.ANT < MaxTypes

Builtin == 0 .. PT.ANT
Class == {"UNCLASSIFIED", "ROUTING", "DATApkt"}

ASSUME KnowsAssumption == Knows \in [Classifier -> [0 .. MaxTypes -> Class]]

VARIABLES
  ntype,         \* PT_NTYPE
  nPkt,          \* nPkt_, the size of name_
  name,          \* the entries of name_ behind the built-in types
  classifiers    \* pc_ and its successors

types == <<ntype, nPkt, name, classifiers>>

TypesInit ==
  /\ ntype = PT.ANT + 1
  /\ nPkt = 0 /\ name = <<>>
  /\ classifiers = <<>>

Behind(n) == (PT.ANT + 1) .. n

----------------------------------------------------------------------------
NamesAfresh(n) ==       \* mutant: the old table is not copied
  IF nPkt > n THEN name
  ELSE [i \in Behind(n) |-> IF i = n THEN Undefined ELSE Unset]

(* initName, for PT_NTYPE = n: a larger table with the names registered    *)
(* behind PT_SMAC, over which all built-in ones are assigned.              *)
Names(n) ==
  IF nPkt > n THEN name
  ELSE [i \in Behind(n) |->
          IF i = n THEN Undefined ELSE IF i \in PT.SMAC + 1 .. nPkt - 1 THEN name[i] ELSE Unset]

\* p_info()
InitName ==
  /\ name' = Names(ntype) /\ nPkt' = IF nPkt > ntype THEN nPkt ELSE ntype + 1
  /\ UNCHANGED <<ntype, classifiers>>

\* addPacket, defined by the ns-2 core: the type takes the old PT_NTYPE.
AddPacket(nm) ==
  /\ ntype < MaxTypes
  /\ ntype' = ntype + 1
  /\ name' = [Names(ntype + 1) EXCEPT ![ntype] = nm]
  /\ nPkt' = IF nPkt > ntype + 1 THEN nPkt ELSE ntype + 2
  /\ UNCHANGED classifiers

AddPacketClassifier(pc) ==
  /\ ~Contains(classifiers, pc)
  /\ classifiers' = <<pc>> \o classifiers
  /\ UNCHANGED <<ntype, nPkt, name>>

TypesNext ==
  \/ InitName
  \/ \E nm \in Name : AddPacket(nm)
  \/ \E pc \in Classifier : AddPacketClassifier(pc)

TypesSpec == TypesInit /\ [][TypesNext]_types

----------------------------------------------------------------------------
(* p_info::name(t): 0 behind the table.  Its guard lets t = nPkt_ pass, too, *)
(* and reads behind the table: no name either way.                         *)
NameOf(t) ==
  IF t >= nPkt THEN Unset ELSE IF t \in Builtin THEN t ELSE name[t]

\* The types with a name: the built-in names differ from one another.
Carriers(nm) ==
  (IF nPkt = 0 THEN {} ELSE {nm} \cap Builtin) \cup {t \in DOMAIN name : name[t] = nm}

GetTypeLast(nm) ==      \* mutant: the last entry with the name
  IF Carriers(nm) = {} THEN ntype
  ELSE CHOOSE t \in Carriers(nm) : \A u \in Carriers(nm) : u <= t

\* getType: the first entry with the name, else PT_NTYPE.
GetType(nm) ==
  IF Carriers(nm) = {} THEN ntype
  ELSE CHOOSE t \in Carriers(nm) : \A u \in Carriers(nm) : t <= u

DataPacket(t) ==
  t \in {PT.TCP, PT.TELNET, PT.CBR, PT.AUDIO, PT.VIDEO, PT.ACK, PT.SCTP, PT.SCTP_APP1, PT.HDLC}

Routing(t) == t \in {PT.DSR, PT.MESSAGE, PT.TORA, PT.AODV, PT.ANT}

\* PacketClassifier::classify: the first in the chain that knows the type.
ClassifyUnknown(t) ==
  LET i == SelectInSeq(classifiers, LAMBDA pc : Knows[pc][t] # "UNCLASSIFIED")
  IN  IF i = 0 THEN "UNCLASSIFIED" ELSE Knows[classifiers[i]][t]

ClassifyChainFirst(t) ==        \* mutant: the libraries are asked first
  IF ClassifyUnknown(t) # "UNCLASSIFIED" THEN ClassifyUnknown(t)
  ELSE IF Routing(t) THEN "ROUTING" ELSE IF DataPacket(t) THEN "DATApkt" ELSE "UNCLASSIFIED"

\* p_info::classify
Classify(t) ==
  IF Routing(t) THEN "ROUTING" ELSE IF DataPacket(t) THEN "DATApkt" ELSE ClassifyUnknown(t)

\* The types libraries have registered.
Registered == Behind(ntype - 1)

----------------------------------------------------------------------------
TypesTypeOK ==
  /\ ntype \in PT.ANT + 1 .. MaxTypes
  /\ nPkt \in {0, ntype + 1} /\ (nPkt = 0 => Registered = {})
  /\ DOMAIN name = Behind(nPkt - 1)
  /\ \A t \in DOMAIN name : name[t] \in Name \cup {Undefined}
  /\ classifiers \in Seq(Classifier)

(* Every type has a name, and getType finds it by that name unless an      *)
(* earlier type has the same; a name nobody has gives PT_NTYPE.  Once there *)
(* is a table, it reaches to PT_NTYPE: name(t) never looks behind it.      *)
NamesResolve ==
  /\ \A t \in Registered :
       /\ GetType(name[t]) <= t
       /\ GetType(name[t]) # t => \E u \in 0 .. t - 1 : NameOf(u) = name[t]
  /\ \A nm \in Name : (\A t \in Registered : name[t] # nm) => GetType(nm) \in Builtin \cup {ntype}
  /\ nPkt # 0 => \A t \in Registered \cup {ntype} : NameOf(t) # Unset

(* initName replaces the whole table under the types already registered:   *)
(* none of them may lose its name.                                         *)
RegisteredNamesStay ==
  [][\A t \in Registered : t \in Registered' /\ name'[t] = name[t]]_types

\* The types some library has a say in.
Contested == {t \in 0 .. MaxTypes : \E pc \in Classifier : Knows[pc][t] # "UNCLASSIFIED"}

(* No library takes away the class of a type the simulator has one for,    *)
(* and a class once given to a type is only ever replaced.                 *)
KnownClassesStay ==
  [][classifiers' # classifiers =>
       \A t \in Contested : Classify(t) # "UNCLASSIFIED" =>
         /\ Classify(t)' # "UNCLASSIFIED"
         /\ Routing(t) \/ DataPacket(t) => Classify(t)' = Classify(t)]_types

(* "The PacketClassifier class is needed to make                           *)
(* p_info::data_packet(packet_t) work also with dynamically defined packet *)
(* types" (packet.h:202-204): what a library classifies as data is a data  *)
(* packet.                                                                 *)
DataPacketFollowsClassifiers ==
  \A t \in Registered : Classify(t) = "DATApkt" => DataPacket(t)
=============================================================================
