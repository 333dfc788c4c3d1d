---------------------------- MODULE CmuTraceProofs ----------------------------
(***************************************************************************)
(* Theorems about PacketTypes, for any number of types and libraries, and  *)
(* about CmuTrace: what is proved of packets and of packet types on their  *)
(* own holds in a node with tracers, and its colours in nam are right, for *)
(* any number of tracers and packets.                                      *)
(***************************************************************************)
EXTENDS CmuTrace, PacketPoolProofs, WellFoundedInduction, TLAPS

----------------------------------------------------------------------------
LEMMA AntIs62 == PT.ANT = 62 /\ PT.SMAC = 57
BY DEF PT

\* The table after a call of initName with PT_NTYPE = n, for the callers
\* there are: the old names with one more entry, or as they were.
LEMMA NamesGrow ==
  ASSUME TypesTypeOK, NEW n \in {ntype, ntype + 1}
  PROVE  /\ ntype \in Nat /\ ntype >= 63
         /\ nPkt <= n => DOMAIN Names(n) = Behind(n) /\ Names(n)[n] = Undefined
         /\ nPkt > n => Names(n) = name
         /\ \A t \in Registered : t \in DOMAIN Names(n) /\ Names(n)[t] = name[t]
         /\ \A t \in DOMAIN Names(n) : t # ntype => Names(n)[t] \in Name \cup {Undefined}
<1>1. /\ ntype \in Nat /\ ntype >= 63 /\ n \in Nat /\ nPkt \in {0, ntype + 1}
      /\ nPkt = 0 => ntype = 63
  BY AntIs62, TypeBoundAssumption DEF TypesTypeOK, Registered, Behind
<1>2. CASE nPkt > n
  <2>1. Names(n) = name /\ nPkt = ntype + 1
    BY <1>1, <1>2 DEF Names
  <2>2. DOMAIN name = Behind(ntype)
    BY <1>1, <2>1 DEF TypesTypeOK
  <2> QED
    BY <1>1, <1>2, <2>1, <2>2 DEF TypesTypeOK, Registered, Behind
<1>3. CASE ~(nPkt > n)
  <2>1. Names(n) = [i \in Behind(n) |->
          IF i = n THEN Undefined ELSE IF i \in 58 .. nPkt - 1 THEN name[i] ELSE Unset]
    BY <1>3, AntIs62 DEF Names
  <2>2. n \in Behind(n)
    BY <1>1, AntIs62 DEF Behind
  <2>3. ASSUME NEW t \in Registered
        PROVE  t \in Behind(n) /\ t # n /\ t \in 58 .. nPkt - 1
    BY <1>1, AntIs62 DEF Registered, Behind
  <2>4. ASSUME NEW t \in Behind(n), t # ntype
        PROVE  Names(n)[t] \in Name \cup {Undefined}
    <3>1. CASE t = n
      BY <2>1, <3>1
    <3>2. CASE t # n
      <4>1. t \in 58 .. nPkt - 1 /\ t \in Behind(nPkt - 1)
        BY <1>1, <2>4, <3>2, AntIs62 DEF Behind
      <4> QED
        BY <2>1, <3>2, <4>1 DEF TypesTypeOK
    <3> QED
      BY <3>1, <3>2
  <2> QED
    BY <1>1, <1>3, <2>1, <2>2, <2>3, <2>4
<1> QED
  BY <1>2, <1>3

LEMMA TypesStep ==
  ASSUME TypesTypeOK, [TypesNext]_types
  PROVE  TypesTypeOK' /\ \A t \in Registered : t \in Registered' /\ name'[t] = name[t]
<1>1. /\ ntype \in Nat /\ ntype >= 63 /\ nPkt \in {0, ntype + 1} /\ ntype \in 63 .. MaxTypes
      /\ nPkt = 0 => Registered = {} /\ ntype = 63
  BY AntIs62, TypeBoundAssumption DEF TypesTypeOK, Registered, Behind
<1>2. ASSUME ntype' = ntype, UNCHANGED <<nPkt, name>>, classifiers' \in Seq(Classifier)
      PROVE  TypesTypeOK' /\ \A t \in Registered : t \in Registered' /\ name'[t] = name[t]
  BY <1>2 DEF TypesTypeOK, Registered, Behind
<1>3. CASE InitName
  <2>1. /\ name' = Names(ntype) /\ ntype' = ntype /\ classifiers' = classifiers
        /\ nPkt' = ntype + 1
    BY <1>1, <1>3 DEF InitName
  <2>2. DOMAIN name' = Behind(nPkt' - 1)
    <3>1. CASE nPkt > ntype
      BY <1>1, <2>1, <3>1, NamesGrow DEF TypesTypeOK
    <3>2. CASE ~(nPkt > ntype)
      BY <1>1, <2>1, <3>2, NamesGrow
    <3> QED
      BY <3>1, <3>2
  <2>3. \A t \in DOMAIN name' : name'[t] \in Name \cup {Undefined}
    <3>1. CASE nPkt > ntype
      BY <1>1, <2>1, <3>1, NamesGrow DEF TypesTypeOK
    <3>2. CASE ~(nPkt > ntype)
      BY <1>1, <2>1, <3>2, NamesGrow
    <3> QED
      BY <3>1, <3>2
  <2>4. \A t \in Registered : t \in Registered' /\ name'[t] = name[t]
    BY <2>1, NamesGrow DEF Registered
  <2>5. nPkt' \in {0, ntype' + 1} /\ nPkt' # 0
    BY <1>1, <2>1
  <2> QED
    BY <2>1, <2>2, <2>3, <2>4, <2>5 DEF TypesTypeOK
<1>4. ASSUME NEW nm \in Name, AddPacket(nm)
      PROVE  TypesTypeOK' /\ \A t \in Registered : t \in Registered' /\ name'[t] = name[t]
  <2>1. /\ name' = [Names(ntype + 1) EXCEPT ![ntype] = nm] /\ ntype' = ntype + 1
        /\ classifiers' = classifiers /\ nPkt' = ntype + 2 /\ ntype < MaxTypes
    BY <1>1, <1>4 DEF AddPacket
  <2>2. DOMAIN Names(ntype + 1) = Behind(ntype + 1)
    BY <1>1, NamesGrow
  <2>3. DOMAIN name' = Behind(nPkt' - 1) /\ ntype \in DOMAIN name' /\ name'[ntype] = nm
        /\ \A t \in DOMAIN name' : t # ntype => name'[t] = Names(ntype + 1)[t]
    BY <1>1, <2>1, <2>2, AntIs62 DEF Behind
  <2>4. \A t \in DOMAIN name' : name'[t] \in Name \cup {Undefined}
    BY <2>1, <2>2, <2>3, NamesGrow
  <2>5. \A t \in Registered : t # ntype /\ t \in Registered'
    BY <1>1, <2>1, AntIs62 DEF Registered, Behind
  <2>6. \A t \in Registered : name'[t] = name[t]
    <3>1. DOMAIN name' = DOMAIN Names(ntype + 1)
      BY <2>1
    <3>2. \A t \in Registered : t \in DOMAIN Names(ntype + 1) /\ Names(ntype + 1)[t] = name[t]
      BY NamesGrow
    <3> QED
      BY <2>3, <2>5, <3>1, <3>2
  <2>7. nPkt' \in {0, ntype' + 1} /\ nPkt' # 0 /\ ntype' \in 63 .. MaxTypes
    BY <1>1, <2>1, TypeBoundAssumption
  <2> QED
    BY <2>1, <2>3, <2>4, <2>5, <2>6, <2>7, AntIs62 DEF TypesTypeOK
<1>5. ASSUME NEW pc \in Classifier, AddPacketClassifier(pc)
      PROVE  TypesTypeOK' /\ \A t \in Registered : t \in Registered' /\ name'[t] = name[t]
  <2>1. classifiers' \in Seq(Classifier)
    BY <1>5 DEF AddPacketClassifier, TypesTypeOK
  <2> QED
    BY <1>2, <1>5, <2>1 DEF AddPacketClassifier
<1>6. CASE UNCHANGED types
  BY <1>2, <1>6 DEF types, TypesTypeOK
<1> QED
  BY <1>3, <1>4, <1>5, <1>6 DEF TypesNext

LEMMA TypesInitOK ==
  ASSUME TypesInit
  PROVE  TypesTypeOK
BY AntIs62, TypeBoundAssumption DEF TypesInit, TypesTypeOK, Registered, Behind

(* The tables are well typed whenever libraries register their types: no   *)
(* entry of name_ but the built-in ones is left unassigned, and it has     *)
(* PT_NTYPE + 1 entries.                                                   *)
THEOREM TypesCorrect == TypesSpec => []TypesTypeOK
<1>1. TypesTypeOK /\ [TypesNext]_types => TypesTypeOK'
  BY TypesStep
<1> QED
  BY <1>1, TypesInitOK, PTL DEF TypesSpec

(* A registered type keeps its number and its name, however often the      *)
(* table is replaced.                                                      *)
THEOREM NamesAreKept == TypesSpec => RegisteredNamesStay
<1>1. TypesTypeOK /\ [TypesNext]_types =>
        [\A t \in Registered : t \in Registered' /\ name'[t] = name[t]]_types
  BY TypesStep
<1> QED
  BY <1>1, TypesCorrect, PTL DEF TypesSpec, RegisteredNamesStay

----------------------------------------------------------------------------
\* The orders of packet.h go by the first entry, and by the first in a chain.
LEMMA LeastNatural ==
  ASSUME NEW S, S \subseteq Nat, S # {}
  PROVE  \E m \in S : \A k \in S : m <= k
<1> DEFINE R == {ss \in Nat \X Nat : ss[1] < ss[2]}
<1>1. IsWellFoundedOn(R, Nat)
  BY NatLessThanWellFounded DEF OpToRel
<1>2. \A x, y \in Nat : x < y => <<x, y>> \in R
  OBVIOUS
<1> HIDE DEF R
<1>3. PICK m \in S : \A k \in S : ~ (<<k, m>> \in R)
  BY <1>1, WFMin
<1>4. ASSUME NEW k \in S PROVE m <= k
  <2>1. ~ (k < m) /\ k \in Nat /\ m \in Nat
    BY <1>2, <1>3
  <2> QED
    BY <2>1
<1> QED
  BY <1>4

\* getType finds the first of the types with a name.
LEMMA GetTypeFirst ==
  ASSUME NEW nm, Carriers(nm) \subseteq Nat, Carriers(nm) # {}
  PROVE  GetType(nm) \in Carriers(nm) /\ \A u \in Carriers(nm) : GetType(nm) <= u
<1>1. \E m \in Carriers(nm) : \A u \in Carriers(nm) : m <= u
  BY LeastNatural
<1> HIDE DEF Carriers
<1> QED
  BY <1>1 DEF GetType

\* What getType knows of the table: the built-in names and those behind them.
LEMMA CarriersKnown ==
  ASSUME TypesTypeOK, NEW nm
  PROVE  /\ Carriers(nm) \subseteq Nat
         /\ \A u \in Carriers(nm) :
              /\ NameOf(u) = nm
              /\ u \in Builtin \/ u \in Registered \/ u = ntype
<1>1. ntype \in Nat /\ ntype >= 63 /\ nPkt \in {0, ntype + 1} /\ Builtin = 0 .. 62
  BY AntIs62, TypeBoundAssumption DEF TypesTypeOK, Builtin
<1>2. ASSUME NEW u \in DOMAIN name
      PROVE  u \in Nat /\ u >= 63 /\ u \notin Builtin /\ (u \in Registered \/ u = ntype)
  <2>1. u \in 63 .. nPkt - 1
    BY <1>2, AntIs62 DEF TypesTypeOK, Behind
  <2>2. nPkt = ntype + 1
    BY <1>1, <2>1
  <2> QED
    BY <1>1, <2>1, <2>2, AntIs62 DEF Behind, Registered
<1>3. ASSUME NEW u \in Carriers(nm)
      PROVE  \/ u = nm /\ u \in Builtin /\ nPkt # 0
             \/ u \in DOMAIN name /\ name[u] = nm
  BY <1>3 DEF Carriers
<1>4. ASSUME NEW u \in Carriers(nm)
      PROVE  /\ u \in Nat /\ NameOf(u) = nm
             /\ u \in Builtin \/ u \in Registered \/ u = ntype
  <2>1. CASE u = nm /\ u \in Builtin /\ nPkt # 0
    BY <1>1, <2>1 DEF NameOf
  <2>2. CASE u \in DOMAIN name /\ name[u] = nm
    <3>1. u < nPkt
      BY <1>1, <2>2, AntIs62 DEF TypesTypeOK, Behind
    <3> QED
      BY <1>1, <1>2, <2>2, <3>1 DEF NameOf
  <2> QED
    BY <1>3, <2>1, <2>2
<1> QED
  BY <1>4

\* The types of the table are all that NamesResolve needs.
LEMMA TypesResolve ==
  ASSUME TypesTypeOK
  PROVE  NamesResolve
<1>1. ntype \in Nat /\ ntype >= 63 /\ nPkt \in {0, ntype + 1} /\ Builtin = 0 .. 62
  BY AntIs62, TypeBoundAssumption DEF TypesTypeOK, Builtin
<1>2. ASSUME NEW t \in Registered
      PROVE  /\ GetType(name[t]) <= t
             /\ GetType(name[t]) # t => \E u \in 0 .. t - 1 : NameOf(u) = name[t]
  <2> DEFINE nm == name[t]  g == GetType(nm)
  <2>1. t \in DOMAIN name /\ t \in Nat
    BY <1>1, <1>2, AntIs62 DEF TypesTypeOK, Registered, Behind
  <2>2. t \in Carriers(nm)
    BY <2>1 DEF Carriers
  <2>3. g \in Carriers(nm) /\ g <= t
    BY <2>2, CarriersKnown, GetTypeFirst
  <2>4. g \in Nat /\ NameOf(g) = nm
    BY <2>3, CarriersKnown
  <2> HIDE DEF nm, g
  <2>5. g # t => g \in 0 .. t - 1
    BY <2>1, <2>3, <2>4
  <2>6. g <= t /\ (g # t => \E u \in 0 .. t - 1 : NameOf(u) = nm)
    BY <2>3, <2>4, <2>5
  <2> QED
    BY <2>6 DEF nm, g
<1>3. ASSUME NEW nm \in Name, \A t \in Registered : name[t] # nm
      PROVE  GetType(nm) \in Builtin \cup {ntype}
  <2>1. CASE Carriers(nm) = {}
    BY <2>1 DEF GetType
  <2>2. CASE Carriers(nm) # {}
    <3>1. GetType(nm) \in Carriers(nm)
      BY <2>2, CarriersKnown, GetTypeFirst
    <3>2. ASSUME GetType(nm) \in Registered PROVE FALSE
      <4>1. GetType(nm) \notin Builtin
        BY <1>1, <3>2, AntIs62 DEF Registered, Behind
      <4>2. name[GetType(nm)] = nm
        BY <3>1, <4>1, CarriersKnown, NamesAssumption DEF NameOf
      <4> QED
        BY <1>3, <3>2, <4>2
    <3> QED
      BY <3>1, <3>2, CarriersKnown
  <2> QED
    BY <2>1, <2>2
<1>4. ASSUME nPkt # 0, NEW t \in Registered \cup {ntype}
      PROVE  NameOf(t) # Unset
  <2>1. /\ t \in Nat /\ t < nPkt /\ t \notin Builtin
        /\ t \in DOMAIN name /\ name[t] \in Name \cup {Undefined}
    BY <1>1, <1>4, AntIs62 DEF TypesTypeOK, Registered, Behind
  <2> QED
    BY <1>1, <2>1, NamesAssumption DEF NameOf
<1> QED
  BY <1>2, <1>3, <1>4 DEF NamesResolve

(* getType never returns a type behind the one asked for, and an earlier   *)
(* one only if that has the same name; a name nobody registered gives a    *)
(* built-in type or PT_NTYPE; and name(t) has a name for every type: for any *)
(* number of types, at any time.                                           *)
THEOREM NamesAlwaysResolve == TypesSpec => []NamesResolve
<1>1. TypesTypeOK => NamesResolve
  BY TypesResolve
<1> QED
  BY <1>1, TypesCorrect, PTL

----------------------------------------------------------------------------
\* The places of a chain of classifiers that know a type.
Knowing(chain, t) == {i \in 1 .. Len(chain) : Knows[chain[i]][t] # "UNCLASSIFIED"}

\* The class a chain of classifiers gives to a type.
ClassIn(chain, t) ==
  LET I == Knowing(chain, t)
      i == IF I # {} THEN Min(I) ELSE 0
  IN  IF i = 0 THEN "UNCLASSIFIED" ELSE Knows[chain[i]][t]

LEMMA ClassifyIsClassIn ==
  ASSUME NEW t
  PROVE  ClassifyUnknown(t) = ClassIn(classifiers, t)
BY DEF ClassifyUnknown, SelectInSeq, Knowing, ClassIn

\* A chain has a class for a type exactly if some classifier in it has one.
LEMMA ClassFound ==
  ASSUME NEW chain, NEW t
  PROVE  ClassIn(chain, t) # "UNCLASSIFIED" <=> Knowing(chain, t) # {}
<1> DEFINE I == Knowing(chain, t)
           first == IF I # {} THEN Min(I) ELSE 0
<1>1. ClassIn(chain, t) = IF first = 0 THEN "UNCLASSIFIED" ELSE Knows[chain[first]][t]
  BY DEF ClassIn
<1>2. I \subseteq Nat /\ 0 \notin I
  BY DEF Knowing
<1>3. CASE I = {}
  BY <1>1, <1>3
<1>4. CASE I # {}
  <2>1. \E m \in I : \A k \in I : m <= k
    BY <1>2, <1>4, LeastNatural
  <2>2. Min(I) \in I
    <3> HIDE DEF I
    <3> QED
      BY <2>1 DEF Min
  <2>3. first \in I /\ first # 0
    BY <1>2, <1>4, <2>2
  <2>4. Knows[chain[first]][t] # "UNCLASSIFIED"
    <3> HIDE DEF first
    <3> QED
      BY <2>3 DEF Knowing
  <2> QED
    BY <1>1, <1>4, <2>3, <2>4
<1> QED
  BY <1>3, <1>4

\* A classifier in front of a chain hides none of the classes behind it.
LEMMA ChainGrows ==
  ASSUME NEW chain \in Seq(Classifier), NEW pc \in Classifier, NEW t, Knowing(chain, t) # {}
  PROVE  Knowing(<<pc>> \o chain, t) # {}
<1>1. PICK i \in 1 .. Len(chain) : Knows[chain[i]][t] # "UNCLASSIFIED"
  BY DEF Knowing
<1> DEFINE longer == <<pc>> \o chain
<1>2. i + 1 \in 1 .. Len(longer) /\ longer[i + 1] = chain[i]
  BY <1>1
<1> HIDE DEF longer
<1>3. i + 1 \in Knowing(longer, t)
  BY <1>1, <1>2 DEF Knowing
<1> QED
  BY <1>3 DEF longer

\* A step that lengthens the chain takes no class away.
LEMMA ClassesStep ==
  ASSUME TypesTypeOK, [TypesNext]_types, classifiers' # classifiers, NEW t \in Contested,
         Classify(t) # "UNCLASSIFIED"
  PROVE  /\ Classify(t)' # "UNCLASSIFIED"
         /\ Routing(t) \/ DataPacket(t) => Classify(t)' = Classify(t)
<1>1. PICK pc \in Classifier : classifiers' = <<pc>> \o classifiers
  BY DEF TypesNext, types, InitName, AddPacket, AddPacketClassifier
<1>2. classifiers \in Seq(Classifier) /\ classifiers' \in Seq(Classifier)
  BY <1>1 DEF TypesTypeOK
<1>3. CASE Routing(t) \/ DataPacket(t)
  BY <1>3 DEF Classify
<1>4. CASE ~(Routing(t) \/ DataPacket(t))
  <2>1. Classify(t) = ClassIn(classifiers, t)
    BY <1>4, ClassifyIsClassIn DEF Classify
  <2>2. Classify(t)' = ClassIn(classifiers', t)
    BY <1>4 DEF Classify, ClassifyUnknown, SelectInSeq, Knowing, ClassIn
  <2>3. Knowing(classifiers, t) # {}
    BY <2>1, ClassFound
  <2>4. Knowing(classifiers', t) # {}
    BY <1>1, <1>2, <2>3, ChainGrows
  <2> QED
    BY <1>4, <2>2, <2>4, ClassFound
<1> QED
  BY <1>3, <1>4

(* However many libraries put their classifiers in front of the chain, a   *)
(* type that has a class keeps one, and the same one if the simulator      *)
(* gave it.                                                                *)
THEOREM ClassesStay == TypesSpec => KnownClassesStay
<1> DEFINE Stay == classifiers' # classifiers =>
             \A t \in Contested : Classify(t) # "UNCLASSIFIED" =>
               /\ Classify(t)' # "UNCLASSIFIED"
               /\ Routing(t) \/ DataPacket(t) => Classify(t)' = Classify(t)
<1>1. ASSUME TypesTypeOK, [TypesNext]_types PROVE Stay
  BY <1>1, ClassesStep
<1>2. TypesTypeOK /\ [TypesNext]_types => [Stay]_types
  BY <1>1
<1>3. TypesSpec => [][Stay]_types
  <2> HIDE DEF Stay
  <2> QED
    BY <1>2, TypesCorrect, PTL DEF TypesSpec
<1> QED
  BY <1>3 DEF KnownClassesStay

----------------------------------------------------------------------------
\* What a tracer does to a packet is a step of the pool, or none.
LEMMA TraceStepsPool ==
  ASSUME TraceStep
  PROVE  [PoolNext]_pool /\ UNCHANGED types
<1>1. ASSUME NEW t \in Tracer, NEW p \in Ids, NEW h \in Header, Recv(t, p, h) \/ RecvDropped(t, p, h)
      PROVE  [PoolNext]_pool /\ UNCHANGED types
  BY <1>1 DEF Recv, RecvDropped, PoolNext
<1>2. ASSUME NEW t \in Scripted, NEW b \in BOOLEAN, SetNewTrace(t, b)
      PROVE  [PoolNext]_pool /\ UNCHANGED types
  BY <1>2 DEF SetNewTrace
<1>3. ASSUME NEW f \in PacketTracer, AddPacketTracer(f)
      PROVE  [PoolNext]_pool /\ UNCHANGED types
  BY <1>3 DEF AddPacketTracer
<1>4. ASSUME NEW e \in 0 .. InitialEnergy, Drain(e)
      PROVE  [PoolNext]_pool /\ UNCHANGED types
  BY <1>4 DEF Drain
<1>5. CASE Sleep
  BY <1>5 DEF Sleep
<1> QED
  BY <1>1, <1>2, <1>3, <1>4, <1>5 DEF TraceStep

LEMMA NodeSteps ==
  ASSUME [NodeNext]_<<pool, types, trace>>
  PROVE  [PoolNext]_pool /\ [TypesNext]_types /\ (TraceStep \/ UNCHANGED trace)
BY TraceStepsPool DEF NodeNext

(* A node is an implementation of the packet pool: the tracers free only   *)
(* packets they hold.                                                      *)
THEOREM NodeImplementsPool == NodeSpec => PoolSpec
<1>1. NodeInit => PoolInit
  BY DEF NodeInit
<1>2. [NodeNext]_<<pool, types, trace>> => [PoolNext]_pool
  BY NodeSteps
<1> QED
  BY <1>1, <1>2, PTL DEF NodeSpec, PoolSpec

(* And of the packet types.                                                *)
THEOREM NodeImplementsTypes == NodeSpec => TypesSpec
<1>1. NodeInit => TypesInit
  BY DEF NodeInit
<1>2. [NodeNext]_<<pool, types, trace>> => [TypesNext]_types
  BY NodeSteps
<1> QED
  BY <1>1, <1>2, PTL DEF NodeSpec, TypesSpec

(* No packet is put back under a holder by a tracer either.                *)
THEOREM NodePoolSafety ==
  NodeSpec => []PoolTypeOK /\ []FreeListSound /\ []HoldersCounted /\ []DataOwned
BY NodeImplementsPool, PoolSafety, PTL

(* The types of the pool's state in a node with tracers, for any number of *)
(* packets: no index of the free list or of the counts leaves the table.   *)
THEOREM NodePoolTypes == NodeSpec => []PoolTypeOK
BY NodePoolSafety, PTL

(* User data is never deleted twice nor used after it was deleted, in a    *)
(* node whose tracers free packets between its layers.                     *)
THEOREM NodeDataOwned == NodeSpec => []DataOwned
BY NodePoolSafety, PTL

(* The table of names is well typed and getType right in such a node.      *)
THEOREM NodeTypes == NodeSpec => []TypesTypeOK /\ []NamesResolve
BY NodeImplementsTypes, TypesCorrect, NamesAlwaysResolve, PTL

(* Names and classes stay in a node with tracers, too.                     *)
THEOREM NodeNamesStay == NodeSpec => RegisteredNamesStay /\ KnownClassesStay
BY NodeImplementsTypes, NamesAreKept, ClassesStay, PTL

----------------------------------------------------------------------------
\* Inductive: the types, and what the colours have to do with the energy.
ColourInv == TraceTypeOK /\ NamNeverStale

LEMMA LevelFacts ==
  ASSUME energy \in {NoModel} \cup 0 .. InitialEnergy
  PROVE  EnergyLevel \in 0 .. 3
BY DEF EnergyLevel

LEMMA ShowInv ==
  ASSUME ColourInv, NEW t \in Tracer, NEW h, Show(t, h), UNCHANGED energy
  PROVE  /\ nodeColor' \in [Tracer -> 0 .. 3] /\ shown' \in 0 .. 3
         /\ energy = NoModel => shown' = 3
         /\ NamNeverStale'
<1>1. EnergyLevel \in 0 .. 3 /\ EnergyLevel' = EnergyLevel
  BY LevelFacts DEF ColourInv, TraceTypeOK, EnergyLevel
<1>2. CASE UNCHANGED <<nodeColor, shown>>
  BY <1>1, <1>2 DEF ColourInv, TraceTypeOK, NamNeverStale
<1>3. CASE /\ nodeColor' = [nodeColor EXCEPT ![t] = EnergyLevel] /\ shown' = EnergyLevel
           /\ energy # NoModel
  <2>1. nodeColor' \in [Tracer -> 0 .. 3] /\ shown' \in 0 .. 3
    BY <1>1, <1>3 DEF ColourInv, TraceTypeOK
  <2>2. ASSUME NEW u \in NamTracer
        PROVE  nodeColor'[u] >= shown'
    <3>1. /\ u \in Tracer /\ nodeColor[u] \in 0 .. 3 /\ shown \in 0 .. 3
          /\ nodeColor[u] >= shown /\ shown >= EnergyLevel
      BY <1>3, TracerAssumption DEF ColourInv, TraceTypeOK, NamNeverStale
    <3>2. nodeColor'[u] = IF u = t THEN EnergyLevel ELSE nodeColor[u]
      BY <1>3, <3>1 DEF ColourInv, TraceTypeOK
    <3> QED
      BY <1>1, <1>3, <3>1, <3>2
  <2> QED
    BY <1>1, <1>3, <2>1, <2>2 DEF NamNeverStale
<1> QED
  BY <1>2, <1>3 DEF Show

LEMMA TracedInv ==
  ASSUME ColourInv, NEW t \in Tracer, NEW h, Traced(t, h)
  PROVE  ColourInv'
<1>1. /\ nodeColor' \in [Tracer -> 0 .. 3] /\ shown' \in 0 .. 3
      /\ energy = NoModel => shown' = 3
      /\ NamNeverStale'
  <2>1. CASE t \in NamTracer
    BY <2>1, ShowInv DEF Traced
  <2>2. CASE t \notin NamTracer
    BY <2>2 DEF Traced, ColourInv, TraceTypeOK, NamNeverStale, EnergyLevel
  <2> QED
    BY <2>1, <2>2
<1>2. inroute' \in BOOLEAN /\ (energy = NoModel => ~inroute')
  BY DEF Traced, StayAwake, ColourInv, TraceTypeOK
<1> QED
  BY <1>1, <1>2 DEF Traced, ColourInv, TraceTypeOK

LEMMA ColourStep ==
  ASSUME ColourInv, [NodeNext]_<<pool, types, trace>>
  PROVE  ColourInv'
<1>1. CASE UNCHANGED trace
  BY <1>1 DEF trace, ColourInv, TraceTypeOK, NamNeverStale, EnergyLevel
<1>2. ASSUME NEW t \in Tracer, NEW p \in Ids, NEW h \in Header, Recv(t, p, h) \/ RecvDropped(t, p, h)
      PROVE  ColourInv'
  BY <1>1, <1>2, TracedInv DEF Recv, RecvDropped
<1>3. ASSUME NEW t \in Scripted, NEW b \in BOOLEAN, SetNewTrace(t, b)
      PROVE  ColourInv'
  BY <1>3 DEF SetNewTrace, ColourInv, TraceTypeOK, NamNeverStale, EnergyLevel
<1>4. ASSUME NEW f \in PacketTracer, AddPacketTracer(f)
      PROVE  ColourInv'
  <2>1. pktTrc' \in Seq(PacketTracer)
    BY <1>4 DEF AddPacketTracer, ColourInv, TraceTypeOK
  <2> QED
    BY <1>4, <2>1 DEF AddPacketTracer, ColourInv, TraceTypeOK, NamNeverStale, EnergyLevel
<1>5. ASSUME NEW e \in 0 .. InitialEnergy, Drain(e)
      PROVE  ColourInv'
  <2>1. energy \in 1 .. InitialEnergy /\ energy' = e /\ e < energy
    BY <1>5, EnergyAssumption DEF Drain, ColourInv, TraceTypeOK, NoModel
  <2>2. EnergyLevel' <= EnergyLevel /\ EnergyLevel \in 0 .. 3 /\ EnergyLevel' \in 0 .. 3
    BY <2>1, EnergyAssumption DEF EnergyLevel
  <2>3. TraceTypeOK'
    BY <1>5, <2>1 DEF Drain, ColourInv, TraceTypeOK, NoModel
  <2>4. UNCHANGED <<nodeColor, shown>> /\ energy # NoModel
    BY <1>5, <2>1 DEF Drain, NoModel
  <2>5. \A u \in NamTracer : nodeColor[u] \in 0 .. 3
    BY TracerAssumption DEF ColourInv, TraceTypeOK
  <2>6. NamNeverStale'
    BY <2>2, <2>4, <2>5 DEF NamNeverStale, ColourInv, TraceTypeOK
  <2> QED
    BY <2>3, <2>6 DEF ColourInv
<1>6. CASE Sleep
  BY <1>6 DEF Sleep, ColourInv, TraceTypeOK, NamNeverStale, EnergyLevel
<1> QED
  BY <1>1, <1>2, <1>3, <1>4, <1>5, <1>6, NodeSteps DEF TraceStep

(* No tracer with a nam channel ever believes in a colour of the node that *)
(* is not the one nam shows, for any number of tracers.                    *)
THEOREM ColoursAgree == NodeSpec => []TraceTypeOK /\ []NamNeverStale
<1>1. NodeInit => ColourInv
  <2> SUFFICES ASSUME NodeInit PROVE ColourInv
    OBVIOUS
  <2>1. TraceTypeOK
    <3>1. energy \in {NoModel} \cup 0 .. InitialEnergy
      BY EnergyAssumption DEF NodeInit, TraceInit
    <3>2. nodeColor \in [Tracer -> 0 .. 3] /\ newtrace \in [Tracer -> BOOLEAN] /\ shown = 3
      BY DEF NodeInit, TraceInit
    <3>3. pktTrc \in Seq(PacketTracer)
      BY DEF NodeInit, TraceInit
    <3>4. inroute \in BOOLEAN /\ ~inroute
      BY Zenon DEF NodeInit, TraceInit
    <3>5. tagged \in BOOLEAN
      BY Zenon DEF NodeInit, TraceInit
    <3> QED
      BY <3>1, <3>2, <3>3, <3>4, <3>5, 3 \in 0 .. 3 DEF TraceTypeOK
  <2>2. EnergyLevel \in 0 .. 3
    BY LevelFacts, <2>1 DEF TraceTypeOK
  <2>3. \A u \in NamTracer : nodeColor[u] = 3 /\ shown = 3
    BY TracerAssumption DEF NodeInit, TraceInit
  <2>4. shown = 3
    BY DEF NodeInit, TraceInit
  <2>5. NamNeverStale
    <3>1. energy # NoModel => energy = InitialEnergy
      BY DEF NodeInit, TraceInit
    <3>2. energy # NoModel => EnergyLevel = 3
      BY <3>1, EnergyAssumption DEF EnergyLevel
    <3> QED
      BY <2>2, <2>3, <2>4, <3>2 DEF NamNeverStale
  <2> QED
    BY <2>1, <2>5 DEF ColourInv
<1>2. ColourInv /\ [NodeNext]_<<pool, types, trace>> => ColourInv'
  BY ColourStep
<1>3. ColourInv => TraceTypeOK /\ NamNeverStale
  BY DEF ColourInv
<1> QED
  BY <1>1, <1>2, <1>3, PTL DEF NodeSpec

(* The tracers' state is well typed: a colour is one of the four, and the  *)
(* node of a simulation without energy model is never in a route.          *)
THEOREM TraceTypeCorrect == NodeSpec => []TraceTypeOK
BY ColoursAgree, PTL

----------------------------------------------------------------------------
\* The part of a type other than SCTP and TORA is in the style that is set.
LEMMA OwnStyle ==
  ASSUME NEW t, NEW h, h.ptype # PT.SCTP, h.ptype # PT.TORA
  PROVE  FormatOwn(t, h) \in {{}, {Style(t)}}
BY DEF FormatOwn, FormatUnknown

LEMMA MacStyle ==
  ASSUME NEW t
  PROVE  /\ Style(t) \in {"tagged", "new", "old"}
         /\ FormatMac(t) \in {{}, {Style(t)}, {"old"}}
         /\ FormatMac(t) \subseteq {Style(t)} <=> ~(Smac /\ Style(t) # "old")
BY DEF FormatMac, Style

(* The three formats that leave the style that is set are the only ones,   *)
(* for any settings of any tracers and any packet.                         *)
THEOREM ThreeMixedStyles == NodeSpec => []StylesMixed
<1>1. ASSUME NEW t \in Tracer, NEW h \in Header
      PROVE  Format(t, h) # {Style(t)} <=>
               \/ Smac /\ Style(t) # "old"
               \/ h.ptype = PT.SCTP /\ h.kind # "EMPTY" /\ tagged
               \/ h.ptype = PT.TORA /\ h.kind = "UPD" /\ Style(t) = "old"
  <2> DEFINE own == CASE h.ptype \in {PT.MAC, PT.SMAC} -> {}
                      [] h.ptype = PT.ARP -> {Style(t)}
                      [] OTHER -> {Style(t)} \cup FormatOwn(t, h)
  <2>1. Format(t, h) = {Style(t)} \cup FormatMac(t) \cup own
    BY DEF Format, FormatMacCommon
  <2>2. own \subseteq {Style(t)} <=>
          ~(\/ h.ptype = PT.SCTP /\ h.kind # "EMPTY" /\ tagged
            \/ h.ptype = PT.TORA /\ h.kind = "UPD" /\ Style(t) = "old")
    <3>1. CASE h.ptype = PT.SCTP
      <4>1. own = {Style(t)} \cup FormatSctp(t, h) /\ h.ptype # PT.TORA
        BY <3>1 DEF FormatOwn, PT
      <4> QED
        BY <3>1, <4>1 DEF FormatSctp, Style
    <3>2. CASE h.ptype = PT.TORA
      <4>1. own = {Style(t)} \cup FormatTora(t, h) /\ h.ptype # PT.SCTP
        BY <3>2 DEF FormatOwn, PT
      <4> QED
        BY <3>2, <4>1 DEF FormatTora, Style
    <3>3. CASE h.ptype # PT.SCTP /\ h.ptype # PT.TORA
      BY <3>3, OwnStyle
    <3> QED
      BY <3>1, <3>2, <3>3
  <2> HIDE DEF own
  <2> QED
    BY <2>1, <2>2, MacStyle
<1>2. StylesMixed
  BY <1>1 DEF StylesMixed
<1> QED
  BY <1>2, PTL
=============================================================================
