------------------------------ MODULE MCCmuTrace ------------------------------
(* Instances of CmuTrace for TLC.                                          *)
EXTENDS CmuTrace, TLC

CONSTANTS
  router, drop, eot,    \* tracers: RTR of receptions, IFQ of drops, MAC of EOT
  lib,                  \* a library that knows the types 63 and above
  libname               \* a name of its own

MCLayer == router :> "ROUTER" @@ drop :> "IFQ"
MCEvent == router :> "RECV" @@ drop :> "DROP"
\* Libraries register types under a name of their own, or under a built-in one.
MCName == {libname, PT.CBR}
MCKnows == lib :> [t \in 0 .. MaxTypes |->
             IF t > PT.ANT THEN "DATApkt" ELSE IF t \in {PT.TCP, PT.UDP} THEN "ROUTING" ELSE "UNCLASSIFIED"]
MCFormats == lib :> (PT.ANT + 1) .. MaxTypes

\* CBR stands for all types with a part of their own in the style that is set, ANT among them.
MCHeader ==
  {[ptype |-> PT.CBR, kind |-> "other", dst |-> "self"],
   [ptype |-> PT.TORA, kind |-> "UPD", dst |-> "broadcast"],
   [ptype |-> PT.SCTP, kind |-> "other", dst |-> "self"],
   [ptype |-> PT.SCTP, kind |-> "EMPTY", dst |-> "self"],
   [ptype |-> PT.ANT + 1, kind |-> "other", dst |-> "other"]}

PayloadSymmetry == Permutations(Payload)
=============================================================================
