---------------------------- MODULE MCLinkQueue ----------------------------
(***************************************************************************)
(* LinkQueue for the model checker: next hops are interchangeable.         *)
(***************************************************************************)
EXTENDS LinkQueue, TLC

HopSymmetry == Permutations(Hop)
=============================================================================
