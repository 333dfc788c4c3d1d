---------------------------- MODULE SequenceSums ----------------------------
(***************************************************************************)
(* The sum of a sequence of numbers.  The code has it as a loop over the   *)
(* links of a row (calc_next) and, in ns-2's PacketQueue, as the running   *)
(* number of bytes in a queue.                                             *)
(***************************************************************************)
EXTENDS Integers, Sequences, SequencesExt

Total(s) == FoldLeft(LAMBDA sum, x : sum + x, 0, s)
=============================================================================
