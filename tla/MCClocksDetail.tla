---------------------------- MODULE MCClocksDetail ----------------------------
(***************************************************************************)
(* ClocksDetail on two dates and a few overlapping queries and taps.       *)
(***************************************************************************)
EXTENDS ClocksDetail, TLC
=============================================================================
