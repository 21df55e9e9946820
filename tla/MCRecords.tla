------------------------------- MODULE MCRecords -------------------------------
(***************************************************************************)
(* Records on a profile of two fields and one field of contact data.       *)
(***************************************************************************)
EXTENDS Records, TLC

Symmetry == Permutations(Values) \cup Permutations(Profile)
=============================================================================
