------------------------------ MODULE MCDeletion ------------------------------
(***************************************************************************)
(* Deletion with two questions and two answers that may overlap.           *)
(***************************************************************************)
EXTENDS Deletion, TLC
=============================================================================
