------------------------------ MODULE MCInterns ------------------------------
(***************************************************************************)
(* Interns on one or two interns, two companies and up to three queries    *)
(* that overlap: those of the page that is open and of pages that were     *)
(* left.  Interns meet only in an answer, which replaces the whole list.   *)
(***************************************************************************)
EXTENDS Interns, TLC

Symmetry == Permutations(People) \cup Permutations(Companies)
=============================================================================
