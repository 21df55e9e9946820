----------------------------- MODULE MCDirectory -----------------------------
(***************************************************************************)
(* Directory on few companies, two contents and one or two instances of    *)
(* the detail page; the second instance is there for the call of a page    *)
(* that was left.                                                          *)
(***************************************************************************)
EXTENDS Directory, TLC

Symmetry == Permutations(Names) \cup Permutations(Pages)
=============================================================================
