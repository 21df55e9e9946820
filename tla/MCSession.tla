------------------------------ MODULE MCSession ------------------------------
\* Session for TLC: accounts and page instances are interchangeable.
EXTENDS Session, TLC

Symmetry == Permutations(Accounts) \cup Permutations(Views)
=============================================================================
