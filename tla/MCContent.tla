------------------------------ MODULE MCContent ------------------------------
EXTENDS Content, TLC

\* Requests are alike.
Symmetry == Permutations(Slots)
=============================================================================
