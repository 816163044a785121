----------------------------- MODULE MCLibftList -----------------------------
EXTENDS LibftList, TLC

\* The addresses of nodes and of contents are interchangeable.
Symmetry == Permutations(Nodes) \cup Permutations(Contents)
=============================================================================
