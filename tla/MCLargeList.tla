----------------------------- MODULE MCLargeList -----------------------------
EXTENDS LargeList, TLC

\* Threads and addresses are interchangeable: nothing orders them.
Symmetry == Permutations(Threads) \cup Permutations(Addresses)
=============================================================================
