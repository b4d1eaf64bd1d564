--------------------------- MODULE MCAllocatorPool ---------------------------
EXTENDS AllocatorPool, TLC

\* Threads and mspaces differ only in what happens to them.
Symmetry == Permutations(Threads) \cup Permutations(Mspaces)

==============================================================================
