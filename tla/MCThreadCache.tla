---------------------------- MODULE MCThreadCache ----------------------------
EXTENDS ThreadCache, TLC

\* Blocks differ only in what happens to them.
Symmetry == Permutations(Blocks)

==============================================================================
