------------------------------- MODULE MCWal -------------------------------
EXTENDS WalProperties, TLC

Symmetry == Permutations(Muts)
=============================================================================
