---------------------------- MODULE MCSearchLoop ----------------------------
EXTENDS SearchLoop, TLC
Symmetry == Permutations(Drivers) \cup Permutations(Loops)
=============================================================================
