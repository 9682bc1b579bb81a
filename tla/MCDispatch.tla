----------------------------- MODULE MCDispatch -----------------------------
EXTENDS Dispatch, TLC
Symmetry == Permutations(Drivers) \cup Permutations(Calls)
=============================================================================
