---------------------------- MODULE MCCallControl ----------------------------
EXTENDS CallControl, TLC

Symmetry == Permutations(Requests) \cup Permutations(Calls)
=============================================================================
