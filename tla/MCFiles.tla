------------------------------ MODULE MCFiles ------------------------------
EXTENDS Files, TLC
Symmetric == Permutations(Proc) \cup Permutations(PipeId)
=============================================================================
