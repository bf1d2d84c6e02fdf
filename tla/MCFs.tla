-------------------------------- MODULE MCFs --------------------------------
EXTENDS Fs, TLC
Symmetric == Permutations(Proc) \cup Permutations(Name)
=============================================================================
