-------------------------------- MODULE MCVm --------------------------------
EXTENDS Vm, TLC
Symmetric == Permutations(Proc \ {INITPROC})
=============================================================================
