---------------------------- MODULE MCIrqLines ----------------------------
EXTENDS IrqLines, TLC

Symmetry == Permutations(Bindings)
=============================================================================
