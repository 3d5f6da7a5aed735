----------------------------- MODULE MCDualWrite -----------------------------
EXTENDS DualWrite, TLC

Symmetric == Permutations(Workers)
==============================================================================
