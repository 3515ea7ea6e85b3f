---------------------------- MODULE MCAccessShadow ----------------------------
EXTENDS AccessShadow, TLC

Symmetric == Permutations(Users)
=============================================================================
