---------------------------- MODULE MCEnforcement ----------------------------
EXTENDS Enforcement, TLC

Symmetric == Permutations(Handlers)
=============================================================================
