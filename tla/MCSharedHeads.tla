---------------------------- MODULE MCSharedHeads ----------------------------
EXTENDS SharedHeads, TLC

Symmetric == Permutations(Handlers) \cup Permutations(PRs) \cup Permutations(Heads)
=============================================================================
