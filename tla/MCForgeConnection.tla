-------------------------- MODULE MCForgeConnection --------------------------
EXTENDS ForgeConnection, TLC

Symmetric == Permutations(Organizations) \cup Permutations(Repos)
                \cup Permutations(Remotes) \cup Permutations(Names)
=============================================================================
