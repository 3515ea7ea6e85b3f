---------------------------- MODULE MCForgeIdentity ----------------------------
EXTENDS ForgeIdentity, TLC

Symmetric == Permutations(Users) \cup Permutations(Accounts) \cup Permutations(Urls)
=============================================================================
