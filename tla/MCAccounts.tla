----------------------------- MODULE MCAccounts -----------------------------
EXTENDS Accounts, TLC

Symmetric == Permutations(Users) \cup Permutations(Sessions)
=============================================================================
