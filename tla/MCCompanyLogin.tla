--------------------------- MODULE MCCompanyLogin ---------------------------
EXTENDS CompanyLogin, TLC

Symmetric == Permutations(Users) \cup Permutations(Sessions) \cup Permutations(Tokens)
=============================================================================
