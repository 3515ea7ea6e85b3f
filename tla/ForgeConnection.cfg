SPECIFICATION Spec
CONSTANTS
  Urls = {forge1}
  Organizations = {org1, org2}
  Repos = {r1, r2}
  Remotes = {m1, m2, m3}
  Names = {n1, n2}
  Users = {u1}
  Accounts = {a1}
  None = none
  MaxRevision = 3
  MaxConnections = 2
  MaxChecks = 2
SYMMETRY Symmetric
INVARIANTS BindingsAreKept
PROPERTIES FormsSeeTheRow FreshBindingIsCurrent
CHECK_DEADLOCK FALSE
