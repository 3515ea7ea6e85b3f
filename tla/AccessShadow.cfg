SPECIFICATION ShadowSpec
CONSTANTS
  Urls = {forge1}
  Organizations = {org1}
  Repos = {r1}
  Remotes = {m1}
  Names = {n1}
  Users = {u1, u2}
  Accounts = {a1}
  None = none
  MaxRevision = 2
  MaxConnections = 2
  MaxChecks = 1
  MaxRuns = 2
  IdentityLimit = 2
  RepositoryLimit = 1
  PairLimit = 2
SYMMETRY Symmetric
INVARIANTS ObservationsAreShown
PROPERTIES AttemptsAreFinal
CHECK_DEADLOCK FALSE
