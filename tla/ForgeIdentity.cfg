SPECIFICATION IdentitySpec
CONSTANTS
  Urls = {forge1, forge2}
  Organizations = {org1}
  Repos = {}
  Remotes = {}
  Names = {}
  Users = {u1, u2}
  Accounts = {a1, a2}
  None = none
  MaxRevision = 2
  MaxConnections = 2
  MaxChecks = 1
  MaxSessions = 2
  MaxLinks = 2
SYMMETRY Symmetric
INVARIANTS LinksAreHome
PROPERTIES LinksChangeByOwners
CHECK_DEADLOCK FALSE
