SPECIFICATION CompanySpec
CONSTANTS
  Users = {u1, u2}
  Sessions = {s1}
  Grants = {}
  Nobody = nobody
  NoSession = none
  Tokens = {t1, t2}
  NoToken = no_token
  MaxMints = 3
  MaxRequests = 0
  MaxLogins = 1
  MaxRevision = 2
  MaxGeneration = 5
  MaxCeremonies = 1
  MaxInFlight = 2
SYMMETRY Symmetric
INVARIANTS CompanyAccessIsAuthorized EnabledOnEvidence
PROPERTIES IdentityChangesAreFenced
CHECK_DEADLOCK FALSE
