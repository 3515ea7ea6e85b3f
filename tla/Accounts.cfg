SPECIFICATION Spec
CONSTANTS
  Users = {u1, u2, u3}
  Sessions = {s1, s2}
  Grants = {g1}
  Nobody = nobody
  NoSession = none
  MaxMints = 4
  MaxRequests = 2
SYMMETRY Symmetric
INVARIANTS AdministratorRemains CredentialsAreCurrent InvitationsAreSound
PROPERTIES AuthorityIsExact
CHECK_DEADLOCK FALSE
