SPECIFICATION Spec
CONSTANTS
  PRs = {p1, p2}
  Branches = {main, dev}
  Heads = {ha}
  Freezable = {main}
  Runner = runner
  Handlers = {h1, h2}
  Kinds = {"approve", "freeze"}
  MaxMoves = 1
  MaxOps = 2
  MaxCrashes = 1
SYMMETRY Symmetric
INVARIANTS DecisionsAreCurrent RInv
PROPERTIES ThawsAreShown ReconciliationIsExact
CHECK_DEADLOCK FALSE
