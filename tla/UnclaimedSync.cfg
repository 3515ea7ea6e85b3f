SPECIFICATION Spec
CONSTANTS
  PRs = {p1, p2}
  Branches = {main, dev}
  Heads = {h}
  Freezable = {main}
  Runner = runner
  Handlers = {h1, h2}
  Kinds = {"approve"}
  MaxMoves = 1
  MaxOps = 1
  MaxCrashes = 0
INVARIANTS SharedHeadIsGated
CHECK_DEADLOCK FALSE
