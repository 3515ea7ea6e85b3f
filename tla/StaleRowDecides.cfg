SPECIFICATION Spec
CONSTANTS
  PRs = {p1, p2}
  Branches = {main, dev}
  Heads = {ha, hb}
  Freezable = {main}
  Runner = runner
  Handlers = {h1, h2}
  Kinds = {}
  MaxMoves = 1
  MaxOps = 0
  MaxCrashes = 0
INVARIANTS NotOverBlocked
CHECK_DEADLOCK FALSE
