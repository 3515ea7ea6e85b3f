SPECIFICATION Spec
CONSTANTS
  Runner = runner
  Handlers = {h1, h2}
  Branches = {main, release}
  Kinds = {"freeze"}
  StartState = "active"
  MaxOps = 3
  MaxOutages = 0
  MaxCrashes = 0
  Overrun = FALSE
INVARIANTS NoJobMeansPublished
CHECK_DEADLOCK FALSE
