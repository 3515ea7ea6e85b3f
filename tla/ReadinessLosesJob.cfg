SPECIFICATION Spec
CONSTANTS
  Runner = runner
  Handlers = {h1, h2}
  Branches = {main}
  Kinds = {"freeze", "readiness"}
  StartState = "active"
  MaxOps = 2
  MaxOutages = 1
  MaxCrashes = 0
  Overrun = FALSE
INVARIANTS UnhealthyHasJob
CHECK_DEADLOCK FALSE
