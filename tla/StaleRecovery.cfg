SPECIFICATION Spec
CONSTANTS
  Runner = runner
  Handlers = {h1, h2}
  Branches = {main}
  Kinds = {"deactivate", "recover"}
  StartState = "unhealthy"
  MaxOps = 2
  MaxOutages = 0
  MaxCrashes = 0
  Overrun = FALSE
PROPERTIES OnlyActivationActivates
CHECK_DEADLOCK FALSE
