SPECIFICATION FairSpec
CONSTANTS
  Runner = runner
  Handlers = {h1, h2}
  Branches = {main}
  Kinds = {"deactivate", "reconcile", "recover", "freeze", "schedule"}
  StartState = "active"
  MaxOps = 4
  MaxOutages = 1
  MaxCrashes = 1
  Overrun = FALSE
INVARIANTS WorkIsKept OnePublisher FreezesMatchEnforcement
PROPERTIES Settles
CHECK_DEADLOCK FALSE
