SPECIFICATION Spec
CONSTANTS
  Runner = runner
  Handlers = {h1}
  Branches = {main}
  Kinds = {"verify", "activate", "deactivate", "reconcile", "recover", "freeze",
           "schedule", "relabel", "readiness", "token", "branches", "secret"}
  StartState = "setup_incomplete"
  MaxOps = 5
  MaxOutages = 2
  MaxCrashes = 1
  Overrun = FALSE
INVARIANTS NoJobMeansGated
PROPERTIES PublishOnlyWhileEnforced LifecycleIsExplicit
CHECK_DEADLOCK FALSE
