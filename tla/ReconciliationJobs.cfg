SPECIFICATION Spec
CONSTANTS
  Workers = {w1, w2}
  ReconciliationLease = 2
  MaxTime = 5
  MaxAsked = 2
  MaxAttempts = 3
  MaxCrashes = 1
SYMMETRY Symmetric
INVARIANTS IInv OneCurrentClaim
PROPERTIES ImplementsLeasedJob
CHECK_DEADLOCK FALSE
