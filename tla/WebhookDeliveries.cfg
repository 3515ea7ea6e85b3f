SPECIFICATION FairSpec
CONSTANTS
  Ids = {k1, k2}
  Unsupported = {k2}
  Requests = {q1, q2}
  NoId = no_id
  MaxFaults = 2
  MaxRotations = 2
INVARIANTS LedgerIsKept
PROPERTIES OutcomesAreKept RedeliveredIsProcessed
CHECK_DEADLOCK FALSE
