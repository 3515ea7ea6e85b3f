------------------------ MODULE MCReconciliationJobs ------------------------
(* Two or three workers on one job row, with the delays and the lease of   *)
(* the code in units of 15 seconds.                                        *)
EXTENDS ReconciliationJobs, TLC

Symmetric == Permutations(Workers)
=============================================================================
