------------------------------- MODULE JobRow -------------------------------
(***************************************************************************)
(* The durable reconciliation job of ONE repository, as the callers of     *)
(* internal/jobs see it.  A partial unique index keeps at most one row per *)
(* repository, so a row is a value: its generation (0 when there is no     *)
(* row), whether its run_at has been reached, the lease token in locked_at *)
(* (0 when NULL) and whether the lease of that token is still in force.    *)
(*                                                                         *)
(* Wall-clock time is abstracted to the fields run and lease;              *)
(* ReconciliationJobs has the clock, and is shown to implement LeasedJob,  *)
(* the state machine made of these operators.  attempts and last_error     *)
(* decide only the backoff and a label, and are left to that module.       *)
(***************************************************************************)
EXTENDS Naturals

Row == [gen : Nat, run : {"due", "later"},
        token : Nat, lease : {"free", "live", "expired"}]
NoRow == [gen |-> 0, run |-> "later", token |-> 0, lease |-> "free"]

(* What a caller keeps of a claimed job: the generation and the lease      *)
(* token it observed.                                                      *)
NoClaim == [gen |-> 0, token |-> 0]

Exists(row) == row.gen # 0

(* upsertReconciliation with advance: EnqueueReconciliation and            *)
(* EnqueueReconciliationFailure.  An existing lease is left alone.         *)
Enqueued(row) ==
  [gen |-> row.gen + 1, run |-> "due", token |-> row.token, lease |-> row.lease]

(* upsertReconciliation without advance: EnsureReconciliationFailure.      *)
Ensured(row) ==
  IF Exists(row) THEN [row EXCEPT !.run = "due"] ELSE Enqueued(row)

LeaseFree(row) == row.lease # "live"

ClaimableWhileLeased(row) == Exists(row) /\ row.run = "due"

(* ClaimRepository and one candidate of ClaimDue: due, and not leased.     *)
Claimable(row) == Exists(row) /\ row.run = "due" /\ LeaseFree(row)

Claimed(row, token) ==
  [gen |-> row.gen, run |-> row.run, token |-> token, lease |-> "live"]
ClaimOn(row) == [gen |-> row.gen, token |-> row.token]

Unlocked(row) ==
  [gen |-> row.gen, run |-> row.run, token |-> 0, lease |-> "free"]

(* The exact generation and token are still in the table.                  *)
Owns(row, claim) ==
  Exists(row) /\ claim.gen = row.gen /\ claim.token = row.token

(* ClaimCurrent: the exact generation and token, with the lease in force.  *)
Current(row, claim) == Owns(row, claim) /\ row.lease = "live"

(* releaseSupersededClaim: newer work keeps the row, the old lease goes.   *)
Released(row, claim) ==
  IF Exists(row) /\ claim.gen # row.gen /\ claim.token = row.token
  THEN Unlocked(row)
  ELSE row

CompletedByToken(row, claim) ==
  IF Exists(row) /\ claim.token = row.token THEN NoRow ELSE row

(* CompleteClaim *)
Completed(row, claim) ==
  IF Owns(row, claim) THEN NoRow ELSE Released(row, claim)

(* RescheduleClaim: run_at moves RetryDelay into the future.               *)
Rescheduled(row, claim) ==
  IF Owns(row, claim)
  THEN [Unlocked(row) EXCEPT !.run = "later"]
  ELSE Released(row, claim)

(* MakeDueNow succeeds unless a worker's lease is in force.                *)
MadeDueNow(row) == Enqueued(row)
=============================================================================
