------------------------------ MODULE LeasedJob ------------------------------
(***************************************************************************)
(* What the job table promises: a coalescing, at-least-once work item with *)
(* an expiring lease.  Requests (asked) may arrive at any time; a worker   *)
(* that takes the lease undertakes every request made so far (upTo); work  *)
(* disappears only when a worker finishes having seen every request.       *)
(* asked, served and upTo are history, not columns: they say what the      *)
(* generation number is for.                                               *)
(***************************************************************************)
EXTENDS JobRow

CONSTANTS
  Workers,     \* processes, goroutines and HTTP handlers that claim the job
  Tokens,      \* lease tokens (the distinct values of locked_at)
  MaxAsked,    \* bound on the requests of a behaviour
  MaxCrashes   \* bound on the workers that stop without giving the lease back

VARIABLES
  row,      \* the job row
  claims,   \* claims[w]: the claim worker w holds, or NoClaim
  upTo,     \* upTo[w]: the number of requests w's claim undertakes
  asked,    \* requests made so far
  served,   \* requests known to have been worked on
  crashes

vars == <<row, claims, upTo, asked, served, crashes>>

Init ==
  /\ row = NoRow
  /\ claims = [w \in Workers |-> NoClaim]
  /\ upTo = [w \in Workers |-> 0]
  /\ asked = 0
  /\ served = 0
  /\ crashes = 0

Holding(w) == claims[w] # NoClaim

FreshToken(t) == \A w \in Workers : Holding(w) => claims[w].token # t

(* EnqueueReconciliation and EnqueueReconciliationFailure *)
Request ==
  /\ asked < MaxAsked
  /\ asked' = asked + 1
  /\ row' = Enqueued(row)
  /\ UNCHANGED <<claims, upTo, served, crashes>>

(* EnsureReconciliationFailure: the work is there, whoever asked for it. *)
Ensure ==
  /\ row' = Ensured(row)
  /\ UNCHANGED <<claims, upTo, asked, served, crashes>>

(* MakeDueNow: a request that is refused while a lease is in force. *)
DueNow ==
  /\ asked < MaxAsked
  /\ LeaseFree(row)
  /\ asked' = asked + 1
  /\ row' = MadeDueNow(row)
  /\ UNCHANGED <<claims, upTo, served, crashes>>

(* A claim.  The lease is normally in force, but a worker that was slow    *)
(* between reading the row and updating it may take one already expired.   *)
Take(w) ==
  /\ ~Holding(w)
  /\ Claimable(row)
  /\ \E t \in Tokens, lease \in {"live", "expired"} :
       /\ FreshToken(t)
       /\ row' = [Claimed(row, t) EXCEPT !.lease = lease]
  /\ claims' = [claims EXCEPT ![w] = ClaimOn(row')]
  /\ upTo' = [upTo EXCEPT ![w] = asked]
  /\ UNCHANGED <<asked, served, crashes>>

Drop(w) ==
  /\ claims' = [claims EXCEPT ![w] = NoClaim]
  /\ upTo' = [upTo EXCEPT ![w] = 0]

(* CompleteClaim *)
Complete(w) ==
  /\ Holding(w)
  /\ row' = Completed(row, claims[w])
  /\ served' = IF Owns(row, claims[w]) THEN upTo[w] ELSE served
  /\ Drop(w)
  /\ UNCHANGED <<asked, crashes>>

(* RescheduleClaim *)
Reschedule(w) ==
  /\ Holding(w)
  /\ row' = Rescheduled(row, claims[w])
  /\ Drop(w)
  /\ UNCHANGED <<asked, served, crashes>>

(* A worker dies, is cancelled, or returns without completing. *)
Crash(w) ==
  /\ crashes < MaxCrashes
  /\ crashes' = crashes + 1
  /\ Drop(w)
  /\ UNCHANGED <<row, asked, served>>

(* Time passes: run_at is reached, or the lease runs out. *)
Elapse ==
  /\ Exists(row)
  /\ \E run \in {row.run, "due"} :
       \/ row' = [row EXCEPT !.run = run]
       \/ row.lease = "live" /\ row' = [row EXCEPT !.run = run, !.lease = "expired"]
  /\ UNCHANGED <<claims, upTo, asked, served, crashes>>

Work(w) == Take(w) \/ Complete(w) \/ Reschedule(w) \/ Crash(w)
Next == Request \/ Ensure \/ DueNow \/ Elapse \/ (\E w \in Workers : Work(w))

Spec == Init /\ [][Next]_vars
=============================================================================
