------------------------- MODULE ReconciliationJobs -------------------------
(***************************************************************************)
(* internal/jobs/jobs.go: the durable reconciliation job of one repository *)
(* as SQL statements over a row with timestamps, run by several workers    *)
(* that share nothing but the table.  Reading a row and claiming it are    *)
(* separate statements, so a claim is a compare-and-swap on what was read. *)
(*                                                                         *)
(* Time is counted in units of 15 seconds, the smallest retry delay;       *)
(* lockedAt = 0 is NULL, gen = 0 is "no row".  The id column is an INTEGER *)
(* PRIMARY KEY that SQLite reuses after a DELETE, so a row inserted again  *)
(* has the same id and generation 1: only locked_at tells it apart.        *)
(***************************************************************************)
EXTENDS Integers

CONSTANTS
  Workers,              \* goroutines and handlers that claim the job
  ReconciliationLease,  \* 8: two minutes
  MaxTime,              \* bound on the clock
  MaxAsked,             \* bound on the requests
  MaxAttempts,          \* bound on the claims of one row
  MaxCrashes            \* bound on the workers that never give a lease back

ASSUME LeaseAssumption == ReconciliationLease \in Nat \ {0}
ASSUME BoundsAssumption ==
  /\ MaxTime \in Nat \ {0}
  /\ MaxAsked \in Nat /\ MaxAttempts \in Nat /\ MaxCrashes \in Nat

VARIABLES
  now,      \* the wall clock
  row,      \* the row of table jobs
  cand,     \* cand[w]: the row w read, and when, before it claims it
  claims,   \* claims[w]: the Job value w got from a successful claim
  upTo,     \* history: the requests the claim of w undertakes
  asked,    \* history: requests made
  served,   \* history: requests worked on
  crashes

vars == <<now, row, cand, claims, upTo, asked, served, crashes>>

Job == [gen : Nat, runAt : Nat, lockedAt : Nat, attempts : Nat]
NoJob == [gen |-> 0, runAt |-> 0, lockedAt |-> 0, attempts |-> 0]
Candidate == [gen : Nat, attempts : Nat, at : Nat]
NoCandidate == [gen |-> 0, attempts |-> 0, at |-> 0]
Claim == [gen : Nat, token : Nat, attempts : Nat]
NoClaim == [gen |-> 0, token |-> 0, attempts |-> 0]

TypeOK ==
  /\ now \in 1..MaxTime
  /\ row \in Job
  /\ cand \in [Workers -> Candidate]
  /\ claims \in [Workers -> Claim]
  /\ upTo \in [Workers -> Nat]
  /\ asked \in Nat
  /\ served \in Nat
  /\ crashes \in Nat

Init ==
  /\ now = 1
  /\ row = NoJob
  /\ cand = [w \in Workers |-> NoCandidate]
  /\ claims = [w \in Workers |-> NoClaim]
  /\ upTo = [w \in Workers |-> 0]
  /\ asked = 0
  /\ served = 0
  /\ crashes = 0

Exists == row.gen # 0
Holding(w) == claims[w] # NoClaim
Idle(w) == claims[w] = NoClaim /\ cand[w] = NoCandidate
-----------------------------------------------------------------------------
(* The lease predicates of the SQL; they differ only at the boundary.      *)
LeaseActive == row.lockedAt # 0 /\ row.lockedAt + ReconciliationLease > now
LeaseFreeAt(t) ==
  row.lockedAt = 0 \/ row.lockedAt + ReconciliationLease < t

RetryDelay(attempt) ==
  CASE attempt = 1 -> 1
    [] attempt = 2 -> 2
    [] attempt = 3 -> 4
    [] attempt = 4 -> 8
    [] attempt = 5 -> 16
    [] attempt = 6 -> 32
    [] OTHER -> 60

(* INSERT ... ON CONFLICT DO UPDATE: the lease and the attempts survive.   *)
UpsertReconciliation(advance) ==
  IF Exists
  THEN [row EXCEPT !.gen = IF advance THEN @ + 1 ELSE @, !.runAt = now]
  ELSE [gen |-> 1, runAt |-> now, lockedAt |-> 0, attempts |-> 0]

(* EnqueueReconciliation, EnqueueReconciliationFailure *)
Enqueue ==
  /\ asked < MaxAsked
  /\ asked' = asked + 1
  /\ row' = UpsertReconciliation(TRUE)
  /\ UNCHANGED <<now, cand, claims, upTo, served, crashes>>

(* EnsureReconciliationFailure *)
EnsureFailure ==
  /\ row' = UpsertReconciliation(FALSE)
  /\ UNCHANGED <<now, cand, claims, upTo, asked, served, crashes>>

(* MakeDueNow: ErrReconciliationInProgress while a lease is in force (or   *)
(* exactly at its end); with no row it enqueues.                           *)
MakeDueNow ==
  /\ asked < MaxAsked
  /\ Exists => LeaseFreeAt(now)
  /\ asked' = asked + 1
  /\ row' = UpsertReconciliation(TRUE)
  /\ UNCHANGED <<now, cand, claims, upTo, served, crashes>>
-----------------------------------------------------------------------------

(* The row as read, with the time of the read. *)
Remember(w) ==
  cand' = [cand EXCEPT ![w] = [gen |-> row.gen, attempts |-> row.attempts,
                               at |-> now]]

(* ClaimDue: the SELECT of the due, unleased rows. *)
ListDue(w) ==
  /\ Idle(w)
  /\ Exists /\ row.runAt <= now /\ LeaseFreeAt(now)
  /\ Remember(w)
  /\ UNCHANGED <<now, row, claims, upTo, asked, served, crashes>>

(* ClaimRepository: the read of the row and its early returns. *)
ReadRepository(w) ==
  /\ Idle(w)
  /\ Exists /\ row.runAt <= now /\ ~LeaseActive
  /\ Remember(w)
  /\ UNCHANGED <<now, row, claims, upTo, asked, served, crashes>>

ClaimMatchesAnyLease(w) ==
  LET c == cand[w] IN row.gen = c.gen /\ row.runAt <= c.at

(* The WHERE clause of the claiming UPDATE. *)
ClaimMatches(w) ==
  LET c == cand[w]
  IN  row.gen = c.gen /\ row.runAt <= c.at /\ LeaseFreeAt(c.at)

(* claim: the UPDATE, with the time of the read as the lease token. *)
ClaimCandidate(w) ==
  LET c == cand[w] IN
  /\ c # NoCandidate
  /\ row.attempts < MaxAttempts
  /\ cand' = [cand EXCEPT ![w] = NoCandidate]
  /\ IF ClaimMatches(w)
     THEN /\ row' = [row EXCEPT !.lockedAt = c.at, !.attempts = @ + 1]
          /\ claims' = [claims EXCEPT ![w] =
               [gen |-> c.gen, token |-> c.at, attempts |-> c.attempts + 1]]
          /\ upTo' = [upTo EXCEPT ![w] = asked]
     ELSE UNCHANGED <<row, claims, upTo>>
  /\ UNCHANGED <<now, asked, served, crashes>>
-----------------------------------------------------------------------------
(* WHERE generation = ? AND locked_at = ? *)
Owns(c) == Exists /\ row.gen = c.gen /\ row.lockedAt = c.token

(* ClaimCurrent *)
Current(c) == Owns(c) /\ LeaseActive

(* releaseSupersededClaim *)
Released(c) ==
  IF Exists /\ row.gen # c.gen /\ row.lockedAt = c.token
  THEN [row EXCEPT !.lockedAt = 0]
  ELSE row

Forget(w) ==
  /\ claims' = [claims EXCEPT ![w] = NoClaim]
  /\ upTo' = [upTo EXCEPT ![w] = 0]

CompleteAnyGeneration(w) ==
  LET c == claims[w] IN
  /\ Holding(w)
  /\ row' = IF Exists /\ row.lockedAt = c.token THEN NoJob ELSE row
  /\ served' = IF Exists /\ row.lockedAt = c.token THEN upTo[w] ELSE served
  /\ Forget(w)
  /\ UNCHANGED <<now, cand, asked, crashes>>

(* CompleteClaim *)
CompleteClaim(w) ==
  LET c == claims[w] IN
  /\ Holding(w)
  /\ row' = IF Owns(c) THEN NoJob ELSE Released(c)
  /\ served' = IF Owns(c) THEN upTo[w] ELSE served
  /\ Forget(w)
  /\ UNCHANGED <<now, cand, asked, crashes>>

RescheduleAnyLease(w) ==
  LET c == claims[w] IN
  /\ Holding(w)
  /\ row' = IF Exists /\ row.gen = c.gen
            THEN [row EXCEPT !.lockedAt = 0,
                             !.runAt = now + RetryDelay(c.attempts)]
            ELSE Released(c)
  /\ Forget(w)
  /\ UNCHANGED <<now, cand, asked, served, crashes>>

(* RescheduleClaim *)
RescheduleClaim(w) ==
  LET c == claims[w] IN
  /\ Holding(w)
  /\ row' = IF Owns(c)
            THEN [row EXCEPT !.lockedAt = 0,
                             !.runAt = now + RetryDelay(c.attempts)]
            ELSE Released(c)
  /\ Forget(w)
  /\ UNCHANGED <<now, cand, asked, served, crashes>>

(* The process stops, or the request context is cancelled. *)
Crash(w) ==
  /\ crashes < MaxCrashes
  /\ ~Idle(w)
  /\ crashes' = crashes + 1
  /\ cand' = [cand EXCEPT ![w] = NoCandidate]
  /\ Forget(w)
  /\ UNCHANGED <<now, row, asked, served>>

Tick ==
  /\ now < MaxTime
  /\ now' = now + 1
  /\ UNCHANGED <<row, cand, claims, upTo, asked, served, crashes>>

Step(w) ==
  \/ ListDue(w) \/ ReadRepository(w) \/ ClaimCandidate(w)
  \/ CompleteClaim(w) \/ RescheduleClaim(w) \/ Crash(w)

Next ==
  \/ Enqueue \/ EnsureFailure \/ MakeDueNow \/ Tick
  \/ \E w \in Workers : Step(w)

Spec == Init /\ [][Next]_vars
-----------------------------------------------------------------------------
(* At any instant at most one worker passes ClaimCurrent, the check made   *)
(* before every evaluation and publication, although a slow worker whose   *)
(* lease ran out still holds its claim.                                    *)
OneCurrentClaim ==
  \A v, w \in Workers :
    Holding(v) /\ Holding(w) /\ Current(claims[v]) /\ Current(claims[w])
      => v = w

(* No request is lost: the row is deleted only by a worker whose claim     *)
(* came after the latest Enqueue, whatever was read, expired, taken over,  *)
(* deleted and inserted again with the same id in between.                 *)
NoLostRequest == ~Exists => served = asked

(* Two workers never hold claims on the same token, and a later claim was  *)
(* taken only after the lease of the earlier one had run out, although     *)
(* the token is the time of an earlier read and not of the UPDATE.         *)
LeasesApart ==
  \A v, w \in Workers :
    Holding(v) /\ Holding(w) /\ v # w =>
      \/ claims[v].token + ReconciliationLease < claims[w].token
      \/ claims[w].token + ReconciliationLease < claims[v].token

(* Of the claims still held, the one in the row is the latest; when the    *)
(* row is unlocked or gone, every held claim has outlived its lease, and   *)
(* nobody who read the row before that can lock it.                        *)
LockIsLatest ==
  \A w \in Workers : Holding(w) =>
    /\ row.lockedAt # 0 =>
         \/ claims[w].token = row.lockedAt
         \/ claims[w].token + ReconciliationLease < row.lockedAt
    /\ row.lockedAt = 0 =>
         /\ claims[w].token + ReconciliationLease < now
         /\ Exists => claims[w].token + ReconciliationLease < row.runAt

(* The claim in the row undertakes every request unless newer work has     *)
(* been enqueued under it, which shows in the generation.                  *)
GenerationMarksNewWork ==
  \A w \in Workers : Holding(w) /\ Owns(claims[w]) => upTo[w] = asked

ClockOrder ==
  /\ row.lockedAt <= now
  /\ \A w \in Workers : cand[w].at <= now /\ claims[w].token <= now
  /\ \A w \in Workers :
       /\ cand[w] # NoCandidate => cand[w].gen # 0 /\ cand[w].at # 0
       /\ Holding(w) => claims[w].gen # 0 /\ claims[w].token # 0
       /\ ~(Holding(w) /\ cand[w] # NoCandidate)
       /\ Holding(w) /\ Exists /\ row.lockedAt = claims[w].token =>
            /\ claims[w].gen <= row.gen
            /\ row.gen # claims[w].gen => row.runAt >= claims[w].token
  /\ ~Exists => row = NoJob

(* The inductive invariant. *)
IInv ==
  /\ TypeOK
  /\ ClockOrder
  /\ LeasesApart
  /\ LockIsLatest
  /\ GenerationMarksNewWork
  /\ NoLostRequest
-----------------------------------------------------------------------------
(* The table as its callers see it.                                        *)
JobView ==
  [gen |-> row.gen,
   run |-> IF Exists /\ row.runAt <= now THEN "due" ELSE "later",
   token |-> row.lockedAt,
   lease |-> IF row.lockedAt = 0 THEN "free"
             ELSE IF LeaseActive THEN "live" ELSE "expired"]
ClaimView ==
  [w \in Workers |-> [gen |-> claims[w].gen, token |-> claims[w].token]]

Work == INSTANCE LeasedJob WITH
  Tokens <- 1..MaxTime, row <- JobView, claims <- ClaimView

(* jobs.go keeps the promise of LeasedJob. *)
ImplementsLeasedJob == Work!Spec
=============================================================================
