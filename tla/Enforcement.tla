----------------------------- MODULE Enforcement -----------------------------
(***************************************************************************)
(* The enforcement of ONE repository: its lifecycle state, its freezes,    *)
(* the durable reconciliation job (JobRow) and the commit statuses on the  *)
(* forge, driven by concurrent sessions.  A session is one run of          *)
(* VerifyStatusPosting, ActivateEnforcement, DeactivateEnforcement,        *)
(* ReconcileEnforcement, RecoverEnforcement, processReconciliationClaim or *)
(* convergeFreeze: a sequence of transactions and forge calls between      *)
(* which the other sessions move.  Each step below is one transaction, one *)
(* statement outside a transaction, or one forge call; SQLite serialises   *)
(* the transactions, so nothing happens inside a step.                     *)
(*                                                                         *)
(* Abstracted: every branch has one open pull request head, which it       *)
(* shares with no other branch; a freeze is its label ("first", "second":  *)
(* two schedule attributions), which is all of it a commit status shows; a *)
(* branch has one freeze slot; the lease is the field row.lease.           *)
(***************************************************************************)
EXTENDS JobRow, FiniteSets

CONSTANTS
  Runner,       \* the goroutine of repository_reconciliation_runner.go
  Handlers,     \* HTTP requests, the freeze lifecycle runner, the scheduler
  Branches,     \* managed branches with an open pull request
  Kinds,        \* the operations handlers start in this instance
  StartState,   \* "setup_incomplete" (a new repository), "active" or "unhealthy"
  MaxOps,       \* bound on the operations started
  MaxOutages,   \* bound on the periods in which forge calls fail
  MaxCrashes,   \* bound on sessions cut short (cancelled context, restart)
  Overrun       \* may a session outlast its two-minute lease?

Sessions == Handlers \cup {Runner}

ASSUME SessionsAssumption ==
  Runner \notin Handlers /\ IsFiniteSet(Handlers)
ASSUME StartAssumption == StartState \in {"setup_incomplete", "active", "unhealthy"}
ASSUME EnforcementBoundsAssumption ==
  MaxOps \in Nat /\ MaxOutages \in Nat /\ MaxCrashes \in Nat /\ Overrun \in BOOLEAN

VARIABLES
  state,     \* repositories.enforcement_state
  verified,  \* repositories.status_post_verified_at is set
  covered,   \* history: the last evidence is about today's token and branches
  freeze,    \* freeze[b]: "none", "scheduled", or the label of the active one
  posted,    \* posted[b]: the thawguard/freeze status on the head of b
  forgeUp,   \* forge calls and readiness checks succeed
  row,       \* the repository's reconciliation job
  pc,        \* pc[s]: the next step of session s
  op,        \* op[s]: what s is running
  todo,      \* todo[s]: branches whose heads s has still to publish
  claim,     \* claim[s]: the job claim s holds
  seen,      \* seen[s]: <<branch, status>> s evaluated and has not sent yet
  stale,     \* sessions whose loaded repository row has changed since
  drifted,   \* sessions whose readiness pass predates a setup change
  ops, outages, crashes

repo == <<state, verified, covered>>
forge == <<posted, forgeUp>>
local == <<pc, op, todo, claim, seen>>
bounds == <<ops, outages, crashes>>
vars == <<repo, freeze, forge, row, local, stale, drifted, bounds>>

States == {"setup_incomplete", "ready", "active", "unhealthy"}
Labels == {"first", "second"}
Steps == {"idle", "enqueue", "claim", "load", "discard", "check", "post",
          "sync", "mark", "evaluate", "fence", "gate", "send", "record",
          "fail", "failToken", "release", "unset", "unready", "unverify"}
Claim == [gen : Nat, token : Nat]
NothingSeen == <<"none", "thawed">>

TypeOK ==
  /\ state \in States /\ verified \in BOOLEAN /\ covered \in BOOLEAN
  /\ freeze \in [Branches -> {"none", "scheduled"} \cup Labels]
  /\ posted \in [Branches -> {"nothing", "thawed"} \cup Labels]
  /\ forgeUp \in BOOLEAN
  /\ row \in Row
  /\ pc \in [Sessions -> Steps]
  /\ op \in [Sessions -> {"none", "verify", "activate", "deactivate",
                          "reconcile", "recover", "readiness",
                          "converge", "runner"}]
  /\ todo \in [Sessions -> SUBSET Branches]
  /\ claim \in [Sessions -> Claim]
  /\ seen \in [Sessions ->
                {NothingSeen} \cup (Branches \X ({"thawed"} \cup Labels))]
  /\ stale \subseteq Sessions /\ drifted \subseteq Sessions
  /\ ops \in Nat /\ outages \in Nat /\ crashes \in Nat
  /\ \A s \in Sessions : pc[s] = "idle" <=> op[s] = "none"
  /\ \A s \in Sessions : pc[s] = "idle" => claim[s] = NoClaim

Init ==
  /\ state = StartState
  /\ verified = (StartState # "setup_incomplete")
  /\ covered = (StartState # "setup_incomplete")
  /\ freeze = [b \in Branches |-> "none"]
  /\ posted = [b \in Branches |->
                 IF StartState = "setup_incomplete" THEN "nothing" ELSE "thawed"]
  /\ forgeUp = TRUE
  /\ row = IF StartState = "unhealthy" THEN Enqueued(NoRow) ELSE NoRow
  /\ pc = [s \in Sessions |-> "idle"]
  /\ op = [s \in Sessions |-> "none"]
  /\ todo = [s \in Sessions |-> {}]
  /\ claim = [s \in Sessions |-> NoClaim]
  /\ seen = [s \in Sessions |-> NothingSeen]
  /\ stale = {} /\ drifted = {}
  /\ ops = 0 /\ outages = 0 /\ crashes = 0
-----------------------------------------------------------------------------
(* Helpers *)

Frozen(b) == freeze[b] \in Labels
Policy(b) == IF Frozen(b) THEN freeze[b] ELSE "thawed"
NoFreezes == \A b \in Branches : freeze[b] = "none"

Goto(s, step) ==
  /\ pc' = [pc EXCEPT ![s] = step]
  /\ UNCHANGED <<op, todo, claim, seen>>

(* The session returns to its caller and its local variables are gone. *)
Stop(s) ==
  /\ pc' = [pc EXCEPT ![s] = "idle"]
  /\ op' = [op EXCEPT ![s] = "none"]
  /\ todo' = [todo EXCEPT ![s] = {}]
  /\ claim' = [claim EXCEPT ![s] = NoClaim]
  /\ seen' = [seen EXCEPT ![s] = NothingSeen]

(* A handler starts an operation of the given kind. *)
StartAt(s, kind, step, branches) ==
  /\ s \in Handlers /\ pc[s] = "idle" /\ ops < MaxOps
  /\ ops' = ops + 1
  /\ pc' = [pc EXCEPT ![s] = step]
  /\ op' = [op EXCEPT ![s] = kind]
  /\ todo' = [todo EXCEPT ![s] = branches]
  /\ UNCHANGED <<claim, seen, outages, crashes>>

(* Every write to the repositories row moves updated_at, which readiness   *)
(* persistence and verification compare with the row they loaded.          *)
RepositoryWritten ==
  stale' = {s \in Sessions :
              \/ op[s] = "verify"
              \/ pc[s] \in {"enqueue", "claim", "check"} /\ op[s] # "converge"}
Fresh(s) == s \notin stale

(* A lease token no session in flight holds: locked_at values differ.      *)
FreshToken ==
  CHOOSE t \in 1..Cardinality(Sessions) : \A s \in Sessions : claim[s].token # t

(* ClaimRepository for session s on a given row, then the next step. *)
TakeClaim(s, on, kind, step) ==
  /\ row' = Claimed(on, FreshToken)
  /\ claim' = [claim EXCEPT ![s] = ClaimOn(row')]
  /\ pc' = [pc EXCEPT ![s] = step]
  /\ op' = [op EXCEPT ![s] = kind]
  /\ UNCHANGED <<todo, seen>>

(* Failure of a forge call during a convergence: deactivation only         *)
(* reschedules, everything else records unhealthy first.                   *)
FailedStep(s) == IF op[s] = "deactivate" THEN "release" ELSE "fail"

(* The claim is no longer current.  convergeFreeze returns, reconciliation *)
(* and deactivation give the claim back, activation and recovery record    *)
(* the failure as well.                                                    *)
ClaimLost(s) ==
  \/ op[s] = "converge" /\ Stop(s)
  \/ op[s] \in {"reconcile", "deactivate"} /\ Goto(s, "release")
  \/ op[s] \in {"activate", "recover"} /\ Goto(s, "fail")
-----------------------------------------------------------------------------
(* Operations on the lifecycle *)

StartableIn == [verify |-> {"setup_incomplete", "ready"}, activate |-> {"ready"},
                deactivate |-> {"active"}, reconcile |-> {"active"},
                recover |-> {"unhealthy"}, readiness |-> States]

(* The entry of the operations: load the repository, refuse a wrong   *)
(* state (and, for deactivation, a freeze).                                *)
Start(s, kind) ==
  /\ kind \in Kinds /\ state \in StartableIn[kind]
  /\ kind = "deactivate" => NoFreezes
  /\ StartAt(s, kind, IF kind \in {"verify", "activate", "readiness"}
                         THEN "check" ELSE "enqueue", {})
  /\ stale' = stale \ {s}
  /\ UNCHANGED <<repo, freeze, forge, row, drifted>>

(* EnqueueReconciliation by a reconciliation or a deactivation; MakeDueNow *)
(* by a recovery, refused while a lease is in force.                       *)
EnqueueWork(s) ==
  /\ pc[s] = "enqueue"
  /\ IF op[s] = "recover" /\ ~LeaseFree(row)
       THEN Stop(s) /\ UNCHANGED row
       ELSE Goto(s, "claim") /\ row' = Enqueued(row)
  /\ UNCHANGED <<repo, freeze, forge, stale, drifted, bounds>>

AfterClaim == [deactivate |-> "sync", reconcile |-> "check",
               recover |-> "check", converge |-> "load"]

ClaimWork(s) ==
  /\ pc[s] = "claim"
  /\ IF Claimable(row)
       THEN TakeClaim(s, row, op[s], AfterClaim[op[s]])
       ELSE Stop(s) /\ UNCHANGED row
  /\ UNCHANGED <<repo, freeze, forge, stale, drifted, bounds>>

(* RunDue: ClaimDue hands the runner this repository's job. *)
RunDue ==
  /\ pc[Runner] = "idle" /\ Claimable(row)
  /\ TakeClaim(Runner, row, "runner", "load")
  /\ UNCHANGED <<repo, freeze, forge, stale, drifted, bounds>>

(* processReconciliationClaim chooses by the current state; convergeFreeze *)
(* returns silently, its claim still leased, unless enforcement is active. *)
LoadRepository(s) ==
  /\ pc[s] = "load"
  /\ \/ /\ op[s] = "converge"
        /\ IF state = "active" THEN Goto(s, "sync") ELSE Stop(s)
     \/ /\ op[s] = "runner"
        /\ pc' = [pc EXCEPT ![s] =
                    IF state \in {"active", "unhealthy"} THEN "check" ELSE "discard"]
        /\ op' = [op EXCEPT ![s] =
                    IF state = "unhealthy" THEN "recover" ELSE "reconcile"]
        /\ UNCHANGED <<todo, claim, seen>>
  /\ UNCHANGED <<repo, freeze, forge, row, stale, drifted, bounds>>

(* The runner completes the job of a repository that is not enforced. *)
DiscardWork(s) ==
  /\ pc[s] = "discard"
  /\ row' = Completed(row, claim[s])
  /\ Stop(s)
  /\ UNCHANGED <<repo, freeze, forge, stale, drifted, bounds>>

(* requireVerifiableReadiness, or the readiness check on its own, passes. *)
ReadinessPasses(s) ==
  /\ pc[s] = "check" /\ forgeUp
  /\ IF op[s] = "readiness" THEN Stop(s)
     ELSE Goto(s, IF op[s] = "reconcile" THEN "sync" ELSE "post")
  /\ drifted' = drifted \ {s}
  /\ stale' = IF op[s] = "verify" THEN stale ELSE stale \ {s}
  /\ UNCHANGED <<repo, freeze, forge, row, bounds>>

ReadinessUnsets(s) ==
  /\ pc[s] = "check" /\ ~forgeUp
  /\ IF op[s] \in {"reconcile", "recover"} THEN Goto(s, "fail") ELSE Stop(s)
  /\ \/ UNCHANGED <<state, row>> /\ stale' = stale \ {s}
     \/ /\ state = "active" /\ Fresh(s)
        /\ state' = "setup_incomplete" /\ row' = Ensured(row)
        /\ RepositoryWritten
  /\ UNCHANGED <<verified, covered, freeze, forge, drifted, bounds>>

(* It fails: an error leaves nothing behind, but failed results are        *)
(* persisted, and persistRun takes an active repository to unhealthy in    *)
(* the same transaction if its row is as it was loaded.                    *)
ReadinessFails(s) ==
  /\ pc[s] = "check" /\ ~forgeUp
  /\ IF op[s] \in {"reconcile", "recover"} THEN Goto(s, "fail") ELSE Stop(s)
  /\ \/ UNCHANGED <<state, row>> /\ stale' = stale \ {s}
     \/ /\ state = "active" /\ Fresh(s)
        /\ state' = "unhealthy" /\ row' = Ensured(row)
        /\ RepositoryWritten
  /\ UNCHANGED <<verified, covered, freeze, forge, drifted, bounds>>

(* controlledSetupPost *)
SetupPost(s) ==
  /\ pc[s] = "post"
  /\ \/ forgeUp /\ Goto(s, IF op[s] = "verify" THEN "record" ELSE "sync")
     \/ ~forgeUp /\ op[s] = "verify" /\ Goto(s, "unverify")
     \/ ~forgeUp /\ op[s] = "activate" /\ Goto(s, "unset")
     \/ ~forgeUp /\ op[s] = "recover" /\ Goto(s, "failToken")
  /\ UNCHANGED <<repo, freeze, forge, row, stale, drifted, bounds>>

(* syncRepository, and for convergeFreeze the gated SyncOpenPullRequests.  *)
(* The heads to publish are listed from the refreshed cache.               *)
SyncPullRequests(s) ==
  /\ pc[s] = "sync"
  /\ IF forgeUp /\ (op[s] = "converge" => state = "active")
       THEN /\ pc' = [pc EXCEPT ![s] =
                        IF op[s] \in {"activate", "recover"} THEN "mark" ELSE "evaluate"]
            /\ todo' = [todo EXCEPT ![s] = IF op[s] = "converge" THEN @ ELSE Branches]
            /\ UNCHANGED <<op, claim, seen>>
       ELSE Goto(s, IF op[s] = "activate" THEN "unready" ELSE FailedStep(s))
  /\ UNCHANGED <<repo, freeze, forge, row, stale, drifted, bounds>>

MarkedActive(s) ==
  /\ state' = "active" /\ verified' = TRUE /\ covered' = (s \notin drifted)
  /\ RepositoryWritten

(* markActive: whatever the state is by now.  An activation enqueues and   *)
(* claims the job in the same transaction, or rolls it back.               *)
MarkActive(s) ==
  /\ pc[s] = "mark"
  /\ \/ /\ op[s] = "recover"
        /\ MarkedActive(s)
        /\ Goto(s, "evaluate")
        /\ UNCHANGED row
     \/ /\ op[s] = "activate" /\ LeaseFree(row)
        /\ MarkedActive(s)
        /\ TakeClaim(s, Enqueued(row), op[s], "evaluate")
     \/ /\ op[s] = "activate" /\ ~LeaseFree(row)
        /\ Stop(s)
        /\ UNCHANGED <<repo, row, stale>>
  /\ UNCHANGED <<freeze, forge, drifted, bounds>>
-----------------------------------------------------------------------------
(* Publication, one head at a time.  The list order of the heads is data.  *)

(* The first fence and RunForSharedHead.  A claim that is no longer        *)
(* current never becomes current again, so a claim lost between the two    *)
(* ends as one lost at the second fence.                                   *)
Evaluate(s) ==
  /\ pc[s] = "evaluate"
  /\ IF todo[s] = {} THEN Goto(s, "record")
     ELSE IF ~Current(row, claim[s]) THEN ClaimLost(s)
     ELSE \E b \in todo[s] :
            /\ seen' = [seen EXCEPT ![s] = <<b, Policy(b)>>]
            /\ pc' = [pc EXCEPT ![s] = "fence"]
            /\ UNCHANGED <<op, todo, claim>>
  /\ UNCHANGED <<repo, freeze, forge, row, stale, drifted, bounds>>

FencePasses(s) == Current(row, claim[s])

(* The second fence: ClaimCurrent again before Publish. *)
Fence(s) ==
  /\ pc[s] = "fence"
  /\ IF FencePasses(s) THEN Goto(s, "gate") ELSE ClaimLost(s)
  /\ UNCHANGED <<repo, freeze, forge, row, stale, drifted, bounds>>

(* Publish reads the repository and refuses one that is not enforced. *)
Gate(s) ==
  /\ pc[s] = "gate"
  /\ Goto(s, IF state = "active" THEN "send" ELSE FailedStep(s))
  /\ UNCHANGED <<repo, freeze, forge, row, stale, drifted, bounds>>

Sent(s) == [posted EXCEPT ![seen[s][1]] = seen[s][2]]

(* PostCommitStatus.  A failed call may still have reached the forge. *)
Send(s) ==
  /\ pc[s] = "send"
  /\ IF forgeUp
       THEN /\ posted' = Sent(s)
            /\ pc' = [pc EXCEPT ![s] = "evaluate"]
            /\ todo' = [todo EXCEPT ![s] = @ \ {seen[s][1]}]
            /\ seen' = [seen EXCEPT ![s] = NothingSeen]
            /\ UNCHANGED <<op, claim>>
       ELSE /\ posted' \in {posted, Sent(s)}
            /\ Goto(s, FailedStep(s))
  /\ UNCHANGED <<repo, freeze, forgeUp, row, stale, drifted, bounds>>
-----------------------------------------------------------------------------
(* How a session ends *)

RecordVerificationAnyway(s) ==
  /\ pc[s] = "record" /\ op[s] = "verify"
  /\ state' = "ready" /\ verified' = TRUE /\ covered' = (s \notin drifted)
  /\ RepositoryWritten
  /\ Stop(s)
  /\ UNCHANGED <<freeze, forge, row, drifted, bounds>>

(* recordVerificationSuccess: only on the snapshot it was loaded with. *)
RecordVerification(s) ==
  /\ pc[s] = "record" /\ op[s] = "verify"
  /\ IF Fresh(s)
       THEN /\ state' = "ready" /\ verified' = TRUE /\ covered' = (s \notin drifted)
            /\ RepositoryWritten
       ELSE UNCHANGED <<repo, stale>>
  /\ Stop(s)
  /\ UNCHANGED <<freeze, forge, row, drifted, bounds>>

(* recordVerificationFailure, on the same condition. *)
RecordUnverified(s) ==
  /\ pc[s] = "unverify"
  /\ IF Fresh(s)
       THEN /\ state' = "setup_incomplete" /\ verified' = FALSE
            /\ UNCHANGED covered
            /\ RepositoryWritten
       ELSE UNCHANGED <<repo, stale>>
  /\ Stop(s)
  /\ UNCHANGED <<freeze, forge, row, drifted, bounds>>

(* recordEnforcementFailure of an activation whose setup post failed. *)
ActivationUnset(s) ==
  /\ pc[s] = "unset"
  /\ state' = "setup_incomplete" /\ verified' = FALSE /\ UNCHANGED covered
  /\ RepositoryWritten
  /\ Stop(s)
  /\ UNCHANGED <<freeze, forge, row, drifted, bounds>>

(* recordEnforcementFailure of an activation whose synchronisation failed. *)
ActivationUnready(s) ==
  /\ pc[s] = "unready"
  /\ IF state = "ready"
       THEN UNCHANGED <<state, stale>>
       ELSE state' = "ready" /\ RepositoryWritten
  /\ Stop(s)
  /\ UNCHANGED <<verified, covered, freeze, forge, row, drifted, bounds>>

(* recordEnforcementFailure with the unhealthy result: a repository that   *)
(* is no longer enforced is left alone.  The generation is preserved.      *)
RecordFailure(s) ==
  /\ pc[s] \in {"fail", "failToken"}
  /\ IF state \in {"active", "unhealthy"}
       THEN /\ state' = "unhealthy"
            /\ verified' = (verified /\ pc[s] # "failToken")
            /\ row' = Ensured(row)
            /\ RepositoryWritten
       ELSE UNCHANGED <<state, verified, row, stale>>
  /\ Goto(s, "release")
  /\ UNCHANGED <<covered, freeze, forge, drifted, bounds>>

ReleaseWorkForGood(s) ==
  /\ pc[s] = "release"
  /\ row' = Completed(row, claim[s])
  /\ Stop(s)
  /\ UNCHANGED <<repo, freeze, forge, stale, drifted, bounds>>

(* RescheduleClaim *)
ReleaseWork(s) ==
  /\ pc[s] = "release"
  /\ row' = Rescheduled(row, claim[s])
  /\ Stop(s)
  /\ UNCHANGED <<repo, freeze, forge, stale, drifted, bounds>>

(* recordEnforcementSuccess: clears the failure and completes the job in   *)
(* one transaction.  Whether the job was still ours is not looked at.      *)
RecordSuccess(s) ==
  /\ pc[s] = "record" /\ op[s] \in {"activate", "reconcile", "recover"}
  /\ IF state = "active"
       THEN row' = Completed(row, claim[s]) /\ Stop(s) /\ RepositoryWritten
       ELSE Goto(s, "release") /\ UNCHANGED <<row, stale>>
  /\ UNCHANGED <<repo, freeze, forge, drifted, bounds>>

MayDeactivateThoughFrozen(s) == state = "active" /\ Owns(row, claim[s])

MayDeactivate(s) == state = "active" /\ NoFreezes /\ Owns(row, claim[s])

(* recordEnforcementDeactivation: all of it, or nothing and a retry. *)
RecordDeactivation(s) ==
  /\ pc[s] = "record" /\ op[s] = "deactivate"
  /\ IF MayDeactivate(s)
       THEN state' = "ready" /\ row' = NoRow /\ Stop(s) /\ RepositoryWritten
       ELSE Goto(s, "release") /\ UNCHANGED <<state, row, stale>>
  /\ UNCHANGED <<verified, covered, freeze, forge, drifted, bounds>>

(* convergeFreeze completes the repository's job after its one branch. *)
RecordConvergence(s) ==
  /\ pc[s] = "record" /\ op[s] = "converge"
  /\ row' = Completed(row, claim[s])
  /\ Stop(s)
  /\ UNCHANGED <<repo, freeze, forge, stale, drifted, bounds>>
-----------------------------------------------------------------------------
(* Freezes: each commits the freeze and the request together, and then     *)
(* converges the branch.                                                   *)

Froze(s, b, as) ==
  /\ freeze' = [freeze EXCEPT ![b] = as]
  /\ StartAt(s, "converge", "claim", {b})
  /\ UNCHANGED <<repo, forge, stale, drifted>>

(* CreateActive, by an operator or by the materializer. *)
CreateFreeze(s, b) ==
  /\ "freeze" \in Kinds /\ state = "active" /\ freeze[b] = "none"
  /\ Froze(s, b, "first")
  /\ row' = Enqueued(row)

(* ActivateScheduled and StartScheduledNow *)
StartScheduled(s, b) ==
  /\ "schedule" \in Kinds /\ state = "active" /\ freeze[b] = "scheduled"
  /\ Froze(s, b, "first")
  /\ row' = Enqueued(row)

EndFreezeQuietly(s, b) ==
  /\ "freeze" \in Kinds /\ Frozen(b)
  /\ Froze(s, b, "none")
  /\ UNCHANGED row

(* End, EndMaterialized and ExecutePlannedUnfreeze, in every state. *)
EndFreeze(s, b) ==
  /\ "freeze" \in Kinds /\ Frozen(b)
  /\ Froze(s, b, "none")
  /\ row' = Enqueued(row)

(* UpdateMaterializedAttribution requests nothing. *)
Relabel(s, b) ==
  /\ "relabel" \in Kinds /\ freeze[b] = "first"
  /\ Froze(s, b, "second")
  /\ UNCHANGED row

Counted == ops < MaxOps /\ ops' = ops + 1 /\ UNCHANGED <<outages, crashes>>

(* CreateScheduled and CancelScheduled change nothing that is published. *)
Schedule(b) ==
  /\ "schedule" \in Kinds
  /\ \/ /\ state = "active" /\ freeze[b] = "none"
        /\ freeze' = [freeze EXCEPT ![b] = "scheduled"]
     \/ /\ freeze[b] = "scheduled"
        /\ freeze' = [freeze EXCEPT ![b] = "none"]
  /\ Counted
  /\ UNCHANGED <<repo, forge, row, local, stale, drifted>>

(* SetStatusToken, AddBranch and RemoveBranch are refused while            *)
(* enforcement is active; they end ready, and a new token is unproven.     *)
ChangeSetup ==
  /\ state # "active"
  /\ \/ "token" \in Kinds /\ verified' = FALSE
     \/ "branches" \in Kinds /\ UNCHANGED verified
  /\ state' = IF state = "ready" THEN "setup_incomplete" ELSE state
  /\ covered' = FALSE
  /\ drifted' = {s \in Sessions : op[s] \in {"verify", "activate", "recover"}}
  /\ RepositoryWritten
  /\ Counted
  /\ UNCHANGED <<freeze, forge, row, local>>

(* SetWebhookSecret only touches the repository row. *)
ReplaceWebhookSecret ==
  /\ "secret" \in Kinds
  /\ RepositoryWritten
  /\ Counted
  /\ UNCHANGED <<repo, freeze, forge, row, local, drifted>>
-----------------------------------------------------------------------------
(* The environment *)

(* The session's context is cancelled, or the process stops.  A status     *)
(* that was being sent may or may not reach the forge.                     *)
Abandon(s) ==
  /\ pc[s] # "idle" /\ crashes < MaxCrashes
  /\ crashes' = crashes + 1
  /\ posted' \in (IF pc[s] = "send" THEN {posted, Sent(s)} ELSE {posted})
  /\ Stop(s)
  /\ UNCHANGED <<repo, freeze, forgeUp, row, stale, drifted, ops, outages>>

LeaseRunsOut ==
  /\ row.lease = "live"
  /\ Overrun \/ \A s \in Sessions : claim[s].token # row.token
  /\ row' = [row EXCEPT !.lease = "expired"]
  /\ UNCHANGED <<repo, freeze, forge, local, stale, drifted, bounds>>

RunAtReached ==
  /\ Exists(row) /\ row.run = "later"
  /\ row' = [row EXCEPT !.run = "due"]
  /\ UNCHANGED <<repo, freeze, forge, local, stale, drifted, bounds>>

ForgeFails ==
  /\ forgeUp /\ outages < MaxOutages
  /\ forgeUp' = FALSE /\ outages' = outages + 1
  /\ UNCHANGED <<repo, freeze, posted, row, local, stale, drifted, ops, crashes>>

ForgeRecovers ==
  /\ ~forgeUp /\ forgeUp' = TRUE
  /\ UNCHANGED <<repo, freeze, posted, row, local, stale, drifted, bounds>>
-----------------------------------------------------------------------------
Step(s) ==
  \/ EnqueueWork(s) \/ ClaimWork(s) \/ LoadRepository(s) \/ DiscardWork(s)
  \/ ReadinessPasses(s) \/ ReadinessFails(s) \/ SetupPost(s) \/ SyncPullRequests(s) \/ MarkActive(s)
  \/ Evaluate(s) \/ Fence(s) \/ Gate(s) \/ Send(s)
  \/ RecordVerification(s) \/ RecordUnverified(s)
  \/ ActivationUnset(s) \/ ActivationUnready(s)
  \/ RecordFailure(s) \/ ReleaseWork(s)
  \/ RecordSuccess(s) \/ RecordDeactivation(s) \/ RecordConvergence(s)

Request(s) ==
  \/ \E kind \in DOMAIN StartableIn : Start(s, kind)
  \/ \E b \in Branches :
       CreateFreeze(s, b) \/ StartScheduled(s, b) \/ EndFreeze(s, b) \/ Relabel(s, b)

Next ==
  \/ \E s \in Sessions : Step(s) \/ Request(s) \/ Abandon(s)
  \/ RunDue
  \/ \E b \in Branches : Schedule(b)
  \/ ChangeSetup \/ ReplaceWebhookSecret
  \/ LeaseRunsOut \/ RunAtReached \/ ForgeFails \/ ForgeRecovers

Spec == Init /\ [][Next]_vars

(* The runner ticks for ever, a session that is running goes on, leases    *)
(* run out, retries come due, and an outage ends.  Nobody has to ask.      *)
Fairness ==
  /\ \A s \in Sessions : WF_vars(Step(s))
  /\ WF_vars(RunDue)
  /\ WF_vars(LeaseRunsOut) /\ WF_vars(RunAtReached) /\ WF_vars(ForgeRecovers)

FairSpec == Spec /\ Fairness
-----------------------------------------------------------------------------
(* Properties.  Those marked [L] need sessions that finish within their    *)
(* lease; the runs say which.                                              *)

(* [L] Once no reconciliation work is left, every head of an active        *)
(* repository carries the status of the current freezes: the last change   *)
(* of policy was published by whoever removed the job.                     *)
NoJobMeansPublished ==
  state = "active" /\ ~Exists(row) => \A b \in Branches : posted[b] = Policy(b)

(* [L] The same for the merge gate alone, whatever label the status names. *)
NoJobMeansGated ==
  state = "active" /\ ~Exists(row) =>
    \A b \in Branches : posted[b] \in Labels <=> Frozen(b)

(* [L] An unhealthy repository always has work that will retry it          *)
(* (ReconcileEnforcement: "leaves durable automatic recovery work").       *)
UnhealthyHasJob == state = "unhealthy" => Exists(row)

(* [L] Two sessions are never both past the fence of a publication.        *)
OnePublisher ==
  \A s, t \in Sessions :
    pc[s] \in {"gate", "send"} /\ pc[t] \in {"gate", "send"} => s = t

(* A freeze never outlives enforcement: deactivation and creation cannot   *)
(* pass each other, though neither holds a lock on the other's table.      *)
FreezesAreEnforced == ~NoFreezes => state \in {"active", "unhealthy"}

(* [L] Deactivation leaves no frozen status behind: a freeze that came and *)
(* went while it was publishing is published again, thawed, before the     *)
(* repository becomes ready.                                               *)
UnenforcedIsThawed ==
  state \notin {"active", "unhealthy"} => \A b \in Branches : posted[b] \notin Labels

Moves(s) == pc'[s] # pc[s]

(* [L] A freeze status reaches the forge only while enforcement is active, *)
(* or while a readiness check has taken it to unhealthy since Publish read *)
(* the state: never for a deactivated repository.                          *)
PublishOnlyWhileEnforced ==
  [][posted' # posted => state \in {"active", "unhealthy"}]_vars

(* A verification that records ready has proved the token and the branches *)
(* of today, however setup changes interleave with it                      *)
(* (requireCurrentVerificationSnapshot).                                   *)
VerificationIsCurrent ==
  [][\A s \in Sessions :
       op[s] = "verify" /\ pc[s] = "record" /\ Moves(s) /\ state' = "ready" /\ state # "ready"
         => covered']_vars

(* Ready becomes active only through an activation someone asked for.      *)
OnlyActivationActivates ==
  [][state = "ready" /\ state' = "active" =>
       \E s \in Sessions : op[s] = "activate" /\ pc[s] = "mark" /\ Moves(s)]_vars

(* Active ends in unhealthy, or in ready through a deactivation: an        *)
(* activation that fails early leaves a repository as it found it.         *)
ActiveEndsExplicitly ==
  [][state = "active" /\ state' # "active" =>
       \/ state' = "unhealthy"
       \/ \E s \in Sessions : op[s] = "deactivate" /\ pc[s] = "record" /\ Moves(s)]_vars

(* [L] With no further requests the repository leaves unhealthy and, while *)
(* it is active, every status comes to say what the freezes say.           *)
Settled ==
  /\ state # "unhealthy"
  /\ state = "active" => \A b \in Branches : posted[b] = Policy(b)
Settles == <>[]Settled
(* [L] Between two requests the repository is never left with work undone  *)
(* and nobody to do it: a session that ends, fails or crashes leaves its   *)
(* claim to expire, and the job until its work is published.               *)
WorkIsKept == TypeOK /\ NoJobMeansPublished /\ UnhealthyHasJob

(* [L] Freezes and enforcement agree across a deactivation, whatever it    *)
(* races with: no freeze without enforcement, no frozen status without one.*)
FreezesMatchEnforcement == FreezesAreEnforced /\ UnenforcedIsThawed

(* The states ready and active are left and entered as an operator asked,  *)
(* on evidence about the setup of that moment.                             *)
LifecycleIsExplicit == ActiveEndsExplicitly /\ VerificationIsCurrent
=============================================================================
