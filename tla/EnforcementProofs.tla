------------------------- MODULE EnforcementProofs -------------------------
(***************************************************************************)
(* Proofs about the enforcement of one repository, for any number of       *)
(* handlers and branches, any kinds of operations and any bounds.          *)
(*                                                                         *)
(* The argument has three layers.  Shape is what one session's variables   *)
(* say of one another, and holds whatever the other sessions do.  If       *)
(* sessions finish within their lease (Prompt), Leased follows: whoever    *)
(* holds a claim holds the lease in the row, so that at most one session   *)
(* does.  On that rest Healthy, Apart and Published, which relate that one *)
(* session to the state, the freezes and the statuses.                     *)
(***************************************************************************)
EXTENDS Enforcement, FiniteSetTheorems, TLAPS

Enforced == state \in {"active", "unhealthy"}
Publishing == {"evaluate", "fence", "gate", "send"}
Chosen == {"fence", "gate", "send"}
Holds(s) == claim[s].token # 0

(* The scopes of the theorems.  What happens outside of them is described  *)
(* in the README: a fence is checked before a post and not by it, an       *)
(* activation that fails overwrites the state, a convergence of one branch *)
(* completes the job of all, a readiness check takes the repository to     *)
(* unhealthy during a convergence, and a relabelling asks for nothing.     *)
Prompt == ~Overrun
NoActivations == "activate" \notin Kinds
OneHandler == \A h, k \in Handlers : h = k
OneBranch == \A b, c \in Branches : b = c
NoReadiness == "readiness" \notin Kinds
-----------------------------------------------------------------------------
(* Which operations run which step, and who asked for them.                *)
StepFits == \A s \in Sessions :
  /\ op[s] = "none" => pc[s] = "idle"
  /\ op[s] = "runner" => pc[s] = "load"
  /\ op[s] = "readiness" => pc[s] = "check"
  /\ op[s] = "verify" => pc[s] \in {"check", "post", "record", "unverify"}
  /\ op[s] = "activate" => pc[s] \in
       {"check", "post", "sync", "mark", "unset", "unready"} \cup Publishing
         \cup {"record", "fail", "release"}
  /\ op[s] = "deactivate" => pc[s] \in
       {"enqueue", "claim", "sync"} \cup Publishing \cup {"record", "release"}
  /\ op[s] = "reconcile" => pc[s] \in
       {"enqueue", "claim", "discard", "check", "sync"} \cup Publishing
         \cup {"record", "fail", "release"}
  /\ op[s] = "recover" => pc[s] \in
       {"enqueue", "claim", "check", "post", "sync", "mark"} \cup Publishing
         \cup {"record", "fail", "failToken", "release"}
  /\ op[s] = "converge" => pc[s] \in
       {"claim", "load", "sync"} \cup Publishing \cup {"record", "fail", "release"}

(* The steps at which a session of that operation has no claim.            *)
Unclaimed(s) ==
  \/ op[s] \in {"none", "verify", "readiness"}
  \/ pc[s] \in {"enqueue", "claim"}
  \/ op[s] = "activate" /\ pc[s] \in {"check", "post", "sync", "mark", "unset", "unready"}

ClaimFits == \A s \in Sessions : IF Unclaimed(s) THEN claim[s] = NoClaim ELSE Holds(s)
AskedFor == \A s \in Sessions :
  /\ op[s] \in {"activate", "readiness"} => op[s] \in Kinds
  /\ op[s] \in {"activate", "deactivate", "verify", "readiness", "converge"} => s \in Handlers
  /\ pc[s] \in {"enqueue", "claim"} => s \in Handlers

(* What a session still has to publish, and what it is publishing.         *)
WorkFits == \A s \in Sessions :
  /\ pc[s] \in Chosen => seen[s][1] \in todo[s] /\ seen[s][1] \in Branches
  /\ pc[s] = "mark" => todo[s] = Branches
  /\ pc[s] = "record" /\ op[s] # "verify" => todo[s] = {}
  /\ op[s] = "converge" /\ pc[s] \in {"claim", "load", "sync"} => todo[s] # {}

(* A snapshot that still fits dates from a state in which the operation    *)
(* may start, and, past the readiness check, from today's setup.           *)
SnapshotFits == \A s \in Sessions \ stale :
  /\ op[s] = "verify" => state \in {"setup_incomplete", "ready"}
  /\ op[s] = "verify" /\ pc[s] # "check" => s \notin drifted
  /\ op[s] = "activate" /\ pc[s] = "check" => state = "ready"

(* TypeOK in two parts.                                                    *)
SharedTypes ==
  /\ state \in States /\ verified \in BOOLEAN /\ covered \in BOOLEAN
  /\ freeze \in [Branches -> {"none", "scheduled"} \cup Labels]
  /\ posted \in [Branches -> {"nothing", "thawed"} \cup Labels]
  /\ forgeUp \in BOOLEAN
  /\ row \in Row
  /\ stale \subseteq Sessions /\ drifted \subseteq Sessions
  /\ ops \in Nat /\ outages \in Nat /\ crashes \in Nat
LocalTypes ==
  /\ pc \in [Sessions -> Steps]
  /\ op \in [Sessions -> {"none", "verify", "activate", "deactivate",
                          "reconcile", "recover", "readiness",
                          "converge", "runner"}]
  /\ todo \in [Sessions -> SUBSET Branches]
  /\ claim \in [Sessions -> Claim]
  /\ seen \in [Sessions ->
                {NothingSeen} \cup (Branches \X ({"thawed"} \cup Labels))]
  /\ \A s \in Sessions : pc[s] = "idle" <=> op[s] = "none"
  /\ \A s \in Sessions : pc[s] = "idle" => claim[s] = NoClaim

Shape == SharedTypes /\ LocalTypes /\ StepFits /\ ClaimFits /\ AskedFor /\ WorkFits /\ SnapshotFits
-----------------------------------------------------------------------------
(* A claim that is held is the lease that is in the row, perhaps with      *)
(* newer work than its own, and thus the only one.                         *)
Leased == \A s \in Sessions :
  Holds(s) => /\ Exists(row) /\ row.lease = "live"
              /\ claim[s].token = row.token /\ claim[s].gen <= row.gen
              /\ \A t \in Sessions : Holds(t) => t = s

(* Work is discarded, and a convergence publishes, under the state it read.*)
DiscardFits == \A s \in Sessions : pc[s] = "discard" => ~Enforced
ConvergenceFits == \A s \in Sessions :
  op[s] = "converge" /\ pc[s] \in {"sync", "record"} \cup Publishing =>
    state # "unhealthy"

(* An activation that has not taken its claim finds the repository idle.   *)
Apart == \A s \in Sessions : op[s] = "activate" /\ ~Holds(s) => ~Enforced

(* With one handler, whatever else holds or wants a claim is at work on an *)
(* enforced repository.                                                    *)
Engaged == \A s \in Sessions :
  \/ op[s] \in {"deactivate", "reconcile", "recover"} /\ pc[s] # "discard"
  \/ op[s] = "converge" /\ pc[s] \notin {"claim", "load"}
  \/ op[s] = "activate" /\ Holds(s)
  => Enforced

(* A status says what the freeze asks for: all of it, or, where freezes    *)
(* are relabelled, whether the branch is frozen.                           *)
Agrees(status, b) ==
  IF "relabel" \in Kinds THEN status \in Labels <=> Frozen(b) ELSE status = Policy(b)

(* While no newer work has been asked for, the heads that a publication is *)
(* done with say what the freezes say, and so will the one it is about to  *)
(* send.  A convergence is about one branch.                               *)
PublicationFits == \A s \in Sessions :
  /\ pc[s] \in {"record"} \cup Publishing /\ Owns(row, claim[s])
  => /\ pc[s] \in Chosen => Agrees(seen[s][2], seen[s][1])
     /\ op[s] # "converge" \/ OneBranch =>
          \A b \in Branches \ todo[s] : Agrees(posted[b], b)

(* The status of an enforced repository without work, in these terms.      *)
SettledFits ==
  state = "active" /\ ~Exists(row) => \A b \in Branches : Agrees(posted[b], b)

SendingFits == \A s \in Sessions : pc[s] = "send" => Enforced

(* The steps at which a failed activation overwrites the state.            *)
ActivationFails == \E s \in Sessions : ActivationUnset(s) \/ ActivationUnready(s)

(* What the action properties say of one step.                             *)
FreezesLostToActivation ==
  FreezesAreEnforced /\ ~FreezesAreEnforced' => ActivationFails
PostsAsSender == posted' # posted => \E s \in Sessions : pc[s] = "send"
RecordsOnEvidence ==
  \A s \in Sessions :
    op[s] = "verify" /\ pc[s] = "record" /\ Moves(s) /\ state' = "ready" /\ state # "ready"
      => covered'
EndsExplicitly ==
  state = "active" /\ state' # "active" =>
    \/ state' = "unhealthy"
    \/ \E s \in Sessions : op[s] = "deactivate" /\ pc[s] = "record" /\ Moves(s)

(* The invariants under their hypotheses, for TLC.                         *)
Checked ==
  /\ Shape
  /\ NoActivations => FreezesAreEnforced
  /\ Prompt =>
       /\ Leased /\ DiscardFits /\ PublicationFits
       /\ NoReadiness => ConvergenceFits /\ UnhealthyHasJob
       /\ OneHandler => Engaged
       /\ NoActivations \/ OneHandler =>
            Apart /\ FreezesAreEnforced /\ SendingFits /\ UnenforcedIsThawed
       /\ OneBranch => SettledFits
-----------------------------------------------------------------------------
(* Helpers                                                                 *)

(* At most as many tokens are in use as there are sessions, and a session  *)
(* about to claim uses none.                                               *)
LEMMA FreshTokenIsFresh ==
  ASSUME LocalTypes, NEW s \in Sessions, claim[s].token = 0
  PROVE  FreshToken \in Nat \ {0} /\ \A t \in Sessions : claim[t].token # FreshToken
<1> DEFINE N == Cardinality(Sessions)
           Free(k) == \A t \in Sessions : claim[t].token # k
<1>1. IsFiniteSet(Sessions) /\ N \in Nat /\ N # 0
  <2>1. IsFiniteSet(Sessions)
    BY SessionsAssumption, FS_AddElement DEF Sessions
  <2> QED BY <2>1, FS_CardinalityType, FS_EmptySet
<1>2. \E k \in 1..N : Free(k)
  <2> SUFFICES ASSUME \A k \in 1..N : ~Free(k) PROVE FALSE
    OBVIOUS
  <2> DEFINE Holder == [k \in 1..N |-> CHOOSE t \in Sessions : claim[t].token = k]
  <2>1. \A k \in 1..N : Holder[k] \in Sessions /\ claim[Holder[k]].token = k
    OBVIOUS
  <2>2. Holder \in [1..N -> Sessions \ {s}]
    BY <2>1
  <2>3. IsFiniteSet(Sessions \ {s}) /\ Cardinality(Sessions \ {s}) = N - 1
    BY <1>1, FS_RemoveElement
  <2>4. IsFiniteSet(1..N) /\ Cardinality(1..N) = N
    BY <1>1, FS_Interval
  <2> HIDE DEF Holder
  <2>5. \E j, k \in 1..N : j # k /\ Holder[j] = Holder[k]
    BY <1>1, <2>2, <2>3, <2>4, FS_PigeonHole
  <2> QED BY <2>1, <2>5
<1>3. FreshToken \in 1..N /\ Free(FreshToken)
  BY <1>2 DEF FreshToken
<1> QED BY <1>1, <1>3

(* The operators of JobRow yield rows.                                     *)
LEMMA RowOperators ==
  ASSUME NEW r \in Row, NEW c \in Claim, NEW k \in Nat
  PROVE  /\ Enqueued(r) \in Row /\ Ensured(r) \in Row /\ Claimed(r, k) \in Row
         /\ Claimed(Enqueued(r), k) \in Row /\ NoRow \in Row
         /\ Completed(r, c) \in Row /\ Rescheduled(r, c) \in Row
         /\ Enqueued(r).gen \in Nat
<1>1. r.gen + 1 \in Nat
  BY DEF Row
<1>2. Enqueued(r) \in Row /\ NoRow \in Row /\ Unlocked(r) \in Row /\ Claimed(r, k) \in Row
  BY <1>1 DEF Row, Enqueued, NoRow, Unlocked, Claimed
<1>3. Ensured(r) \in Row /\ Claimed(Enqueued(r), k) \in Row
  BY <1>1, <1>2 DEF Row, Ensured, Enqueued, Claimed
<1>4. Released(r, c) \in Row
  BY <1>2 DEF Released
<1>5. Completed(r, c) \in Row
  BY <1>2, <1>4 DEF Completed
<1>6. Rescheduled(r, c) \in Row
  BY <1>2, <1>4 DEF Rescheduled, Row
<1> QED BY <1>1, <1>2, <1>3, <1>5, <1>6 DEF Row

(* What a session does with its local variables, in the three ways there   *)
(* are.                                                                    *)
LEMMA GotoTypes ==
  ASSUME LocalTypes, NEW s \in Sessions, pc[s] # "idle",
         NEW step \in Steps \ {"idle"}, Goto(s, step)
  PROVE  LocalTypes'
BY DEF LocalTypes, Goto

LEMMA StopTypes ==
  ASSUME LocalTypes, NEW s \in Sessions, Stop(s)
  PROVE  LocalTypes'
<1>1. NoClaim \in Claim BY DEF NoClaim, Claim
<1> QED BY <1>1 DEF LocalTypes, Stop, Steps

LEMMA TakeClaimTypes ==
  ASSUME LocalTypes, NEW s \in Sessions, claim[s].token = 0,
         NEW on, on.gen \in Nat,
         NEW kind \in {"runner", "activate", "deactivate", "reconcile", "recover", "converge"},
         NEW step \in Steps \ {"idle"}, TakeClaim(s, on, kind, step)
  PROVE  LocalTypes'
<1>1. claim' = [claim EXCEPT ![s] = [gen |-> on.gen, token |-> FreshToken]]
  BY DEF TakeClaim, Claimed, ClaimOn
<1>2. [gen |-> on.gen, token |-> FreshToken] \in Claim
  BY FreshTokenIsFresh DEF Claim
<1> QED BY <1>1, <1>2 DEF LocalTypes, TakeClaim
-----------------------------------------------------------------------------
(* Shape is inductive.  One lemma for each of its conjuncts; a step whose  *)
(* leaf names nothing but definitions leaves it alone or sets the right    *)
(* value.                                                                  *)
LEMMA ShapeInit == Init => Shape
<1> SUFFICES ASSUME Init PROVE Shape
  OBVIOUS
<1> USE DEF Init
<1>1. SharedTypes
  <2>1. NoRow \in Row /\ Enqueued(NoRow) \in Row
    BY DEF NoRow, Row, Enqueued
  <2> QED BY <2>1, StartAssumption DEF SharedTypes, States, Labels
<1>2. LocalTypes
  BY DEF LocalTypes, Steps, NoClaim, Claim
<1>3. StepFits /\ ClaimFits /\ AskedFor /\ WorkFits
  BY DEF StepFits, ClaimFits, Unclaimed, AskedFor, WorkFits, Chosen
<1>4. SnapshotFits
  BY DEF SnapshotFits
<1> QED BY <1>1, <1>2, <1>3, <1>4 DEF Shape

(* The shared variables keep their types.                                  *)
LEMMA SharedTypesStep ==
  ASSUME Shape, [Next]_vars
  PROVE  SharedTypes'
<1> USE DEF Shape, LocalTypes, SharedTypes, States, Labels, repo, forge,
    bounds, local
<1>1. ASSUME NEW s \in Sessions, EnqueueWork(s) PROVE SharedTypes'
  BY <1>1, RowOperators DEF EnqueueWork, Goto, Stop
<1>2. ASSUME NEW s \in Sessions, ClaimWork(s) PROVE SharedTypes'
  <2>1. CASE Claimable(row)
    <3>1. FreshToken \in Nat /\ row' = Claimed(row, FreshToken)
      BY <1>2, <2>1, FreshTokenIsFresh DEF ClaimWork, TakeClaim, ClaimFits, Unclaimed, NoClaim
    <3> QED BY <1>2, <3>1, RowOperators DEF ClaimWork
  <2>2. CASE ~Claimable(row)
    BY <1>2, <2>2 DEF ClaimWork
  <2> QED BY <2>1, <2>2
<1>3. ASSUME NEW s \in Sessions, DiscardWork(s) PROVE SharedTypes'
  BY <1>3, RowOperators DEF DiscardWork, Stop
<1>4. ASSUME NEW s \in Sessions, ReadinessFails(s) PROVE SharedTypes'
  BY <1>4, RowOperators DEF ReadinessFails, Goto, Stop, Fresh,
      RepositoryWritten
<1>5. ASSUME NEW s \in Sessions, MarkActive(s) PROVE SharedTypes'
  <2>1. CASE op[s] = "recover" \/ ~LeaseFree(row)
    BY <1>5, <2>1 DEF MarkActive, MarkedActive, RepositoryWritten
  <2>2. CASE op[s] = "activate" /\ LeaseFree(row)
    <3>1. FreshToken \in Nat /\ row' = Claimed(Enqueued(row), FreshToken)
      BY <1>5, <2>2, FreshTokenIsFresh
      DEF MarkActive, TakeClaim, ClaimFits, Unclaimed, NoClaim
    <3> QED BY <1>5, <2>2, <3>1, RowOperators DEF MarkActive, MarkedActive, RepositoryWritten
  <2> QED BY <1>5, <2>1, <2>2 DEF MarkActive
<1>6. ASSUME NEW s \in Sessions, Send(s) PROVE SharedTypes'
  <2>1. seen[s] = NothingSeen \/ seen[s] \in Branches \X ({"thawed"} \cup Labels)
    OBVIOUS
  <2>2. seen[s][2] \in {"thawed"} \cup Labels
    BY <2>1 DEF NothingSeen
  <2>3. Sent(s) \in [Branches -> {"nothing", "thawed"} \cup Labels]
    BY <2>2 DEF Sent
  <2> QED BY <1>6, <2>3 DEF Send
<1>7. ASSUME NEW s \in Sessions, RecordFailure(s) PROVE SharedTypes'
  BY <1>7, RowOperators DEF RecordFailure, Goto, RepositoryWritten
<1>8. ASSUME NEW s \in Sessions, ReleaseWork(s) PROVE SharedTypes'
  BY <1>8, RowOperators DEF ReleaseWork, Stop
<1>9. ASSUME NEW s \in Sessions, RecordSuccess(s) PROVE SharedTypes'
  <2>1. row' = Completed(row, claim[s]) \/ row' = row
    BY <1>9 DEF RecordSuccess
  <2>2. stale' \subseteq Sessions
    BY <1>9 DEF RecordSuccess, RepositoryWritten
  <2>3. UNCHANGED <<repo, freeze, forge, drifted, bounds>>
    BY <1>9 DEF RecordSuccess
  <2> QED BY <2>1, <2>2, <2>3, RowOperators
<1>10. ASSUME NEW s \in Sessions, RecordDeactivation(s) PROVE SharedTypes'
  BY <1>10, RowOperators DEF RecordDeactivation, MayDeactivate, NoFreezes,
      Goto, Stop, RepositoryWritten
<1>11. ASSUME NEW s \in Sessions, RecordConvergence(s) PROVE SharedTypes'
  BY <1>11, RowOperators DEF RecordConvergence, Stop
<1>12. ASSUME NEW s \in Sessions,
            \/ LoadRepository(s) \/ ReadinessPasses(s) \/ SetupPost(s)
            \/ SyncPullRequests(s) \/ Evaluate(s) \/ Fence(s) \/ Gate(s)
            \/ RecordVerification(s) \/ RecordUnverified(s)
            \/ ActivationUnset(s) \/ ActivationUnready(s)
      PROVE  SharedTypes'
  BY <1>12 DEF LoadRepository, Goto, Stop, ReadinessPasses, SetupPost,
      SyncPullRequests, FailedStep, Evaluate, ClaimLost, Fence, FencePasses,
      Gate, RecordVerification, Fresh, RepositoryWritten, RecordUnverified,
      ActivationUnset, ActivationUnready
<1>13. ASSUME NEW s \in Sessions, \E kind \in DOMAIN StartableIn : Start(s,
    kind) PROVE SharedTypes'
  BY <1>13 DEF Start, StartAt, StartableIn
<1>14. ASSUME NEW s \in Sessions, \E b \in Branches : CreateFreeze(s, b) PROVE
    SharedTypes'
  BY <1>14, RowOperators DEF CreateFreeze, Froze, StartAt, Frozen
<1>15. ASSUME NEW s \in Sessions, \E b \in Branches : StartScheduled(s, b)
    PROVE SharedTypes'
  BY <1>15, RowOperators DEF StartScheduled, Froze, StartAt, Frozen
<1>16. ASSUME NEW s \in Sessions, \E b \in Branches : EndFreeze(s, b) PROVE
    SharedTypes'
  BY <1>16, RowOperators DEF EndFreeze, Froze, StartAt, Frozen
<1>17. ASSUME NEW s \in Sessions, \E b \in Branches : Relabel(s, b) PROVE
    SharedTypes'
  BY <1>17 DEF Relabel, Froze, StartAt, Frozen
<1>18. ASSUME NEW s \in Sessions, Abandon(s) PROVE SharedTypes'
  <2>1. seen[s] = NothingSeen \/ seen[s] \in Branches \X ({"thawed"} \cup Labels)
    OBVIOUS
  <2>2. seen[s][2] \in {"thawed"} \cup Labels
    BY <2>1 DEF NothingSeen
  <2>3. Sent(s) \in [Branches -> {"nothing", "thawed"} \cup Labels]
    BY <2>2 DEF Sent
  <2> QED BY <1>18, <2>3 DEF Abandon, Stop
<1>19. CASE RunDue
  <2>1. Runner \in Sessions /\ claim[Runner].token = 0
    BY <1>19 DEF Sessions, RunDue, NoClaim
  <2>2. FreshToken \in Nat /\ row' = Claimed(row, FreshToken)
    BY <1>19, <2>1, FreshTokenIsFresh DEF RunDue, TakeClaim
  <2> QED BY <1>19, <2>1, <2>2, RowOperators DEF RunDue
<1>20. CASE \E b \in Branches : Schedule(b)
  BY <1>20 DEF Schedule, Counted
<1>21. CASE ChangeSetup
  <2>1. state' \in States /\ verified' \in BOOLEAN
    <3>1. verified' = FALSE \/ verified' = verified
      BY <1>21 DEF ChangeSetup
    <3> QED BY <1>21, <3>1 DEF ChangeSetup
  <2>2. stale' \subseteq Sessions /\ drifted' \subseteq Sessions
        /\ ops' \in Nat /\ UNCHANGED <<outages, crashes>>
    BY <1>21 DEF ChangeSetup, Counted, RepositoryWritten
  <2>3. covered' = FALSE /\ UNCHANGED <<freeze, forge, row>>
    BY <1>21 DEF ChangeSetup
  <2>4. covered' \in BOOLEAN
    BY <2>3
  <2> QED BY <2>1, <2>2, <2>3, <2>4
<1>22. CASE ReplaceWebhookSecret
  BY <1>22 DEF ReplaceWebhookSecret, Counted, RepositoryWritten
<1>23. CASE LeaseRunsOut
  BY <1>23 DEF LeaseRunsOut, Row
<1>24. CASE RunAtReached
  BY <1>24 DEF RunAtReached, Row
<1>25. CASE ForgeFails
  <2>1. /\ forgeUp' = FALSE /\ outages' = outages + 1
        /\ UNCHANGED <<repo, freeze, posted, row, stale, drifted, ops, crashes>>
    BY <1>25 DEF ForgeFails
  <2>2. forgeUp' \in BOOLEAN
    BY <2>1
  <2> QED BY <2>1, <2>2
<1>26. CASE ForgeRecovers
  <2>1. forgeUp' \in BOOLEAN
    BY <1>26 DEF ForgeRecovers
  <2> QED BY <1>26, <2>1 DEF ForgeRecovers
<1>27. CASE UNCHANGED vars
  BY <1>27 DEF vars
<1> QED BY <1>1, <1>2, <1>3, <1>4, <1>5, <1>6, <1>7, <1>8, <1>9, <1>10, <1>11,
    <1>12, <1>13, <1>14, <1>15, <1>16, <1>17, <1>18, <1>19, <1>20, <1>21,
    <1>22, <1>23, <1>24, <1>25, <1>26, <1>27 DEF Next, Step, Request

(* The sessions' variables keep their types.                               *)
LEMMA LocalTypesStep ==
  ASSUME Shape, [Next]_vars
  PROVE  LocalTypes'
<1> USE DEF Shape, repo, forge, bounds, local
<1>1. ASSUME NEW s \in Sessions, EnqueueWork(s) PROVE LocalTypes'
  BY <1>1, GotoTypes, StopTypes DEF EnqueueWork, StepFits, Publishing, Steps
<1>2. ASSUME NEW s \in Sessions, ClaimWork(s) PROVE LocalTypes'
  <2>1. CASE Claimable(row)
    <3>1. op[s] \in {"deactivate", "reconcile", "recover", "converge"}
      BY <1>2 DEF ClaimWork, StepFits, LocalTypes, Publishing
    <3>2. AfterClaim[op[s]] \in Steps \ {"idle"}
      BY <3>1 DEF AfterClaim, Steps
    <3>3. claim[s].token = 0 /\ row.gen \in Nat
      BY <1>2 DEF ClaimWork, ClaimFits, Unclaimed, NoClaim, SharedTypes, Row
    <3>4. TakeClaim(s, row, op[s], AfterClaim[op[s]])
      BY <1>2, <2>1 DEF ClaimWork
    <3> QED BY <3>1, <3>2, <3>3, <3>4, TakeClaimTypes
  <2>2. CASE ~Claimable(row)
    BY <1>2, <2>2, StopTypes DEF ClaimWork
  <2> QED BY <2>1, <2>2
<1>3. ASSUME NEW s \in Sessions, LoadRepository(s) PROVE LocalTypes'
  <2>1. CASE op[s] = "converge"
    BY <1>3, <2>1, GotoTypes, StopTypes DEF LoadRepository, Steps
  <2>2. CASE op[s] = "runner"
    BY <1>3, <2>2 DEF LoadRepository, LocalTypes, Steps
  <2> QED BY <1>3, <2>1, <2>2 DEF LoadRepository
<1>4. ASSUME NEW s \in Sessions, DiscardWork(s) PROVE LocalTypes'
  BY <1>4, GotoTypes, StopTypes DEF DiscardWork, StepFits, Publishing, Steps
<1>5. ASSUME NEW s \in Sessions, ReadinessPasses(s) PROVE LocalTypes'
  BY <1>5, GotoTypes, StopTypes DEF ReadinessPasses, StepFits, Publishing, Steps
<1>6. ASSUME NEW s \in Sessions, ReadinessFails(s) PROVE LocalTypes'
  BY <1>6, GotoTypes, StopTypes DEF ReadinessFails, StepFits, Publishing, Steps
<1>7. ASSUME NEW s \in Sessions, SetupPost(s) PROVE LocalTypes'
  BY <1>7, GotoTypes, StopTypes DEF SetupPost, StepFits, Publishing, Steps
<1>8. ASSUME NEW s \in Sessions, SyncPullRequests(s) PROVE LocalTypes'
  <2>1. CASE forgeUp /\ (op[s] = "converge" => state = "active")
    BY <1>8, <2>1 DEF SyncPullRequests, LocalTypes, Steps
  <2>2. CASE ~(forgeUp /\ (op[s] = "converge" => state = "active"))
    BY <1>8, <2>2, GotoTypes DEF SyncPullRequests, FailedStep, Steps
  <2> QED BY <2>1, <2>2
<1>9. ASSUME NEW s \in Sessions, MarkActive(s) PROVE LocalTypes'
  <2>1. CASE op[s] = "recover" \/ ~LeaseFree(row)
    BY <1>9, <2>1, GotoTypes, StopTypes DEF MarkActive, Steps
  <2>2. CASE op[s] = "activate" /\ LeaseFree(row)
    <3>1. claim[s].token = 0 /\ Enqueued(row).gen \in Nat
      BY <1>9, <2>2
      DEF MarkActive, ClaimFits, Unclaimed, NoClaim, Enqueued, SharedTypes, Row
    <3>2. TakeClaim(s, Enqueued(row), "activate", "evaluate")
      BY <1>9, <2>2 DEF MarkActive
    <3> QED BY <3>1, <3>2, TakeClaimTypes DEF Steps
  <2> QED BY <1>9, <2>1, <2>2 DEF MarkActive
<1>10. ASSUME NEW s \in Sessions, Evaluate(s) PROVE LocalTypes'
  <2>1. CASE todo[s] = {}
    BY <1>10, <2>1, GotoTypes DEF Evaluate, Steps
  <2>2. CASE todo[s] # {} /\ ~Current(row, claim[s])
    BY <1>10, <2>2, GotoTypes, StopTypes DEF Evaluate, ClaimLost, Steps
  <2>3. CASE todo[s] # {} /\ Current(row, claim[s])
    <3>1. PICK b \in todo[s] :
            /\ seen' = [seen EXCEPT ![s] = <<b, Policy(b)>>]
            /\ pc' = [pc EXCEPT ![s] = "fence"]
            /\ UNCHANGED <<op, todo, claim>>
      BY <1>10, <2>3 DEF Evaluate
    <3>2. <<b, Policy(b)>> \in Branches \X ({"thawed"} \cup Labels)
      BY DEF LocalTypes, Policy, Frozen
    <3> QED BY <1>10, <3>1, <3>2 DEF Evaluate, LocalTypes, Steps
  <2> QED BY <2>1, <2>2, <2>3
<1>11. ASSUME NEW s \in Sessions, Fence(s) PROVE LocalTypes'
  BY <1>11, GotoTypes, StopTypes DEF Fence, ClaimLost, StepFits, Publishing, Steps
<1>12. ASSUME NEW s \in Sessions, Gate(s) PROVE LocalTypes'
  BY <1>12, GotoTypes, StopTypes DEF Gate, FailedStep, StepFits, Publishing, Steps
<1>13. ASSUME NEW s \in Sessions, Send(s) PROVE LocalTypes'
  <2>1. CASE forgeUp
    BY <1>13, <2>1 DEF Send, LocalTypes, Steps
  <2>2. CASE ~forgeUp
    BY <1>13, <2>2, GotoTypes DEF Send, FailedStep, Steps
  <2> QED BY <2>1, <2>2
<1>14. ASSUME NEW s \in Sessions, RecordVerification(s) PROVE LocalTypes'
  BY <1>14, GotoTypes, StopTypes DEF RecordVerification, StepFits, Publishing, Steps
<1>15. ASSUME NEW s \in Sessions, RecordUnverified(s) PROVE LocalTypes'
  BY <1>15, GotoTypes, StopTypes DEF RecordUnverified, StepFits, Publishing, Steps
<1>16. ASSUME NEW s \in Sessions, ActivationUnset(s) PROVE LocalTypes'
  BY <1>16, GotoTypes, StopTypes DEF ActivationUnset, StepFits, Publishing, Steps
<1>17. ASSUME NEW s \in Sessions, ActivationUnready(s) PROVE LocalTypes'
  BY <1>17, GotoTypes, StopTypes DEF ActivationUnready, StepFits, Publishing, Steps
<1>18. ASSUME NEW s \in Sessions, RecordFailure(s) PROVE LocalTypes'
  BY <1>18, GotoTypes, StopTypes DEF RecordFailure, StepFits, Publishing, Steps
<1>19. ASSUME NEW s \in Sessions, ReleaseWork(s) PROVE LocalTypes'
  BY <1>19, GotoTypes, StopTypes DEF ReleaseWork, StepFits, Publishing, Steps
<1>20. ASSUME NEW s \in Sessions, RecordSuccess(s) PROVE LocalTypes'
  BY <1>20, GotoTypes, StopTypes DEF RecordSuccess, StepFits, Publishing, Steps
<1>21. ASSUME NEW s \in Sessions, RecordDeactivation(s) PROVE LocalTypes'
  BY <1>21, GotoTypes, StopTypes DEF RecordDeactivation, StepFits, Publishing, Steps
<1>22. ASSUME NEW s \in Sessions, RecordConvergence(s) PROVE LocalTypes'
  BY <1>22, GotoTypes, StopTypes DEF RecordConvergence, StepFits, Publishing, Steps
<1>23. ASSUME NEW s \in Sessions, \E kind \in DOMAIN StartableIn : Start(s,
    kind) PROVE LocalTypes'
  BY <1>23 DEF Start, StartAt, StartableIn, LocalTypes, Steps
<1>24. ASSUME NEW s \in Sessions, \E b \in Branches : CreateFreeze(s, b) PROVE
    LocalTypes'
  BY <1>24 DEF CreateFreeze, Froze, StartAt, LocalTypes, Steps
<1>25. ASSUME NEW s \in Sessions, \E b \in Branches : StartScheduled(s, b)
    PROVE LocalTypes'
  BY <1>25 DEF StartScheduled, Froze, StartAt, LocalTypes, Steps
<1>26. ASSUME NEW s \in Sessions, \E b \in Branches : EndFreeze(s, b) PROVE
    LocalTypes'
  BY <1>26 DEF EndFreeze, Froze, StartAt, LocalTypes, Steps
<1>27. ASSUME NEW s \in Sessions, \E b \in Branches : Relabel(s, b) PROVE
    LocalTypes'
  BY <1>27 DEF Relabel, Froze, StartAt, LocalTypes, Steps
<1>28. ASSUME NEW s \in Sessions, Abandon(s) PROVE LocalTypes'
  BY <1>28, StopTypes DEF Abandon
<1>29. CASE RunDue
  <2>1. Runner \in Sessions /\ claim[Runner].token = 0 /\ row.gen \in Nat
    BY <1>29 DEF Sessions, RunDue, LocalTypes, NoClaim, SharedTypes, Row
  <2>2. TakeClaim(Runner, row, "runner", "load")
    BY <1>29 DEF RunDue
  <2> QED BY <2>1, <2>2, TakeClaimTypes DEF Steps
<1>30. CASE
       \/ (\E b \in Branches : Schedule(b)) \/ ChangeSetup
       \/ ReplaceWebhookSecret \/ LeaseRunsOut \/ RunAtReached
       \/ ForgeFails \/ ForgeRecovers
  BY <1>30 DEF Schedule, Counted, ChangeSetup, ReplaceWebhookSecret,
      LeaseRunsOut, RunAtReached, ForgeFails, ForgeRecovers, LocalTypes
<1>31. CASE UNCHANGED vars
  BY <1>31 DEF vars, LocalTypes
<1> QED BY <1>1, <1>2, <1>3, <1>4, <1>5, <1>6, <1>7, <1>8, <1>9, <1>10, <1>11,
    <1>12, <1>13, <1>14, <1>15, <1>16, <1>17, <1>18, <1>19, <1>20, <1>21,
    <1>22, <1>23, <1>24, <1>25, <1>26, <1>27, <1>28, <1>29, <1>30, <1>31 DEF
    Next, Step, Request

(* No step leaves the ones its operation consists of.                      *)
LEMMA StepFitsStep ==
  ASSUME Shape, [Next]_vars
  PROVE  StepFits'
<1> USE DEF Shape, LocalTypes, StepFits, Publishing, repo, forge, bounds,
    local
<1>1. ASSUME NEW s \in Sessions,
            \/ EnqueueWork(s) \/ ClaimWork(s) \/ LoadRepository(s)
            \/ DiscardWork(s) \/ ReadinessPasses(s) \/ ReadinessFails(s)
            \/ SetupPost(s) \/ SyncPullRequests(s) \/ MarkActive(s)
            \/ Evaluate(s) \/ Fence(s) \/ Gate(s) \/ Send(s)
            \/ RecordVerification(s) \/ RecordUnverified(s)
            \/ ActivationUnset(s) \/ ActivationUnready(s)
            \/ RecordFailure(s) \/ ReleaseWork(s) \/ RecordSuccess(s)
            \/ RecordDeactivation(s) \/ RecordConvergence(s)
      PROVE  StepFits'
  BY <1>1 DEF EnqueueWork, Goto, Stop, ClaimWork, TakeClaim, AfterClaim,
      LoadRepository, DiscardWork, ReadinessPasses, ReadinessFails, Fresh,
      SetupPost, SyncPullRequests, FailedStep, MarkActive, MarkedActive,
      Evaluate, ClaimLost, Fence, FencePasses, Gate, Send, Sent,
      RecordVerification, RecordUnverified, ActivationUnset,
      ActivationUnready, RecordFailure, ReleaseWork, RecordSuccess,
      RecordDeactivation, MayDeactivate, NoFreezes, RecordConvergence
<1>2. ASSUME NEW s \in Sessions,
            \/ (\E kind \in DOMAIN StartableIn : Start(s, kind))
            \/ (\E b \in Branches : CreateFreeze(s, b))
            \/ (\E b \in Branches : StartScheduled(s, b))
            \/ (\E b \in Branches : EndFreeze(s, b))
            \/ (\E b \in Branches : Relabel(s, b)) \/ Abandon(s)
      PROVE  StepFits'
  BY <1>2 DEF Start, StartAt, StartableIn, CreateFreeze, Froze, Frozen,
      StartScheduled, EndFreeze, Relabel, Abandon, Stop, Sent
<1>3. CASE
       \/ RunDue \/ (\E b \in Branches : Schedule(b)) \/ ChangeSetup
       \/ ReplaceWebhookSecret \/ LeaseRunsOut \/ RunAtReached
       \/ ForgeFails \/ ForgeRecovers
  BY <1>3 DEF RunDue, TakeClaim, Schedule, Counted, ChangeSetup,
      ReplaceWebhookSecret, LeaseRunsOut, RunAtReached, ForgeFails,
      ForgeRecovers
<1>4. CASE UNCHANGED vars
  BY <1>4 DEF vars
<1> QED BY <1>1, <1>2, <1>3, <1>4 DEF Next, Step, Request

(* A session has a claim from the step that takes it to the one that ends  *)
(* it, and at no other time.                                               *)
LEMMA ClaimFitsStep ==
  ASSUME Shape, [Next]_vars
  PROVE  ClaimFits'
<1> USE DEF Shape, LocalTypes, SharedTypes, Row, StepFits, ClaimFits,
    Unclaimed, Holds, Publishing, NoClaim, Claim, repo, forge, bounds, local
<1>1. ASSUME NEW s \in Sessions, ClaimWork(s) PROVE ClaimFits'
  <2>1. CASE Claimable(row)
    <3>1. pc'[s] \in {"sync", "check", "load"} /\ op' = op
          /\ op[s] \in {"deactivate", "reconcile", "recover", "converge"}
      BY <1>1, <2>1 DEF ClaimWork, TakeClaim, AfterClaim
    <3>2. claim' = [claim EXCEPT ![s] = [gen |-> row.gen, token |-> FreshToken]]
          /\ \A t \in Sessions \ {s} : pc'[t] = pc[t]
      BY <1>1, <2>1 DEF ClaimWork, TakeClaim, ClaimOn, Claimed
    <3>3. FreshToken # 0
      BY <1>1, FreshTokenIsFresh DEF ClaimWork
    <3> QED BY <3>1, <3>2, <3>3
  <2>2. CASE ~Claimable(row)
    BY <1>1, <2>2 DEF ClaimWork, Stop
  <2> QED BY <2>1, <2>2
<1>2. ASSUME NEW s \in Sessions, MarkActive(s) PROVE ClaimFits'
  BY <1>2, FreshTokenIsFresh DEF MarkActive, MarkedActive, TakeClaim, Goto, Stop, ClaimOn, Claimed, Enqueued
<1>3. ASSUME NEW s \in Sessions,
            \/ EnqueueWork(s) \/ LoadRepository(s) \/ DiscardWork(s)
            \/ ReadinessPasses(s) \/ ReadinessFails(s) \/ SetupPost(s)
            \/ SyncPullRequests(s) \/ Evaluate(s) \/ Fence(s) \/ Gate(s)
            \/ Send(s) \/ RecordVerification(s) \/ RecordUnverified(s)
            \/ ActivationUnset(s) \/ ActivationUnready(s)
            \/ RecordFailure(s) \/ ReleaseWork(s) \/ RecordSuccess(s)
            \/ RecordDeactivation(s) \/ RecordConvergence(s)
      PROVE  ClaimFits'
  BY <1>3 DEF EnqueueWork, Goto, Stop, LoadRepository, DiscardWork,
      ReadinessPasses, ReadinessFails, Fresh, SetupPost, SyncPullRequests,
      FailedStep, Evaluate, ClaimLost, Fence, FencePasses, Gate, Send, Sent,
      RecordVerification, RecordUnverified, ActivationUnset,
      ActivationUnready, RecordFailure, ReleaseWork, RecordSuccess,
      RecordDeactivation, MayDeactivate, NoFreezes, RecordConvergence
<1>4. ASSUME NEW s \in Sessions,
            \/ (\E kind \in DOMAIN StartableIn : Start(s, kind))
            \/ (\E b \in Branches : CreateFreeze(s, b))
            \/ (\E b \in Branches : StartScheduled(s, b))
            \/ (\E b \in Branches : EndFreeze(s, b))
            \/ (\E b \in Branches : Relabel(s, b)) \/ Abandon(s)
      PROVE  ClaimFits'
  BY <1>4 DEF Start, StartAt, StartableIn, CreateFreeze, Froze, Frozen,
      StartScheduled, EndFreeze, Relabel, Abandon, Stop, Sent
<1>5. CASE RunDue
  BY <1>5, FreshTokenIsFresh DEF RunDue, TakeClaim, ClaimOn, Claimed, Sessions
<1>6. CASE
       \/ (\E b \in Branches : Schedule(b)) \/ ChangeSetup
       \/ ReplaceWebhookSecret \/ LeaseRunsOut \/ RunAtReached
       \/ ForgeFails \/ ForgeRecovers
  BY <1>6 DEF Schedule, Counted, ChangeSetup, ReplaceWebhookSecret,
      LeaseRunsOut, RunAtReached, ForgeFails, ForgeRecovers
<1>7. CASE UNCHANGED vars
  BY <1>7 DEF vars
<1> QED BY <1>1, <1>2, <1>3, <1>4, <1>5, <1>6, <1>7 DEF Next, Step, Request

(* Operations are started by handlers, of the kinds this instance has; the *)
(* runner only reconciles and recovers.                                    *)
LEMMA AskedForStep ==
  ASSUME Shape, [Next]_vars
  PROVE  AskedFor'
<1> USE DEF Shape, LocalTypes, StepFits, AskedFor, Publishing, repo, forge,
    bounds, local
<1>1. ASSUME NEW s \in Sessions,
            \/ EnqueueWork(s) \/ ClaimWork(s) \/ LoadRepository(s)
            \/ DiscardWork(s) \/ ReadinessPasses(s) \/ ReadinessFails(s)
            \/ SetupPost(s) \/ SyncPullRequests(s) \/ MarkActive(s)
            \/ Evaluate(s) \/ Fence(s) \/ Gate(s) \/ Send(s)
            \/ RecordVerification(s) \/ RecordUnverified(s)
            \/ ActivationUnset(s) \/ ActivationUnready(s)
            \/ RecordFailure(s) \/ ReleaseWork(s) \/ RecordSuccess(s)
            \/ RecordDeactivation(s) \/ RecordConvergence(s)
      PROVE  AskedFor'
  BY <1>1 DEF EnqueueWork, Goto, Stop, ClaimWork, TakeClaim, AfterClaim,
      LoadRepository, DiscardWork, ReadinessPasses, ReadinessFails, Fresh,
      SetupPost, SyncPullRequests, FailedStep, MarkActive, MarkedActive,
      Evaluate, ClaimLost, Fence, FencePasses, Gate, Send, Sent,
      RecordVerification, RecordUnverified, ActivationUnset,
      ActivationUnready, RecordFailure, ReleaseWork, RecordSuccess,
      RecordDeactivation, MayDeactivate, NoFreezes, RecordConvergence
<1>2. ASSUME NEW s \in Sessions,
            \/ (\E kind \in DOMAIN StartableIn : Start(s, kind))
            \/ (\E b \in Branches : CreateFreeze(s, b))
            \/ (\E b \in Branches : StartScheduled(s, b))
            \/ (\E b \in Branches : EndFreeze(s, b))
            \/ (\E b \in Branches : Relabel(s, b)) \/ Abandon(s)
      PROVE  AskedFor'
  BY <1>2 DEF Start, StartAt, StartableIn, CreateFreeze, Froze, Frozen,
      StartScheduled, EndFreeze, Relabel, Abandon, Stop, Sent
<1>3. CASE
       \/ RunDue \/ (\E b \in Branches : Schedule(b)) \/ ChangeSetup
       \/ ReplaceWebhookSecret \/ LeaseRunsOut \/ RunAtReached
       \/ ForgeFails \/ ForgeRecovers
  BY <1>3 DEF RunDue, TakeClaim, Schedule, Counted, ChangeSetup,
      ReplaceWebhookSecret, LeaseRunsOut, RunAtReached, ForgeFails,
      ForgeRecovers
<1>4. CASE UNCHANGED vars
  BY <1>4 DEF vars
<1> QED BY <1>1, <1>2, <1>3, <1>4 DEF Next, Step, Request

(* A head leaves the list of a session when its status was sent, so that a *)
(* session that records its success has none left.                         *)
LEMMA WorkFitsStep ==
  ASSUME Shape, [Next]_vars
  PROVE  WorkFits'
<1> USE DEF Shape, LocalTypes, StepFits, WorkFits, Chosen, Publishing, repo,
    forge, bounds, local
<1>1. ASSUME NEW s \in Sessions, Evaluate(s) PROVE WorkFits'
  BY <1>1 DEF Evaluate, ClaimLost, Goto, Stop
<1>2. ASSUME NEW s \in Sessions,
            \/ EnqueueWork(s) \/ ClaimWork(s) \/ LoadRepository(s)
            \/ DiscardWork(s) \/ ReadinessPasses(s) \/ ReadinessFails(s)
            \/ SetupPost(s) \/ SyncPullRequests(s) \/ MarkActive(s)
            \/ Fence(s) \/ Gate(s) \/ Send(s) \/ RecordVerification(s)
            \/ RecordUnverified(s) \/ ActivationUnset(s)
            \/ ActivationUnready(s) \/ RecordFailure(s) \/ ReleaseWork(s)
            \/ RecordSuccess(s) \/ RecordDeactivation(s)
            \/ RecordConvergence(s)
      PROVE  WorkFits'
  BY <1>2 DEF EnqueueWork, Goto, Stop, ClaimWork, TakeClaim, AfterClaim,
      LoadRepository, DiscardWork, ReadinessPasses, ReadinessFails, Fresh,
      SetupPost, SyncPullRequests, FailedStep, MarkActive, MarkedActive,
      Fence, FencePasses, ClaimLost, Gate, Send, Sent, RecordVerification,
      RecordUnverified, ActivationUnset, ActivationUnready, RecordFailure,
      ReleaseWork, RecordSuccess, RecordDeactivation, MayDeactivate,
      NoFreezes, RecordConvergence
<1>3. ASSUME NEW s \in Sessions, \E kind \in DOMAIN StartableIn : Start(s,
    kind) PROVE WorkFits'
  BY <1>3 DEF Start, StartAt, StartableIn
<1>4. ASSUME NEW s \in Sessions, \E b \in Branches : CreateFreeze(s, b) PROVE
    WorkFits'
  BY <1>4 DEF CreateFreeze, Froze, StartAt, Frozen
<1>5. ASSUME NEW s \in Sessions, \E b \in Branches : StartScheduled(s, b)
    PROVE WorkFits'
  BY <1>5 DEF StartScheduled, Froze, StartAt, Frozen
<1>6. ASSUME NEW s \in Sessions, \E b \in Branches : EndFreeze(s, b) PROVE
    WorkFits'
  BY <1>6 DEF EndFreeze, Froze, StartAt, Frozen
<1>7. ASSUME NEW s \in Sessions, \E b \in Branches : Relabel(s, b) PROVE
    WorkFits'
  BY <1>7 DEF Relabel, Froze, StartAt, Frozen
<1>8. ASSUME NEW s \in Sessions,
            Abandon(s)
      PROVE  WorkFits'
  BY <1>8 DEF Abandon, Stop, Sent
<1>9. CASE
       \/ RunDue \/ (\E b \in Branches : Schedule(b)) \/ ChangeSetup
       \/ ReplaceWebhookSecret \/ LeaseRunsOut \/ RunAtReached
       \/ ForgeFails \/ ForgeRecovers
  BY <1>9 DEF RunDue, TakeClaim, Schedule, Counted, ChangeSetup,
      ReplaceWebhookSecret, LeaseRunsOut, RunAtReached, ForgeFails,
      ForgeRecovers
<1>10. CASE UNCHANGED vars
  BY <1>10 DEF vars
<1> QED BY <1>1, <1>2, <1>3, <1>4, <1>5, <1>6, <1>7, <1>8, <1>9, <1>10 DEF
    Next, Step, Request

(* Every write of the state or the setup makes the snapshots of the others *)
(* stale, and a readiness check that passes takes a new one.               *)
LEMMA SnapshotFitsStep ==
  ASSUME Shape, [Next]_vars
  PROVE  SnapshotFits'
<1> USE DEF Shape, LocalTypes, StepFits, SnapshotFits, Publishing, repo,
    forge, bounds, local
<1>1. ASSUME NEW s \in Sessions, ReadinessFails(s) PROVE SnapshotFits'
  BY <1>1 DEF ReadinessFails, Goto, Stop, Fresh, RepositoryWritten
<1>2. ASSUME NEW s \in Sessions, MarkActive(s) PROVE SnapshotFits'
  BY <1>2 DEF MarkActive, MarkedActive, TakeClaim, Goto, Stop,
      RepositoryWritten
<1>3. ASSUME NEW s \in Sessions,
            \/ EnqueueWork(s) \/ ClaimWork(s) \/ LoadRepository(s)
            \/ DiscardWork(s) \/ ReadinessPasses(s) \/ SetupPost(s)
            \/ SyncPullRequests(s) \/ Evaluate(s) \/ Fence(s) \/ Gate(s)
            \/ Send(s) \/ RecordVerification(s) \/ RecordUnverified(s)
            \/ ActivationUnset(s) \/ ActivationUnready(s)
            \/ RecordFailure(s) \/ ReleaseWork(s) \/ RecordSuccess(s)
            \/ RecordDeactivation(s) \/ RecordConvergence(s)
      PROVE  SnapshotFits'
  BY <1>3 DEF EnqueueWork, Goto, Stop, ClaimWork, TakeClaim, AfterClaim,
      LoadRepository, DiscardWork, ReadinessPasses, SetupPost,
      SyncPullRequests, FailedStep, Evaluate, ClaimLost, Fence, FencePasses,
      Gate, Send, Sent, RecordVerification, Fresh, RepositoryWritten,
      RecordUnverified, ActivationUnset, ActivationUnready, RecordFailure,
      ReleaseWork, RecordSuccess, RecordDeactivation, MayDeactivate,
      NoFreezes, RecordConvergence
<1>4. ASSUME NEW s \in Sessions,
            \/ (\E kind \in DOMAIN StartableIn : Start(s, kind))
            \/ (\E b \in Branches : CreateFreeze(s, b))
            \/ (\E b \in Branches : StartScheduled(s, b))
            \/ (\E b \in Branches : EndFreeze(s, b))
            \/ (\E b \in Branches : Relabel(s, b)) \/ Abandon(s)
      PROVE  SnapshotFits'
  BY <1>4 DEF Start, StartAt, StartableIn, CreateFreeze, Froze, Frozen,
      StartScheduled, EndFreeze, Relabel, Abandon, Stop, Sent
<1>5. CASE ChangeSetup
  BY <1>5 DEF ChangeSetup, Counted, RepositoryWritten
<1>6. CASE
       \/ RunDue \/ (\E b \in Branches : Schedule(b))
       \/ ReplaceWebhookSecret \/ LeaseRunsOut \/ RunAtReached
       \/ ForgeFails \/ ForgeRecovers
  BY <1>6 DEF RunDue, TakeClaim, Schedule, Counted, ReplaceWebhookSecret,
      RepositoryWritten, LeaseRunsOut, RunAtReached, ForgeFails, ForgeRecovers
<1>7. CASE UNCHANGED vars
  BY <1>7 DEF vars
<1> QED BY <1>1, <1>2, <1>3, <1>4, <1>5, <1>6, <1>7 DEF Next, Step, Request

(* All of Shape, in every state.                                           *)
LEMMA ShapeInvariant == Spec => []Shape
<1>1. Shape /\ [Next]_vars => Shape'
  BY SharedTypesStep, LocalTypesStep, StepFitsStep, ClaimFitsStep, AskedForStep,
     WorkFitsStep, SnapshotFitsStep DEF Shape
<1> QED BY ShapeInit, <1>1, PTL DEF Spec

(* Type correctness.                                                       *)
THEOREM TypeCorrect == Spec => []TypeOK
<1>1. Shape => TypeOK
  BY DEF Shape, SharedTypes, LocalTypes, TypeOK
<1> QED BY ShapeInvariant, <1>1, PTL
-----------------------------------------------------------------------------
(* Leases.  A claim is taken only when no lease is in force, so when nobody*)
(* holds one; and only its holder's release, or time, ends a lease.        *)

(* Leases are exclusive: the claim that is taken is the only one there is. *)
LEMMA LeasedStep ==
  ASSUME Prompt, Shape, Leased, [Next]_vars
  PROVE  Leased'
<1> USE DEF Shape, Prompt, Leased, Holds, SharedTypes, LocalTypes, Row, Claim,
    NoClaim, NoRow, ClaimFits, Unclaimed, StepFits, Publishing, Exists, Owns,
    Current, Claimable, LeaseFree, Enqueued, Ensured, Claimed, ClaimOn,
    Completed, Released, Rescheduled, Unlocked, repo, forge, bounds, local
<1>1. ASSUME NEW s \in Sessions, EnqueueWork(s) PROVE Leased'
  BY <1>1 DEF EnqueueWork, Goto, Stop
<1>2. ASSUME NEW s \in Sessions, ClaimWork(s) PROVE Leased'
  <2>1. CASE Claimable(row)
    <3>1. \A t \in Sessions : ~Holds(t)
      BY <2>1
    <3>2. /\ row' = [gen |-> row.gen, run |-> row.run, token |-> FreshToken,
                      lease |-> "live"]
          /\ claim' = [claim EXCEPT ![s] = [gen |-> row.gen, token |-> FreshToken]]
      BY <1>2, <2>1 DEF ClaimWork, TakeClaim
    <3> QED BY <2>1, <3>1, <3>2
  <2>2. CASE ~Claimable(row)
    BY <1>2, <2>2 DEF ClaimWork, Stop
  <2> QED BY <2>1, <2>2
<1>3. ASSUME NEW s \in Sessions, DiscardWork(s) PROVE Leased'
  BY <1>3 DEF DiscardWork, Stop
<1>4. ASSUME NEW s \in Sessions, ReadinessFails(s) PROVE Leased'
  BY <1>4 DEF ReadinessFails, Goto, Stop, Fresh
<1>5. ASSUME NEW s \in Sessions, MarkActive(s) PROVE Leased'
  BY <1>5, FreshTokenIsFresh DEF MarkActive, MarkedActive, TakeClaim, Goto,
      Stop
<1>6. ASSUME NEW s \in Sessions, RecordFailure(s) PROVE Leased'
  BY <1>6 DEF RecordFailure, Goto
<1>7. ASSUME NEW s \in Sessions, ReleaseWork(s) PROVE Leased'
  BY <1>7 DEF ReleaseWork, Stop
<1>8. ASSUME NEW s \in Sessions, RecordSuccess(s) PROVE Leased'
  BY <1>8 DEF RecordSuccess, Goto, Stop
<1>9. ASSUME NEW s \in Sessions, RecordDeactivation(s) PROVE Leased'
  <2>1. CASE MayDeactivate(s)
    <3>1. \A t \in Sessions \ {s} : ~Holds(t)
      BY <1>9, <2>1 DEF MayDeactivate, RecordDeactivation
    <3> QED BY <1>9, <2>1, <3>1 DEF RecordDeactivation, Stop
  <2>2. CASE ~MayDeactivate(s)
    BY <1>9, <2>2 DEF RecordDeactivation, Goto
  <2> QED BY <2>1, <2>2
<1>10. ASSUME NEW s \in Sessions, RecordConvergence(s) PROVE Leased'
  BY <1>10 DEF RecordConvergence, Stop
<1>11. ASSUME NEW s \in Sessions,
            \/ LoadRepository(s) \/ ReadinessPasses(s) \/ SetupPost(s)
            \/ SyncPullRequests(s) \/ Evaluate(s) \/ Fence(s) \/ Gate(s)
            \/ Send(s) \/ RecordVerification(s) \/ RecordUnverified(s)
            \/ ActivationUnset(s) \/ ActivationUnready(s)
      PROVE  Leased'
  BY <1>11 DEF LoadRepository, Goto, Stop, ReadinessPasses, SetupPost,
      SyncPullRequests, FailedStep, Evaluate, ClaimLost, Fence, FencePasses,
      Gate, Send, Sent, RecordVerification, Fresh, RecordUnverified,
      ActivationUnset, ActivationUnready
<1>12. ASSUME NEW s \in Sessions,
            \/ (\E kind \in DOMAIN StartableIn : Start(s, kind))
            \/ (\E b \in Branches : CreateFreeze(s, b))
            \/ (\E b \in Branches : StartScheduled(s, b))
            \/ (\E b \in Branches : EndFreeze(s, b))
            \/ (\E b \in Branches : Relabel(s, b)) \/ Abandon(s)
      PROVE  Leased'
  BY <1>12 DEF Start, StartAt, StartableIn, CreateFreeze, Froze, Frozen,
      StartScheduled, EndFreeze, Relabel, Abandon, Stop, Sent
<1>13. CASE RunDue
  BY <1>13, FreshTokenIsFresh DEF RunDue, TakeClaim
<1>14. CASE LeaseRunsOut
  BY <1>14 DEF LeaseRunsOut
<1>15. CASE
       \/ (\E b \in Branches : Schedule(b)) \/ ChangeSetup
       \/ ReplaceWebhookSecret \/ RunAtReached \/ ForgeFails
       \/ ForgeRecovers
  BY <1>15 DEF Schedule, Counted, ChangeSetup, ReplaceWebhookSecret,
      RunAtReached, ForgeFails, ForgeRecovers
<1>16. CASE UNCHANGED vars
  BY <1>16 DEF vars
<1> QED BY <1>1, <1>2, <1>3, <1>4, <1>5, <1>6, <1>7, <1>8, <1>9, <1>10, <1>11,
    <1>12, <1>13, <1>14, <1>15, <1>16 DEF Next, Step, Request

LEMMA LeasedInvariant ==
  ASSUME Prompt PROVE Spec => []Leased
<1>1. Init => Leased
  BY DEF Init, Leased, Holds, NoClaim
<1>2. Shape /\ Leased /\ [Next]_vars => Leased'
  BY LeasedStep
<1> QED BY <1>1, <1>2, ShapeInvariant, PTL DEF Spec

(* Two sessions are never both past the fence of a publication.            *)
THEOREM OnePublisherAtATime ==
  ASSUME Prompt PROVE Spec => []OnePublisher
<1>1. Shape /\ Leased => OnePublisher
  BY DEF Shape, LocalTypes, StepFits, ClaimFits, Unclaimed, Leased, OnePublisher
<1> QED BY <1>1, ShapeInvariant, LeasedInvariant, PTL
-----------------------------------------------------------------------------
(* Work.  Whoever discards or completes the job does so under a state that *)
(* only a holder of the claim, or a readiness check, could have changed.   *)

(* Between reading an idle state and discarding the job nobody activates,  *)
(* since an activation would need the lease.                               *)
LEMMA DiscardStep ==
  ASSUME Prompt, Shape, Leased, DiscardFits, [Next]_vars
  PROVE  DiscardFits'
<1> USE DEF Shape, SharedTypes, LocalTypes, StepFits, ClaimFits, Unclaimed,
    Publishing, Holds, NoClaim, Claim, Row, Enforced, Labels, States, repo,
    forge, bounds, local, Prompt, Leased, DiscardFits, LeaseFree, Enqueued
<1>1. ASSUME NEW s \in Sessions, LoadRepository(s) PROVE DiscardFits'
  BY <1>1 DEF LoadRepository, Goto, Stop
<1>2. ASSUME NEW s \in Sessions, ReadinessFails(s) PROVE DiscardFits'
  BY <1>2 DEF ReadinessFails, Goto, Stop, Fresh
<1>3. ASSUME NEW s \in Sessions, MarkActive(s) PROVE DiscardFits'
  BY <1>3 DEF MarkActive, MarkedActive, TakeClaim, Goto, Stop
<1>4. ASSUME NEW s \in Sessions, RecordFailure(s) PROVE DiscardFits'
  BY <1>4 DEF RecordFailure, Goto
<1>5. ASSUME NEW s \in Sessions,
            \/ EnqueueWork(s) \/ ClaimWork(s) \/ DiscardWork(s)
            \/ ReadinessPasses(s) \/ SetupPost(s) \/ SyncPullRequests(s)
            \/ Evaluate(s) \/ Fence(s) \/ Gate(s) \/ Send(s)
            \/ RecordVerification(s) \/ RecordUnverified(s)
            \/ ActivationUnset(s) \/ ActivationUnready(s)
            \/ ReleaseWork(s) \/ RecordSuccess(s)
            \/ RecordDeactivation(s) \/ RecordConvergence(s)
      PROVE  DiscardFits'
  BY <1>5 DEF EnqueueWork, Goto, Stop, ClaimWork, TakeClaim, AfterClaim,
      DiscardWork, ReadinessPasses, SetupPost, SyncPullRequests, FailedStep,
      Evaluate, ClaimLost, Fence, FencePasses, Gate, Send, Sent,
      RecordVerification, Fresh, RecordUnverified, ActivationUnset,
      ActivationUnready, ReleaseWork, RecordSuccess, RecordDeactivation,
      MayDeactivate, NoFreezes, RecordConvergence
<1>6. ASSUME NEW s \in Sessions,
            \/ (\E kind \in DOMAIN StartableIn : Start(s, kind))
            \/ (\E b \in Branches : CreateFreeze(s, b))
            \/ (\E b \in Branches : StartScheduled(s, b))
            \/ (\E b \in Branches : EndFreeze(s, b))
            \/ (\E b \in Branches : Relabel(s, b)) \/ Abandon(s)
      PROVE  DiscardFits'
  BY <1>6 DEF Start, StartAt, StartableIn, CreateFreeze, Froze, Frozen,
      StartScheduled, EndFreeze, Relabel, Abandon, Stop, Sent
<1>7. CASE
       \/ RunDue \/ (\E b \in Branches : Schedule(b)) \/ ChangeSetup
       \/ ReplaceWebhookSecret \/ LeaseRunsOut \/ RunAtReached
       \/ ForgeFails \/ ForgeRecovers
  BY <1>7 DEF RunDue, TakeClaim, Schedule, Counted, ChangeSetup,
      ReplaceWebhookSecret, LeaseRunsOut, RunAtReached, ForgeFails,
      ForgeRecovers
<1>8. CASE UNCHANGED vars
  BY <1>8 DEF vars
<1> QED BY <1>1, <1>2, <1>3, <1>4, <1>5, <1>6, <1>7, <1>8 DEF Next, Step,
    Request

(* A convergence that saw the active state is the holder of the lease, so  *)
(* nobody else records a failure.                                          *)
LEMMA ConvergenceStep ==
  ASSUME Prompt, NoReadiness, Shape, Leased, ConvergenceFits, [Next]_vars
  PROVE  ConvergenceFits'
<1> USE DEF Shape, SharedTypes, LocalTypes, StepFits, ClaimFits, Unclaimed,
    Publishing, Holds, NoClaim, Claim, Row, Enforced, Labels, States, repo,
    forge, bounds, local, Prompt, NoReadiness, AskedFor, SnapshotFits, Leased,
    ConvergenceFits
<1>1. ASSUME NEW s \in Sessions, LoadRepository(s) PROVE ConvergenceFits'
  BY <1>1 DEF LoadRepository, Goto, Stop
<1>2. ASSUME NEW s \in Sessions, ReadinessFails(s) PROVE ConvergenceFits'
  BY <1>2 DEF ReadinessFails, Goto, Stop, Fresh
<1>3. ASSUME NEW s \in Sessions, SyncPullRequests(s) PROVE ConvergenceFits'
  BY <1>3 DEF SyncPullRequests, Goto, FailedStep
<1>4. ASSUME NEW s \in Sessions, RecordFailure(s) PROVE ConvergenceFits'
  BY <1>4 DEF RecordFailure, Goto
<1>5. ASSUME NEW s \in Sessions,
            \/ EnqueueWork(s) \/ ClaimWork(s) \/ DiscardWork(s)
            \/ ReadinessPasses(s) \/ SetupPost(s) \/ MarkActive(s)
            \/ Evaluate(s) \/ Fence(s) \/ Gate(s) \/ Send(s)
            \/ RecordVerification(s) \/ RecordUnverified(s)
            \/ ActivationUnset(s) \/ ActivationUnready(s)
            \/ ReleaseWork(s) \/ RecordSuccess(s)
            \/ RecordDeactivation(s) \/ RecordConvergence(s)
      PROVE  ConvergenceFits'
  BY <1>5 DEF EnqueueWork, Goto, Stop, ClaimWork, TakeClaim, AfterClaim,
      DiscardWork, ReadinessPasses, SetupPost, MarkActive, MarkedActive,
      Evaluate, ClaimLost, Fence, FencePasses, Gate, FailedStep, Send, Sent,
      RecordVerification, Fresh, RecordUnverified, ActivationUnset,
      ActivationUnready, ReleaseWork, RecordSuccess, RecordDeactivation,
      MayDeactivate, NoFreezes, RecordConvergence
<1>6. ASSUME NEW s \in Sessions,
            \/ (\E kind \in DOMAIN StartableIn : Start(s, kind))
            \/ (\E b \in Branches : CreateFreeze(s, b))
            \/ (\E b \in Branches : StartScheduled(s, b))
            \/ (\E b \in Branches : EndFreeze(s, b))
            \/ (\E b \in Branches : Relabel(s, b)) \/ Abandon(s)
      PROVE  ConvergenceFits'
  BY <1>6 DEF Start, StartAt, StartableIn, CreateFreeze, Froze, Frozen,
      StartScheduled, EndFreeze, Relabel, Abandon, Stop, Sent
<1>7. CASE
       \/ RunDue \/ (\E b \in Branches : Schedule(b)) \/ ChangeSetup
       \/ ReplaceWebhookSecret \/ LeaseRunsOut \/ RunAtReached
       \/ ForgeFails \/ ForgeRecovers
  BY <1>7 DEF RunDue, TakeClaim, Schedule, Counted, ChangeSetup,
      ReplaceWebhookSecret, LeaseRunsOut, RunAtReached, ForgeFails,
      ForgeRecovers
<1>8. CASE UNCHANGED vars
  BY <1>8 DEF vars
<1> QED BY <1>1, <1>2, <1>3, <1>4, <1>5, <1>6, <1>7, <1>8 DEF Next, Step,
    Request

(* Whoever removes the job has made the repository active or found it so,  *)
(* or idle.                                                                *)
LEMMA UnhealthyStep ==
  ASSUME Prompt, NoReadiness, Shape, Leased, DiscardFits, ConvergenceFits,
      UnhealthyHasJob, [Next]_vars
  PROVE  UnhealthyHasJob'
<1> USE DEF Shape, SharedTypes, LocalTypes, StepFits, ClaimFits, Unclaimed,
    Publishing, Holds, NoClaim, Claim, Row, Enforced, Labels, States, Exists,
    Enqueued, Ensured, Claimed, ClaimOn, Completed, Released, Rescheduled,
    Unlocked, Owns, Claimable, LeaseFree, NoRow, repo, forge, bounds, local,
    Prompt, NoReadiness, AskedFor, SnapshotFits, Leased, DiscardFits,
    ConvergenceFits, UnhealthyHasJob
<1>1. ASSUME NEW s \in Sessions, DiscardWork(s) PROVE UnhealthyHasJob'
  BY <1>1 DEF DiscardWork, Stop
<1>2. ASSUME NEW s \in Sessions, ReadinessFails(s) PROVE UnhealthyHasJob'
  BY <1>2 DEF ReadinessFails, Goto, Stop, Fresh
<1>3. ASSUME NEW s \in Sessions, RecordFailure(s) PROVE UnhealthyHasJob'
  BY <1>3 DEF RecordFailure, Goto
<1>4. ASSUME NEW s \in Sessions, ReleaseWork(s) PROVE UnhealthyHasJob'
  BY <1>4 DEF ReleaseWork, Stop
<1>5. ASSUME NEW s \in Sessions, RecordSuccess(s) PROVE UnhealthyHasJob'
  BY <1>5 DEF RecordSuccess, Goto, Stop
<1>6. ASSUME NEW s \in Sessions, RecordDeactivation(s) PROVE UnhealthyHasJob'
  BY <1>6 DEF RecordDeactivation, MayDeactivate, NoFreezes, Goto, Stop
<1>7. ASSUME NEW s \in Sessions, RecordConvergence(s) PROVE UnhealthyHasJob'
  BY <1>7 DEF RecordConvergence, Stop
<1>8. ASSUME NEW s \in Sessions,
            \/ EnqueueWork(s) \/ ClaimWork(s) \/ LoadRepository(s)
            \/ ReadinessPasses(s) \/ SetupPost(s) \/ SyncPullRequests(s)
            \/ MarkActive(s) \/ Evaluate(s) \/ Fence(s) \/ Gate(s)
            \/ Send(s) \/ RecordVerification(s) \/ RecordUnverified(s)
            \/ ActivationUnset(s) \/ ActivationUnready(s)
      PROVE  UnhealthyHasJob'
  BY <1>8 DEF EnqueueWork, Goto, Stop, ClaimWork, TakeClaim, AfterClaim,
      LoadRepository, ReadinessPasses, SetupPost, SyncPullRequests,
      FailedStep, MarkActive, MarkedActive, Evaluate, ClaimLost, Fence,
      FencePasses, Gate, Send, Sent, RecordVerification, Fresh,
      RecordUnverified, ActivationUnset, ActivationUnready
<1>9. ASSUME NEW s \in Sessions,
            \/ (\E kind \in DOMAIN StartableIn : Start(s, kind))
            \/ (\E b \in Branches : CreateFreeze(s, b))
            \/ (\E b \in Branches : StartScheduled(s, b))
            \/ (\E b \in Branches : EndFreeze(s, b))
            \/ (\E b \in Branches : Relabel(s, b)) \/ Abandon(s)
      PROVE  UnhealthyHasJob'
  BY <1>9 DEF Start, StartAt, StartableIn, CreateFreeze, Froze, Frozen,
      StartScheduled, EndFreeze, Relabel, Abandon, Stop, Sent
<1>10. CASE
       \/ RunDue \/ (\E b \in Branches : Schedule(b)) \/ ChangeSetup
       \/ ReplaceWebhookSecret \/ LeaseRunsOut \/ RunAtReached
       \/ ForgeFails \/ ForgeRecovers
  BY <1>10 DEF RunDue, TakeClaim, Schedule, Counted, ChangeSetup,
      ReplaceWebhookSecret, LeaseRunsOut, RunAtReached, ForgeFails,
      ForgeRecovers
<1>11. CASE UNCHANGED vars
  BY <1>11 DEF vars
<1> QED BY <1>1, <1>2, <1>3, <1>4, <1>5, <1>6, <1>7, <1>8, <1>9, <1>10, <1>11
    DEF Next, Step, Request

LEMMA DiscardInvariant ==
  ASSUME Prompt PROVE Spec => []DiscardFits
<1>1. Init => DiscardFits
  BY DEF Init, DiscardFits
<1>2. Shape /\ Leased /\ DiscardFits /\ [Next]_vars => DiscardFits'
  BY DiscardStep
<1> QED BY <1>1, <1>2, ShapeInvariant, LeasedInvariant, PTL DEF Spec

(* An unhealthy repository always has durable work, unless a readiness     *)
(* check took it to unhealthy behind the back of a convergence.            *)
THEOREM UnhealthyIsRetried ==
  ASSUME Prompt, NoReadiness PROVE Spec => []UnhealthyHasJob
<1>1. Init => ConvergenceFits /\ UnhealthyHasJob
  BY StartAssumption
  DEF Init, ConvergenceFits, Publishing, UnhealthyHasJob, Exists, Enqueued, NoRow
<1>2. Shape /\ Leased /\ ConvergenceFits /\ [Next]_vars => ConvergenceFits'
  BY ConvergenceStep
<1>3. Shape /\ Leased /\ DiscardFits /\ ConvergenceFits /\ UnhealthyHasJob
      /\ [Next]_vars => UnhealthyHasJob'
  BY UnhealthyStep
<1> QED
  BY <1>1, <1>2, <1>3, ShapeInvariant, LeasedInvariant, DiscardInvariant, PTL DEF Spec
-----------------------------------------------------------------------------
(* Publication.  What was published under a claim that still owns the row  *)
(* is what the freezes of now ask for, since every change of a freeze      *)
(* advances the generation.                                                *)
(* The status that is sent is the one that was evaluated, for a head that  *)
(* was still to be done.                                                   *)
LEMMA SendEffect ==
  ASSUME Shape, NEW s \in Sessions, Send(s), forgeUp
  PROVE  /\ \A t \in Sessions \ {s} : pc'[t] = pc[t]
         /\ pc'[s] = "evaluate"
         /\ UNCHANGED <<op, claim, row, freeze>>
         /\ todo'[s] = todo[s] \ {seen[s][1]}
         /\ \A b \in Branches :
              posted'[b] = IF b = seen[s][1] THEN seen[s][2] ELSE posted[b]
<1>1. /\ pc' = [pc EXCEPT ![s] = "evaluate"]
      /\ todo' = [todo EXCEPT ![s] = todo[s] \ {seen[s][1]}]
      /\ UNCHANGED <<op, claim, row, freeze>>
      /\ posted' = [posted EXCEPT ![seen[s][1]] = seen[s][2]]
  BY DEF Send, Sent
<1>2. /\ pc \in [Sessions -> Steps] /\ todo \in [Sessions -> SUBSET Branches]
      /\ posted \in [Branches -> {"nothing", "thawed"} \cup Labels]
  BY DEF Shape, LocalTypes, SharedTypes
<1>3. \A b \in Branches :
        posted'[b] = IF b = seen[s][1] THEN seen[s][2] ELSE posted[b]
  BY <1>1, <1>2
<1> QED BY <1>1, <1>2, <1>3

(* A change of a freeze advances the generation, so a claim that still     *)
(* owns the row knows every change; and the heads are only posted by its   *)
(* session.                                                                *)
LEMMA PublicationStep ==
  ASSUME Prompt, Shape, Leased, PublicationFits, [Next]_vars
  PROVE  PublicationFits'
<1> USE DEF Shape, SharedTypes, LocalTypes, StepFits, ClaimFits, Unclaimed,
    Publishing, Holds, NoClaim, Claim, Row, Enforced, Labels, States, Exists,
    Enqueued, Ensured, Claimed, ClaimOn, Completed, Released, Rescheduled,
    Unlocked, Owns, Claimable, LeaseFree, NoRow, repo, forge, bounds, local,
    WorkFits, Chosen, Prompt, Leased, PublicationFits, OneBranch, Agrees,
    Policy, Frozen
<1>1. ASSUME NEW s \in Sessions, ClaimWork(s) PROVE PublicationFits'
  BY <1>1, FreshTokenIsFresh DEF ClaimWork, TakeClaim, AfterClaim, Stop
<1>2. ASSUME NEW s \in Sessions, SyncPullRequests(s) PROVE PublicationFits'
  BY <1>2 DEF SyncPullRequests, Goto, FailedStep
<1>3. ASSUME NEW s \in Sessions, MarkActive(s) PROVE PublicationFits'
  BY <1>3, FreshTokenIsFresh DEF MarkActive, MarkedActive, TakeClaim, Goto,
      Stop
<1>4. ASSUME NEW s \in Sessions, Evaluate(s) PROVE PublicationFits'
  BY <1>4 DEF Evaluate, ClaimLost, Goto, Stop
<1>5. ASSUME NEW s \in Sessions, Send(s) PROVE PublicationFits'
  <2>1. \A t \in Sessions \ {s} : ~Holds(t)
    BY <1>5 DEF Send
  <2>2. CASE forgeUp
    <3>1. PublicationFits'
      <4> SUFFICES ASSUME NEW t \in Sessions,
                          pc'[t] \in {"record"} \cup Publishing,
                          Owns(row, claim[t])'
                   PROVE  /\ pc'[t] \in Chosen => Agrees(seen[t][2], seen[t][1])'
                          /\ op[t]' # "converge" \/ OneBranch =>
                               \A b \in Branches \ todo'[t] : Agrees(posted[b], b)'
        BY DEF PublicationFits
      <4>1. t = s
        BY <1>5, <2>1, <2>2, SendEffect
      <4>2. /\ Owns(row, claim[s]) /\ pc'[s] = "evaluate" /\ op'[s] = op[s]
            /\ Agrees(seen[s][2], seen[s][1])
            /\ op[s] # "converge" \/ OneBranch =>
                 \A b \in Branches \ todo[s] : Agrees(posted[b], b)
        BY <1>5, <4>1, <2>2, SendEffect DEF Send
      <4>3. ASSUME NEW b \in Branches, b \notin todo'[s]
            PROVE  \/ b \notin todo[s] /\ posted'[b] = posted[b]
                   \/ b = seen[s][1] /\ posted'[b] = seen[s][2]
        BY <1>5, <2>2, <4>3, SendEffect
      <4> QED BY <1>5, <2>2, <4>1, <4>2, <4>3, SendEffect
    <3> QED BY <3>1
  <2>3. CASE ~forgeUp
    BY <1>5, <2>1, <2>3 DEF Send, Goto, FailedStep
  <2> QED BY <2>2, <2>3
<1>6. ASSUME NEW s \in Sessions,
            \/ EnqueueWork(s) \/ LoadRepository(s) \/ DiscardWork(s)
            \/ ReadinessPasses(s) \/ ReadinessFails(s) \/ SetupPost(s)
            \/ Fence(s) \/ Gate(s) \/ RecordVerification(s)
            \/ RecordUnverified(s) \/ ActivationUnset(s)
            \/ ActivationUnready(s) \/ RecordFailure(s) \/ ReleaseWork(s)
            \/ RecordSuccess(s) \/ RecordDeactivation(s)
            \/ RecordConvergence(s)
      PROVE  PublicationFits'
  BY <1>6 DEF EnqueueWork, Goto, Stop, LoadRepository, DiscardWork,
      ReadinessPasses, ReadinessFails, Fresh, SetupPost, Fence, FencePasses,
      ClaimLost, Gate, FailedStep, RecordVerification, RecordUnverified,
      ActivationUnset, ActivationUnready, RecordFailure, ReleaseWork,
      RecordSuccess, RecordDeactivation, MayDeactivate, NoFreezes,
      RecordConvergence
<1>7. ASSUME NEW s \in Sessions, \E b \in Branches : Relabel(s, b) PROVE
    PublicationFits'
  BY <1>7 DEF Relabel, Froze, StartAt, Frozen
<1>8. ASSUME NEW s \in Sessions, Abandon(s) PROVE PublicationFits'
  BY <1>8 DEF Abandon, Stop, Sent
<1>9. ASSUME NEW s \in Sessions,
            \/ (\E kind \in DOMAIN StartableIn : Start(s, kind))
            \/ (\E b \in Branches : CreateFreeze(s, b))
            \/ (\E b \in Branches : StartScheduled(s, b))
            \/ (\E b \in Branches : EndFreeze(s, b))
      PROVE  PublicationFits'
  BY <1>9 DEF Start, StartAt, StartableIn, CreateFreeze, Froze, Frozen,
      StartScheduled, EndFreeze
<1>10. CASE RunDue
  BY <1>10, FreshTokenIsFresh DEF RunDue, TakeClaim
<1>11. CASE \E b \in Branches : Schedule(b)
  BY <1>11 DEF Schedule, Counted
<1>12. CASE
       \/ ChangeSetup \/ ReplaceWebhookSecret \/ LeaseRunsOut
       \/ RunAtReached \/ ForgeFails \/ ForgeRecovers
  BY <1>12 DEF ChangeSetup, Counted, ReplaceWebhookSecret, LeaseRunsOut,
      RunAtReached, ForgeFails, ForgeRecovers
<1>13. CASE UNCHANGED vars
  BY <1>13 DEF vars
<1> QED BY <1>1, <1>2, <1>3, <1>4, <1>5, <1>6, <1>7, <1>8, <1>9, <1>10, <1>11,
    <1>12, <1>13 DEF Next, Step, Request

(* The job goes when its owner has no head left, and comes back with the   *)
(* next change of a freeze.                                                *)
LEMMA SettledStep ==
  ASSUME Prompt, OneBranch, Shape, Leased, DiscardFits, PublicationFits,
      SettledFits, [Next]_vars
  PROVE  SettledFits'
<1> USE DEF Shape, SharedTypes, LocalTypes, StepFits, ClaimFits, Unclaimed,
    Publishing, Holds, NoClaim, Claim, Row, Enforced, Labels, States, Exists,
    Enqueued, Ensured, Claimed, ClaimOn, Completed, Released, Rescheduled,
    Unlocked, Owns, Claimable, LeaseFree, NoRow, repo, forge, bounds, local,
    WorkFits, Chosen, Prompt, OneBranch, Leased, DiscardFits, PublicationFits,
    Agrees, Policy, Frozen, SettledFits
<1>1. ASSUME NEW s \in Sessions, DiscardWork(s) PROVE SettledFits'
  BY <1>1 DEF DiscardWork, Stop
<1>2. ASSUME NEW s \in Sessions, MarkActive(s) PROVE SettledFits'
  BY <1>2, FreshTokenIsFresh DEF MarkActive, MarkedActive, TakeClaim, Goto,
      Stop
<1>3. ASSUME NEW s \in Sessions, Send(s) PROVE SettledFits'
  BY <1>3 DEF Send, Goto, Sent, FailedStep
<1>4. ASSUME NEW s \in Sessions, ReleaseWork(s) PROVE SettledFits'
  BY <1>4 DEF ReleaseWork, Stop
<1>5. ASSUME NEW s \in Sessions, RecordSuccess(s) PROVE SettledFits'
  BY <1>5 DEF RecordSuccess, Goto, Stop
<1>6. ASSUME NEW s \in Sessions, RecordDeactivation(s) PROVE SettledFits'
  BY <1>6 DEF RecordDeactivation, MayDeactivate, NoFreezes, Goto, Stop
<1>7. ASSUME NEW s \in Sessions, RecordConvergence(s) PROVE SettledFits'
  BY <1>7 DEF RecordConvergence, Stop
<1>8. ASSUME NEW s \in Sessions,
            \/ EnqueueWork(s) \/ ClaimWork(s) \/ LoadRepository(s)
            \/ ReadinessPasses(s) \/ ReadinessFails(s) \/ SetupPost(s)
            \/ SyncPullRequests(s) \/ Evaluate(s) \/ Fence(s) \/ Gate(s)
            \/ RecordVerification(s) \/ RecordUnverified(s)
            \/ ActivationUnset(s) \/ ActivationUnready(s)
            \/ RecordFailure(s)
      PROVE  SettledFits'
  BY <1>8 DEF EnqueueWork, Goto, Stop, ClaimWork, TakeClaim, AfterClaim,
      LoadRepository, ReadinessPasses, ReadinessFails, Fresh, SetupPost,
      SyncPullRequests, FailedStep, Evaluate, ClaimLost, Fence, FencePasses,
      Gate, RecordVerification, RecordUnverified, ActivationUnset,
      ActivationUnready, RecordFailure
<1>9. ASSUME NEW s \in Sessions, \E b \in Branches : CreateFreeze(s, b) PROVE
    SettledFits'
  BY <1>9 DEF CreateFreeze, Froze, StartAt, Frozen
<1>10. ASSUME NEW s \in Sessions, \E b \in Branches : StartScheduled(s, b)
    PROVE SettledFits'
  BY <1>10 DEF StartScheduled, Froze, StartAt, Frozen
<1>11. ASSUME NEW s \in Sessions, \E b \in Branches : EndFreeze(s, b) PROVE
    SettledFits'
  BY <1>11 DEF EndFreeze, Froze, StartAt, Frozen
<1>12. ASSUME NEW s \in Sessions, \E b \in Branches : Relabel(s, b) PROVE
    SettledFits'
  BY <1>12 DEF Relabel, Froze, StartAt, Frozen
<1>13. ASSUME NEW s \in Sessions, Abandon(s) PROVE SettledFits'
  BY <1>13 DEF Abandon, Stop, Sent
<1>14. ASSUME NEW s \in Sessions,
            (\E kind \in DOMAIN StartableIn : Start(s, kind))
      PROVE  SettledFits'
  BY <1>14 DEF Start, StartAt, StartableIn
<1>15. CASE \E b \in Branches : Schedule(b)
  BY <1>15 DEF Schedule, Counted
<1>16. CASE
       \/ RunDue \/ ChangeSetup \/ ReplaceWebhookSecret
       \/ LeaseRunsOut \/ RunAtReached \/ ForgeFails
       \/ ForgeRecovers
  BY <1>16 DEF RunDue, TakeClaim, ChangeSetup, Counted, ReplaceWebhookSecret,
      LeaseRunsOut, RunAtReached, ForgeFails, ForgeRecovers
<1>17. CASE UNCHANGED vars
  BY <1>17 DEF vars
<1> QED BY <1>1, <1>2, <1>3, <1>4, <1>5, <1>6, <1>7, <1>8, <1>9, <1>10, <1>11,
    <1>12, <1>13, <1>14, <1>15, <1>16, <1>17 DEF Next, Step, Request

LEMMA PublicationInvariant ==
  ASSUME Prompt PROVE Spec => []PublicationFits
<1>1. Init => PublicationFits
  BY DEF Init, PublicationFits, Publishing
<1>2. Shape /\ Leased /\ PublicationFits /\ [Next]_vars => PublicationFits'
  BY PublicationStep
<1> QED BY <1>1, <1>2, ShapeInvariant, LeasedInvariant, PTL DEF Spec

LEMMA SettledInvariant ==
  ASSUME Prompt, OneBranch PROVE Spec => []SettledFits
<1>1. Init => SettledFits
  BY StartAssumption DEF Init, SettledFits, Agrees, Policy, Frozen, Labels
<1>2. Shape /\ Leased /\ DiscardFits /\ PublicationFits /\ SettledFits /\ [Next]_vars
      => SettledFits'
  BY SettledStep
<1> QED
  BY <1>1, <1>2, ShapeInvariant, LeasedInvariant, DiscardInvariant,
     PublicationInvariant, PTL DEF Spec

(* Once no work is left, the merge gate of a branch is what its freeze     *)
(* asks for.                                                               *)
THEOREM JoblessIsGated ==
  ASSUME Prompt, OneBranch PROVE Spec => []NoJobMeansGated
<1>1. SettledFits => NoJobMeansGated
  BY DEF SettledFits, NoJobMeansGated, Agrees, Policy, Frozen, Labels
<1> QED BY <1>1, SettledInvariant, PTL

(* The same for the whole status, label included, and with it: work is     *)
(* never lost between two requests.                                        *)
THEOREM WorkStaysKept ==
  ASSUME Prompt, OneBranch, NoReadiness, "relabel" \notin Kinds
  PROVE  Spec => []WorkIsKept
<1>1. SettledFits => NoJobMeansPublished
  BY DEF SettledFits, NoJobMeansPublished, Agrees
<1>2. TypeOK /\ NoJobMeansPublished /\ UnhealthyHasJob => WorkIsKept
  BY DEF WorkIsKept
<1> QED BY <1>1, <1>2, SettledInvariant, TypeCorrect, UnhealthyIsRetried, PTL
-----------------------------------------------------------------------------
(* Freezes and enforcement.                                                *)

(* Nothing ends enforcement while the one handler has work on the          *)
(* repository but that work itself.                                        *)
LEMMA EngagedStep ==
  ASSUME Prompt, OneHandler, Shape, Leased, DiscardFits, Apart, Engaged,
      [Next]_vars
  PROVE  Engaged'
<1> USE DEF Shape, SharedTypes, LocalTypes, StepFits, ClaimFits, Unclaimed,
    Publishing, Holds, NoClaim, Claim, Row, Enforced, Labels, States, Exists,
    LeaseFree, Claimable, repo, forge, bounds, local, Prompt, OneHandler,
    Sessions, AskedFor, SnapshotFits, Leased, DiscardFits, Apart, Engaged,
    Owns
<1>1. ASSUME NEW s \in Sessions, ClaimWork(s) PROVE Engaged'
  BY <1>1, FreshTokenIsFresh, SessionsAssumption DEF ClaimWork, TakeClaim, AfterClaim, Stop
<1>2. ASSUME NEW s \in Sessions, LoadRepository(s) PROVE Engaged'
  BY <1>2 DEF LoadRepository, Goto, Stop
<1>3. ASSUME NEW s \in Sessions, MarkActive(s) PROVE Engaged'
  BY <1>3, FreshTokenIsFresh, SessionsAssumption DEF MarkActive, MarkedActive, TakeClaim, Goto,
      Stop
<1>4. ASSUME NEW s \in Sessions, RecordVerification(s) PROVE Engaged'
  BY <1>4 DEF RecordVerification, Stop, Fresh
<1>5. ASSUME NEW s \in Sessions, RecordUnverified(s) PROVE Engaged'
  BY <1>5 DEF RecordUnverified, Stop, Fresh
<1>6. ASSUME NEW s \in Sessions, ActivationUnset(s) PROVE Engaged'
  BY <1>6 DEF ActivationUnset, Stop
<1>7. ASSUME NEW s \in Sessions, ActivationUnready(s) PROVE Engaged'
  BY <1>7 DEF ActivationUnready, Stop
<1>8. ASSUME NEW s \in Sessions, RecordDeactivation(s) PROVE Engaged'
  BY <1>8 DEF RecordDeactivation, MayDeactivate, NoFreezes, Goto, Stop
<1>9. ASSUME NEW s \in Sessions,
            \/ EnqueueWork(s) \/ DiscardWork(s) \/ ReadinessPasses(s)
            \/ ReadinessFails(s) \/ SetupPost(s) \/ SyncPullRequests(s)
            \/ Evaluate(s) \/ Fence(s) \/ Gate(s) \/ Send(s)
            \/ RecordFailure(s) \/ ReleaseWork(s) \/ RecordSuccess(s)
            \/ RecordConvergence(s)
      PROVE  Engaged'
  BY <1>9 DEF EnqueueWork, Goto, Stop, DiscardWork, ReadinessPasses,
      ReadinessFails, Fresh, SetupPost, SyncPullRequests, FailedStep,
      Evaluate, ClaimLost, Fence, FencePasses, Gate, Send, Sent,
      RecordFailure, ReleaseWork, RecordSuccess, RecordConvergence
<1>10. ASSUME NEW s \in Sessions, \E kind \in DOMAIN StartableIn : Start(s,
    kind) PROVE Engaged'
  BY <1>10 DEF Start, StartAt, StartableIn
<1>11. ASSUME NEW s \in Sessions, \E b \in Branches : CreateFreeze(s, b) PROVE
    Engaged'
  BY <1>11 DEF CreateFreeze, Froze, StartAt, Frozen
<1>12. ASSUME NEW s \in Sessions, \E b \in Branches : StartScheduled(s, b)
    PROVE Engaged'
  BY <1>12 DEF StartScheduled, Froze, StartAt, Frozen
<1>13. ASSUME NEW s \in Sessions, \E b \in Branches : EndFreeze(s, b) PROVE
    Engaged'
  BY <1>13 DEF EndFreeze, Froze, StartAt, Frozen
<1>14. ASSUME NEW s \in Sessions, \E b \in Branches : Relabel(s, b) PROVE
    Engaged'
  BY <1>14 DEF Relabel, Froze, StartAt, Frozen
<1>15. ASSUME NEW s \in Sessions,
            Abandon(s)
      PROVE  Engaged'
  BY <1>15 DEF Abandon, Stop, Sent
<1>16. CASE
       \/ RunDue \/ (\E b \in Branches : Schedule(b)) \/ ChangeSetup
       \/ ReplaceWebhookSecret \/ LeaseRunsOut \/ RunAtReached
       \/ ForgeFails \/ ForgeRecovers
  BY <1>16 DEF RunDue, TakeClaim, Schedule, Counted, ChangeSetup,
      ReplaceWebhookSecret, LeaseRunsOut, RunAtReached, ForgeFails,
      ForgeRecovers
<1>17. CASE UNCHANGED vars
  BY <1>17 DEF vars
<1> QED BY <1>1, <1>2, <1>3, <1>4, <1>5, <1>6, <1>7, <1>8, <1>9, <1>10, <1>11,
    <1>12, <1>13, <1>14, <1>15, <1>16, <1>17 DEF Next, Step, Request

(* An activation that is under way waits on an idle repository, which      *)
(* nobody else can make active meanwhile.                                  *)
LEMMA ApartStep ==
  ASSUME Prompt, OneHandler, Shape, Leased, Apart, Engaged, [Next]_vars
  PROVE  Apart'
<1> USE DEF Shape, SharedTypes, LocalTypes, StepFits, ClaimFits, Unclaimed,
    Publishing, Holds, NoClaim, Claim, Row, Enforced, Labels, States,
    LeaseFree, Claimable, repo, forge, bounds, local, Prompt, OneHandler,
    Sessions, AskedFor, SnapshotFits, Leased, Apart, Engaged
<1>1. ASSUME NEW s \in Sessions, ReadinessFails(s) PROVE Apart'
  BY <1>1 DEF ReadinessFails, Goto, Stop, Fresh
<1>2. ASSUME NEW s \in Sessions, MarkActive(s) PROVE Apart'
  <2>1. CASE op[s] = "recover"
    <3>1. Enforced
      BY <1>2, <2>1 DEF MarkActive
    <3>2. \A t \in Sessions : op[t] = "activate" => Holds(t)
      BY <3>1
    <3>3. op' = op /\ claim' = claim
      BY <1>2, <2>1 DEF MarkActive, Goto
    <3> QED BY <3>2, <3>3
  <2>2. CASE op[s] = "activate" /\ LeaseFree(row)
    <3>1. claim'[s].token # 0 /\ op' = op
      BY <1>2, <2>2, FreshTokenIsFresh
      DEF MarkActive, TakeClaim, ClaimOn, Claimed
    <3>2. \A t \in Sessions : op[t] = "activate" => t = s
      BY <2>2
    <3> QED BY <3>1, <3>2
  <2>3. CASE op[s] = "activate" /\ ~LeaseFree(row)
    BY <1>2, <2>3 DEF MarkActive, Stop
  <2> QED BY <1>2, <2>1, <2>2, <2>3 DEF MarkActive
<1>3. ASSUME NEW s \in Sessions, RecordFailure(s) PROVE Apart'
  BY <1>3 DEF RecordFailure, Goto
<1>4. ASSUME NEW s \in Sessions,
            \/ EnqueueWork(s) \/ ClaimWork(s) \/ LoadRepository(s)
            \/ DiscardWork(s) \/ ReadinessPasses(s) \/ SetupPost(s)
            \/ SyncPullRequests(s) \/ Evaluate(s) \/ Fence(s) \/ Gate(s)
            \/ Send(s) \/ RecordVerification(s) \/ RecordUnverified(s)
            \/ ActivationUnset(s) \/ ActivationUnready(s)
            \/ ReleaseWork(s) \/ RecordSuccess(s)
            \/ RecordDeactivation(s) \/ RecordConvergence(s)
      PROVE  Apart'
  BY <1>4 DEF EnqueueWork, Goto, Stop, ClaimWork, TakeClaim, AfterClaim,
      LoadRepository, DiscardWork, ReadinessPasses, SetupPost,
      SyncPullRequests, FailedStep, Evaluate, ClaimLost, Fence, FencePasses,
      Gate, Send, Sent, RecordVerification, Fresh, RecordUnverified,
      ActivationUnset, ActivationUnready, ReleaseWork, RecordSuccess,
      RecordDeactivation, MayDeactivate, NoFreezes, RecordConvergence
<1>5. ASSUME NEW s \in Sessions, \E kind \in DOMAIN StartableIn : Start(s,
    kind) PROVE Apart'
  BY <1>5 DEF Start, StartAt, StartableIn
<1>6. ASSUME NEW s \in Sessions,
            \/ (\E b \in Branches : CreateFreeze(s, b))
            \/ (\E b \in Branches : StartScheduled(s, b))
            \/ (\E b \in Branches : EndFreeze(s, b))
            \/ (\E b \in Branches : Relabel(s, b)) \/ Abandon(s)
      PROVE  Apart'
  BY <1>6 DEF CreateFreeze, Froze, StartAt, Frozen, StartScheduled, EndFreeze,
      Relabel, Abandon, Stop, Sent
<1>7. CASE
       \/ RunDue \/ (\E b \in Branches : Schedule(b)) \/ ChangeSetup
       \/ ReplaceWebhookSecret \/ LeaseRunsOut \/ RunAtReached
       \/ ForgeFails \/ ForgeRecovers
  BY <1>7 DEF RunDue, TakeClaim, Schedule, Counted, ChangeSetup,
      ReplaceWebhookSecret, LeaseRunsOut, RunAtReached, ForgeFails,
      ForgeRecovers
<1>8. CASE UNCHANGED vars
  BY <1>8 DEF vars
<1> QED BY <1>1, <1>2, <1>3, <1>4, <1>5, <1>6, <1>7, <1>8 DEF Next, Step,
    Request

(* Leaving enforcement needs a repository without freezes, except where an *)
(* activation fails; freezing needs an active one.                         *)
LEMMA FreezesStep ==
  ASSUME Shape, FreezesAreEnforced, ~ActivationFails, [Next]_vars
  PROVE  FreezesAreEnforced'
<1> USE DEF Shape, SharedTypes, LocalTypes, StepFits, ClaimFits, Unclaimed,
    Publishing, Holds, NoClaim, Claim, Row, Enforced, Labels, States, repo,
    forge, bounds, local, SnapshotFits, ActivationFails, FreezesAreEnforced,
    NoFreezes
<1>1. ASSUME NEW s \in Sessions, RecordVerification(s) PROVE
    FreezesAreEnforced'
  BY <1>1 DEF RecordVerification, Stop, Fresh
<1>2. ASSUME NEW s \in Sessions, RecordUnverified(s) PROVE FreezesAreEnforced'
  BY <1>2 DEF RecordUnverified, Stop, Fresh
<1>3. ASSUME NEW s \in Sessions, ActivationUnset(s) PROVE FreezesAreEnforced'
  BY <1>3 DEF ActivationUnset, Stop
<1>4. ASSUME NEW s \in Sessions, ActivationUnready(s) PROVE
    FreezesAreEnforced'
  BY <1>4 DEF ActivationUnready, Stop
<1>5. ASSUME NEW s \in Sessions, RecordDeactivation(s) PROVE
    FreezesAreEnforced'
  BY <1>5 DEF RecordDeactivation, MayDeactivate, NoFreezes, Goto, Stop
<1>6. ASSUME NEW s \in Sessions,
            \/ EnqueueWork(s) \/ ClaimWork(s) \/ LoadRepository(s)
            \/ DiscardWork(s) \/ ReadinessPasses(s) \/ ReadinessFails(s)
            \/ SetupPost(s) \/ SyncPullRequests(s) \/ MarkActive(s)
            \/ Evaluate(s) \/ Fence(s) \/ Gate(s) \/ Send(s)
            \/ RecordFailure(s) \/ ReleaseWork(s) \/ RecordSuccess(s)
            \/ RecordConvergence(s)
      PROVE  FreezesAreEnforced'
  BY <1>6 DEF EnqueueWork, Goto, Stop, ClaimWork, TakeClaim, AfterClaim,
      LoadRepository, DiscardWork, ReadinessPasses, ReadinessFails, Fresh,
      SetupPost, SyncPullRequests, FailedStep, MarkActive, MarkedActive,
      Evaluate, ClaimLost, Fence, FencePasses, Gate, Send, Sent,
      RecordFailure, ReleaseWork, RecordSuccess, RecordConvergence
<1>7. ASSUME NEW s \in Sessions, \E b \in Branches : CreateFreeze(s, b) PROVE
    FreezesAreEnforced'
  BY <1>7 DEF CreateFreeze, Froze, StartAt, Frozen
<1>8. ASSUME NEW s \in Sessions, \E b \in Branches : StartScheduled(s, b)
    PROVE FreezesAreEnforced'
  BY <1>8 DEF StartScheduled, Froze, StartAt, Frozen
<1>9. ASSUME NEW s \in Sessions, \E b \in Branches : EndFreeze(s, b) PROVE
    FreezesAreEnforced'
  BY <1>9 DEF EndFreeze, Froze, StartAt, Frozen
<1>10. ASSUME NEW s \in Sessions, \E b \in Branches : Relabel(s, b) PROVE
    FreezesAreEnforced'
  BY <1>10 DEF Relabel, Froze, StartAt, Frozen
<1>11. ASSUME NEW s \in Sessions,
            \/ (\E kind \in DOMAIN StartableIn : Start(s, kind))
            \/ Abandon(s)
      PROVE  FreezesAreEnforced'
  BY <1>11 DEF Start, StartAt, StartableIn, Abandon, Stop, Sent
<1>12. CASE \E b \in Branches : Schedule(b)
  BY <1>12 DEF Schedule, Counted
<1>13. CASE
       \/ RunDue \/ ChangeSetup \/ ReplaceWebhookSecret
       \/ LeaseRunsOut \/ RunAtReached \/ ForgeFails
       \/ ForgeRecovers
  BY <1>13 DEF RunDue, TakeClaim, ChangeSetup, Counted, ReplaceWebhookSecret,
      LeaseRunsOut, RunAtReached, ForgeFails, ForgeRecovers
<1>14. CASE UNCHANGED vars
  BY <1>14 DEF vars
<1> QED BY <1>1, <1>2, <1>3, <1>4, <1>5, <1>6, <1>7, <1>8, <1>9, <1>10, <1>11,
    <1>12, <1>13, <1>14 DEF Next, Step, Request

(* Publish has read an active state; only the holder of the lease could    *)
(* end enforcement after that.                                             *)
LEMMA SendingStep ==
  ASSUME Prompt, Shape, Leased, Apart, SendingFits, [Next]_vars
  PROVE  SendingFits'
<1> USE DEF Shape, SharedTypes, LocalTypes, StepFits, ClaimFits, Unclaimed,
    Publishing, Holds, NoClaim, Claim, Row, Enforced, Labels, States, repo,
    forge, bounds, local, Prompt, SnapshotFits, Leased, Apart, SendingFits,
    Owns, Exists
<1>1. ASSUME NEW s \in Sessions, Gate(s) PROVE SendingFits'
  BY <1>1 DEF Gate, Goto, FailedStep
<1>2. ASSUME NEW s \in Sessions, ActivationUnset(s) PROVE SendingFits'
  BY <1>2 DEF ActivationUnset, Stop
<1>3. ASSUME NEW s \in Sessions, ActivationUnready(s) PROVE SendingFits'
  BY <1>3 DEF ActivationUnready, Stop
<1>4. ASSUME NEW s \in Sessions, RecordDeactivation(s) PROVE SendingFits'
  BY <1>4 DEF RecordDeactivation, MayDeactivate, NoFreezes, Goto, Stop
<1>5. ASSUME NEW s \in Sessions,
            \/ EnqueueWork(s) \/ ClaimWork(s) \/ LoadRepository(s)
            \/ DiscardWork(s) \/ ReadinessPasses(s) \/ ReadinessFails(s)
            \/ SetupPost(s) \/ SyncPullRequests(s) \/ MarkActive(s)
            \/ Evaluate(s) \/ Fence(s) \/ Send(s)
            \/ RecordVerification(s) \/ RecordUnverified(s)
            \/ RecordFailure(s) \/ ReleaseWork(s) \/ RecordSuccess(s)
            \/ RecordConvergence(s)
      PROVE  SendingFits'
  BY <1>5 DEF EnqueueWork, Goto, Stop, ClaimWork, TakeClaim, AfterClaim,
      LoadRepository, DiscardWork, ReadinessPasses, ReadinessFails, Fresh,
      SetupPost, SyncPullRequests, FailedStep, MarkActive, MarkedActive,
      Evaluate, ClaimLost, Fence, FencePasses, Send, Sent, RecordVerification,
      RecordUnverified, RecordFailure, ReleaseWork, RecordSuccess,
      RecordConvergence
<1>6. ASSUME NEW s \in Sessions,
            \/ (\E kind \in DOMAIN StartableIn : Start(s, kind))
            \/ (\E b \in Branches : CreateFreeze(s, b))
            \/ (\E b \in Branches : StartScheduled(s, b))
            \/ (\E b \in Branches : EndFreeze(s, b))
            \/ (\E b \in Branches : Relabel(s, b)) \/ Abandon(s)
      PROVE  SendingFits'
  BY <1>6 DEF Start, StartAt, StartableIn, CreateFreeze, Froze, Frozen,
      StartScheduled, EndFreeze, Relabel, Abandon, Stop, Sent
<1>7. CASE
       \/ RunDue \/ (\E b \in Branches : Schedule(b)) \/ ChangeSetup
       \/ ReplaceWebhookSecret \/ LeaseRunsOut \/ RunAtReached
       \/ ForgeFails \/ ForgeRecovers
  BY <1>7 DEF RunDue, TakeClaim, Schedule, Counted, ChangeSetup,
      ReplaceWebhookSecret, LeaseRunsOut, RunAtReached, ForgeFails,
      ForgeRecovers
<1>8. CASE UNCHANGED vars
  BY <1>8 DEF vars
<1> QED BY <1>1, <1>2, <1>3, <1>4, <1>5, <1>6, <1>7, <1>8 DEF Next, Step,
    Request

(* A deactivation owns the row and has no head left, so that every status  *)
(* says thawed, as all freezes do.                                         *)
LEMMA ThawedStep ==
  ASSUME Prompt, Shape, Leased, Apart, SendingFits, PublicationFits,
      UnenforcedIsThawed, [Next]_vars
  PROVE  UnenforcedIsThawed'
<1> USE DEF Shape, SharedTypes, LocalTypes, StepFits, ClaimFits, Unclaimed,
    Publishing, Holds, NoClaim, Claim, Row, Enforced, Labels, States, Exists,
    Enqueued, Ensured, Claimed, ClaimOn, Completed, Released, Rescheduled,
    Unlocked, Owns, Claimable, LeaseFree, NoRow, repo, forge, bounds, local,
    WorkFits, Prompt, SnapshotFits, Leased, Apart, SendingFits,
    PublicationFits, UnenforcedIsThawed, Agrees, Policy, Frozen
<1>1. ASSUME NEW s \in Sessions, Send(s) PROVE UnenforcedIsThawed'
  BY <1>1 DEF Send, Goto, Sent, FailedStep
<1>2. ASSUME NEW s \in Sessions, ActivationUnready(s) PROVE
    UnenforcedIsThawed'
  BY <1>2 DEF ActivationUnready, Stop
<1>3. ASSUME NEW s \in Sessions, RecordDeactivation(s) PROVE
    UnenforcedIsThawed'
  BY <1>3 DEF RecordDeactivation, MayDeactivate, NoFreezes, Goto, Stop
<1>4. ASSUME NEW s \in Sessions,
            \/ EnqueueWork(s) \/ ClaimWork(s) \/ LoadRepository(s)
            \/ DiscardWork(s) \/ ReadinessPasses(s) \/ ReadinessFails(s)
            \/ SetupPost(s) \/ SyncPullRequests(s) \/ MarkActive(s)
            \/ Evaluate(s) \/ Fence(s) \/ Gate(s)
            \/ RecordVerification(s) \/ RecordUnverified(s)
            \/ ActivationUnset(s) \/ RecordFailure(s) \/ ReleaseWork(s)
            \/ RecordSuccess(s) \/ RecordConvergence(s)
      PROVE  UnenforcedIsThawed'
  BY <1>4 DEF EnqueueWork, Goto, Stop, ClaimWork, TakeClaim, AfterClaim,
      LoadRepository, DiscardWork, ReadinessPasses, ReadinessFails, Fresh,
      SetupPost, SyncPullRequests, FailedStep, MarkActive, MarkedActive,
      Evaluate, ClaimLost, Fence, FencePasses, Gate, RecordVerification,
      RecordUnverified, ActivationUnset, RecordFailure, ReleaseWork,
      RecordSuccess, RecordConvergence
<1>5. ASSUME NEW s \in Sessions, Abandon(s) PROVE UnenforcedIsThawed'
  BY <1>5 DEF Abandon, Stop, Sent
<1>6. ASSUME NEW s \in Sessions,
            \/ (\E kind \in DOMAIN StartableIn : Start(s, kind))
            \/ (\E b \in Branches : CreateFreeze(s, b))
            \/ (\E b \in Branches : StartScheduled(s, b))
            \/ (\E b \in Branches : EndFreeze(s, b))
            \/ (\E b \in Branches : Relabel(s, b))
      PROVE  UnenforcedIsThawed'
  BY <1>6 DEF Start, StartAt, StartableIn, CreateFreeze, Froze, Frozen,
      StartScheduled, EndFreeze, Relabel
<1>7. CASE
       \/ RunDue \/ (\E b \in Branches : Schedule(b)) \/ ChangeSetup
       \/ ReplaceWebhookSecret \/ LeaseRunsOut \/ RunAtReached
       \/ ForgeFails \/ ForgeRecovers
  BY <1>7 DEF RunDue, TakeClaim, Schedule, Counted, ChangeSetup,
      ReplaceWebhookSecret, LeaseRunsOut, RunAtReached, ForgeFails,
      ForgeRecovers
<1>8. CASE UNCHANGED vars
  BY <1>8 DEF vars
<1> QED BY <1>1, <1>2, <1>3, <1>4, <1>5, <1>6, <1>7, <1>8 DEF Next, Step,
    Request

(* Only a session at its send step, or one cut short there, posts.         *)
LEMMA SenderStep ==
  ASSUME [Next]_vars
  PROVE  PostsAsSender
<1> USE DEF repo, forge, bounds, local, vars, PostsAsSender
<1>1. ASSUME NEW s \in Sessions, Send(s) PROVE PostsAsSender
  BY <1>1 DEF Send, Goto, Sent, FailedStep
<1>2. ASSUME NEW s \in Sessions,
            \/ EnqueueWork(s) \/ ClaimWork(s) \/ LoadRepository(s)
            \/ DiscardWork(s) \/ ReadinessPasses(s) \/ ReadinessFails(s)
            \/ SetupPost(s) \/ SyncPullRequests(s) \/ MarkActive(s)
            \/ Evaluate(s) \/ Fence(s) \/ Gate(s)
            \/ RecordVerification(s) \/ RecordUnverified(s)
            \/ ActivationUnset(s) \/ ActivationUnready(s)
            \/ RecordFailure(s) \/ ReleaseWork(s) \/ RecordSuccess(s)
            \/ RecordDeactivation(s) \/ RecordConvergence(s)
      PROVE  PostsAsSender
  BY <1>2 DEF EnqueueWork, Goto, Stop, ClaimWork, TakeClaim, AfterClaim,
      LoadRepository, DiscardWork, ReadinessPasses, ReadinessFails, Fresh,
      SetupPost, SyncPullRequests, FailedStep, MarkActive, MarkedActive,
      Evaluate, ClaimLost, Fence, FencePasses, Gate, RecordVerification,
      RecordUnverified, ActivationUnset, ActivationUnready, RecordFailure,
      ReleaseWork, RecordSuccess, RecordDeactivation, MayDeactivate,
      NoFreezes, RecordConvergence
<1>3. ASSUME NEW s \in Sessions, Abandon(s) PROVE PostsAsSender
  BY <1>3 DEF Abandon, Stop, Sent
<1>4. ASSUME NEW s \in Sessions,
            \/ (\E kind \in DOMAIN StartableIn : Start(s, kind))
            \/ (\E b \in Branches : CreateFreeze(s, b))
            \/ (\E b \in Branches : StartScheduled(s, b))
            \/ (\E b \in Branches : EndFreeze(s, b))
            \/ (\E b \in Branches : Relabel(s, b))
      PROVE  PostsAsSender
  BY <1>4 DEF Start, StartAt, StartableIn, CreateFreeze, Froze, Frozen,
      StartScheduled, EndFreeze, Relabel
<1>5. CASE
       \/ RunDue \/ (\E b \in Branches : Schedule(b)) \/ ChangeSetup
       \/ ReplaceWebhookSecret \/ LeaseRunsOut \/ RunAtReached
       \/ ForgeFails \/ ForgeRecovers
  BY <1>5 DEF RunDue, TakeClaim, Schedule, Counted, ChangeSetup,
      ReplaceWebhookSecret, LeaseRunsOut, RunAtReached, ForgeFails,
      ForgeRecovers
<1>6. CASE UNCHANGED vars
  BY <1>6 DEF vars
<1> QED BY <1>1, <1>2, <1>3, <1>4, <1>5, <1>6 DEF Next, Step, Request

(* A verification that records has a fresh snapshot, and the setup did not *)
(* change since its readiness check.                                       *)
LEMMA EvidenceStep ==
  ASSUME Shape, [Next]_vars
  PROVE  RecordsOnEvidence
<1> USE DEF Shape, SharedTypes, LocalTypes, StepFits, ClaimFits, Unclaimed,
    Publishing, Holds, NoClaim, Claim, Row, Enforced, Labels, States, repo,
    forge, bounds, local, SnapshotFits, Moves, RecordsOnEvidence
<1>1. ASSUME NEW s \in Sessions, RecordVerification(s) PROVE RecordsOnEvidence
  BY <1>1 DEF RecordVerification, Stop, Fresh
<1>2. ASSUME NEW s \in Sessions, ActivationUnready(s) PROVE RecordsOnEvidence
  BY <1>2 DEF ActivationUnready, Stop
<1>3. ASSUME NEW s \in Sessions, RecordDeactivation(s) PROVE RecordsOnEvidence
  BY <1>3 DEF RecordDeactivation, MayDeactivate, NoFreezes, Goto, Stop
<1>4. ASSUME NEW s \in Sessions,
            \/ EnqueueWork(s) \/ ClaimWork(s) \/ LoadRepository(s)
            \/ DiscardWork(s) \/ ReadinessPasses(s) \/ ReadinessFails(s)
            \/ SetupPost(s) \/ SyncPullRequests(s) \/ MarkActive(s)
            \/ Evaluate(s) \/ Fence(s) \/ Gate(s) \/ Send(s)
            \/ RecordUnverified(s) \/ ActivationUnset(s)
            \/ RecordFailure(s) \/ ReleaseWork(s) \/ RecordSuccess(s)
            \/ RecordConvergence(s)
      PROVE  RecordsOnEvidence
  BY <1>4 DEF EnqueueWork, Goto, Stop, ClaimWork, TakeClaim, AfterClaim,
      LoadRepository, DiscardWork, ReadinessPasses, ReadinessFails, Fresh,
      SetupPost, SyncPullRequests, FailedStep, MarkActive, MarkedActive,
      Evaluate, ClaimLost, Fence, FencePasses, Gate, Send, Sent,
      RecordUnverified, ActivationUnset, RecordFailure, ReleaseWork,
      RecordSuccess, RecordConvergence
<1>5. ASSUME NEW s \in Sessions,
            \/ (\E kind \in DOMAIN StartableIn : Start(s, kind))
            \/ (\E b \in Branches : CreateFreeze(s, b))
            \/ (\E b \in Branches : StartScheduled(s, b))
            \/ (\E b \in Branches : EndFreeze(s, b))
            \/ (\E b \in Branches : Relabel(s, b)) \/ Abandon(s)
      PROVE  RecordsOnEvidence
  BY <1>5 DEF Start, StartAt, StartableIn, CreateFreeze, Froze, Frozen,
      StartScheduled, EndFreeze, Relabel, Abandon, Stop, Sent
<1>6. CASE
       \/ RunDue \/ (\E b \in Branches : Schedule(b)) \/ ChangeSetup
       \/ ReplaceWebhookSecret \/ LeaseRunsOut \/ RunAtReached
       \/ ForgeFails \/ ForgeRecovers
  BY <1>6 DEF RunDue, TakeClaim, Schedule, Counted, ChangeSetup,
      ReplaceWebhookSecret, LeaseRunsOut, RunAtReached, ForgeFails,
      ForgeRecovers
<1>7. CASE UNCHANGED vars
  BY <1>7 DEF vars
<1> QED BY <1>1, <1>2, <1>3, <1>4, <1>5, <1>6, <1>7 DEF Next, Step, Request

(* The other writers of the state find it idle, or find their snapshot     *)
(* stale.                                                                  *)
LEMMA EndingStep ==
  ASSUME Shape, Apart, [Next]_vars
  PROVE  EndsExplicitly
<1> USE DEF Shape, SharedTypes, LocalTypes, StepFits, ClaimFits, Unclaimed,
    Publishing, Holds, NoClaim, Claim, Row, Enforced, Labels, States, repo,
    forge, bounds, local, SnapshotFits, Apart, Moves, EndsExplicitly
<1>1. ASSUME NEW s \in Sessions, RecordVerification(s) PROVE EndsExplicitly
  BY <1>1 DEF RecordVerification, Stop, Fresh
<1>2. ASSUME NEW s \in Sessions, RecordUnverified(s) PROVE EndsExplicitly
  BY <1>2 DEF RecordUnverified, Stop, Fresh
<1>3. ASSUME NEW s \in Sessions, ActivationUnset(s) PROVE EndsExplicitly
  BY <1>3 DEF ActivationUnset, Stop
<1>4. ASSUME NEW s \in Sessions, ActivationUnready(s) PROVE EndsExplicitly
  BY <1>4 DEF ActivationUnready, Stop
<1>5. ASSUME NEW s \in Sessions, RecordDeactivation(s) PROVE EndsExplicitly
  BY <1>5 DEF RecordDeactivation, MayDeactivate, NoFreezes, Goto, Stop
<1>6. ASSUME NEW s \in Sessions,
            \/ EnqueueWork(s) \/ ClaimWork(s) \/ LoadRepository(s)
            \/ DiscardWork(s) \/ ReadinessPasses(s) \/ ReadinessFails(s)
            \/ SetupPost(s) \/ SyncPullRequests(s) \/ MarkActive(s)
            \/ Evaluate(s) \/ Fence(s) \/ Gate(s) \/ Send(s)
            \/ RecordFailure(s) \/ ReleaseWork(s) \/ RecordSuccess(s)
            \/ RecordConvergence(s)
      PROVE  EndsExplicitly
  BY <1>6 DEF EnqueueWork, Goto, Stop, ClaimWork, TakeClaim, AfterClaim,
      LoadRepository, DiscardWork, ReadinessPasses, ReadinessFails, Fresh,
      SetupPost, SyncPullRequests, FailedStep, MarkActive, MarkedActive,
      Evaluate, ClaimLost, Fence, FencePasses, Gate, Send, Sent,
      RecordFailure, ReleaseWork, RecordSuccess, RecordConvergence
<1>7. ASSUME NEW s \in Sessions,
            \/ (\E kind \in DOMAIN StartableIn : Start(s, kind))
            \/ (\E b \in Branches : CreateFreeze(s, b))
            \/ (\E b \in Branches : StartScheduled(s, b))
            \/ (\E b \in Branches : EndFreeze(s, b))
            \/ (\E b \in Branches : Relabel(s, b)) \/ Abandon(s)
      PROVE  EndsExplicitly
  BY <1>7 DEF Start, StartAt, StartableIn, CreateFreeze, Froze, Frozen,
      StartScheduled, EndFreeze, Relabel, Abandon, Stop, Sent
<1>8. CASE
       \/ RunDue \/ (\E b \in Branches : Schedule(b)) \/ ChangeSetup
       \/ ReplaceWebhookSecret \/ LeaseRunsOut \/ RunAtReached
       \/ ForgeFails \/ ForgeRecovers
  BY <1>8 DEF RunDue, TakeClaim, Schedule, Counted, ChangeSetup,
      ReplaceWebhookSecret, LeaseRunsOut, RunAtReached, ForgeFails,
      ForgeRecovers
<1>9. CASE UNCHANGED vars
  BY <1>9 DEF vars
<1> QED BY <1>1, <1>2, <1>3, <1>4, <1>5, <1>6, <1>7, <1>8, <1>9 DEF Next,
    Step, Request

(* Where activations wait for the claim, nothing else is at work: because  *)
(* nobody activates, or because one handler does one thing at a time.      *)
LEMMA ApartInvariant ==
  ASSUME NoActivations \/ (Prompt /\ OneHandler) PROVE Spec => []Apart
<1>1. CASE NoActivations
  <2>1. Shape => Apart
    BY <1>1 DEF Shape, AskedFor, Apart, NoActivations
  <2> QED BY <2>1, ShapeInvariant, PTL
<1>2. CASE Prompt /\ OneHandler
  <2>1. Init => Apart /\ Engaged
    BY DEF Init, Apart, Engaged, Holds, NoClaim
  <2>2. Shape /\ Leased /\ DiscardFits /\ Apart /\ Engaged /\ [Next]_vars => Engaged'
    BY <1>2, EngagedStep
  <2>3. Shape /\ Leased /\ Apart /\ Engaged /\ [Next]_vars => Apart'
    BY <1>2, ApartStep
  <2>4. Prompt
    BY <1>2
  <2>5. Spec => []Leased
    BY <2>4, LeasedInvariant
  <2>6. Spec => []DiscardFits
    BY <2>4, DiscardInvariant
  <2> QED BY <2>1, <2>2, <2>3, <2>5, <2>6, ShapeInvariant, PTL DEF Spec
<1> QED BY <1>1, <1>2

(* Nothing but a failed activation that lost a race leaves a freeze on a   *)
(* repository that is not enforced, whatever is asked for, however often,  *)
(* and however slow the sessions are.                                      *)
THEOREM OnlyActivationsLoseFreezes ==
  Spec => [][FreezesLostToActivation]_vars
<1>1. Shape /\ [Next]_vars => FreezesLostToActivation
  BY FreezesStep DEF FreezesLostToActivation
<1> QED BY <1>1, ShapeInvariant, PTL DEF Spec

(* A freeze never outlives enforcement.  Deactivation and creation cannot  *)
(* pass each other, however long they take: only a failed activation could *)
(* end enforcement under a freeze, and none waits while a repository is    *)
(* enforced.                                                               *)
THEOREM FreezesStayEnforced ==
  ASSUME NoActivations \/ (Prompt /\ OneHandler)
  PROVE  Spec => []FreezesAreEnforced
<1>1. Init => FreezesAreEnforced
  BY DEF Init, FreezesAreEnforced, NoFreezes
<1>2. ASSUME Shape, Apart, FreezesAreEnforced, ActivationFails
      PROVE  FreezesAreEnforced'
  <2>1. PICK s \in Sessions : pc[s] \in {"unset", "unready"} /\ freeze' = freeze
    BY <1>2 DEF ActivationFails, ActivationUnset, ActivationUnready
  <2>2. op[s] = "activate" /\ ~Holds(s)
    BY <1>2, <2>1
    DEF Shape, LocalTypes, StepFits, Publishing, ClaimFits, Unclaimed, Holds, NoClaim
  <2>3. NoFreezes
    BY <1>2, <2>2 DEF Apart, Enforced, FreezesAreEnforced
  <2> QED BY <2>1, <2>3 DEF FreezesAreEnforced, NoFreezes
<1>3. Shape /\ Apart /\ FreezesAreEnforced /\ [Next]_vars => FreezesAreEnforced'
  BY <1>2, FreezesStep
<1> QED BY <1>1, <1>3, ShapeInvariant, ApartInvariant, PTL DEF Spec

(* Freezes and enforcement agree across a deactivation, whatever it races  *)
(* with: no freeze without enforcement, no frozen status without one.      *)
THEOREM FreezesAndEnforcementAgree ==
  ASSUME Prompt, NoActivations \/ OneHandler
  PROVE  Spec => []FreezesMatchEnforcement
<1>1. Init => SendingFits /\ UnenforcedIsThawed
  BY DEF Init, SendingFits, UnenforcedIsThawed, Labels
<1>2. Shape /\ Leased /\ Apart /\ SendingFits /\ [Next]_vars => SendingFits'
  BY SendingStep
<1>3. Shape /\ Leased /\ Apart /\ SendingFits /\ PublicationFits
      /\ UnenforcedIsThawed /\ [Next]_vars => UnenforcedIsThawed'
  BY ThawedStep
<1>4. Spec => []Apart /\ []FreezesAreEnforced
  BY ApartInvariant, FreezesStayEnforced
<1>5. FreezesAreEnforced /\ UnenforcedIsThawed => FreezesMatchEnforcement
  BY DEF FreezesMatchEnforcement
<1> QED
  BY <1>1, <1>2, <1>3, <1>4, <1>5, ShapeInvariant, LeasedInvariant,
     PublicationInvariant, PTL DEF Spec

(* A freeze status reaches the forge only while the repository is enforced.*)
THEOREM PublicationIsEnforced ==
  ASSUME Prompt, NoActivations \/ OneHandler
  PROVE  Spec => PublishOnlyWhileEnforced
<1>1. Init => SendingFits
  BY DEF Init, SendingFits
<1>2. Shape /\ Leased /\ Apart /\ SendingFits /\ [Next]_vars => SendingFits'
  BY SendingStep
<1>3. SendingFits /\ [Next]_vars => (posted' # posted => state \in {"active", "unhealthy"})
  BY SenderStep DEF SendingFits, Enforced, PostsAsSender
<1>4. Spec => []Apart
  BY ApartInvariant
<1> QED
  BY <1>1, <1>2, <1>3, <1>4, ShapeInvariant, LeasedInvariant, PTL
  DEF Spec, PublishOnlyWhileEnforced
-----------------------------------------------------------------------------
(* The lifecycle.                                                          *)

(* A verification that records ready has proved the setup of that moment,  *)
(* however many sessions and setup changes interleave with it.             *)
THEOREM VerificationStaysCurrent ==
  Spec => VerificationIsCurrent
<1>1. Shape /\ [Next]_vars => RecordsOnEvidence
  BY EvidenceStep
<1> QED BY <1>1, ShapeInvariant, PTL DEF Spec, VerificationIsCurrent, RecordsOnEvidence

(* Active ends only in unhealthy, or in ready through a deactivation, and  *)
(* ready is recorded on current evidence.                                  *)
THEOREM LifecycleStaysExplicit ==
  ASSUME NoActivations \/ (Prompt /\ OneHandler)
  PROVE  Spec => LifecycleIsExplicit
<1>1. Shape /\ Apart /\ [Next]_vars => EndsExplicitly
  BY EndingStep
<1>2. Spec => []Apart
  BY ApartInvariant
<1>3. Spec => ActiveEndsExplicitly
  BY <1>1, <1>2, ShapeInvariant, PTL
  DEF Spec, ActiveEndsExplicitly, EndsExplicitly
<1> QED BY <1>3, VerificationStaysCurrent DEF LifecycleIsExplicit
=============================================================================
