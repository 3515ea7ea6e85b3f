----------------------------- MODULE SharedHeads -----------------------------
(***************************************************************************)
(* Which commit status a head gets when several open pull requests share   *)
(* it: the pull requests on the forge, the webhook deliveries about them,  *)
(* pull_request_cache, the freezes, the thaw exceptions and the            *)
(* thawguard/freeze status of each head, in ONE repository whose           *)
(* enforcement is active.  The sessions are PullRequestProcessor.Process,  *)
(* ApproveThaw, a freeze operation followed by convergeFreeze, and the     *)
(* reconciliation runner; the job they share is a JobRow.                  *)
(*                                                                         *)
(* A step is one statement, one transaction, one forge call, or a run of   *)
(* reads; the upserts of one synchronisation are one step with the closing *)
(* of absent rows.  Forge calls succeed and every branch is managed (for   *)
(* failures and the lifecycle see Enforcement).  A Ref -- a pull request,  *)
(* its target and its head -- is what an open cached row says, what a thaw *)
(* exception names, and what the confirmation signature hashes.            *)
(***************************************************************************)
EXTENDS JobRow, FiniteSets, Sequences

CONSTANTS
  PRs, Branches, Heads,
  Freezable,    \* the branches that operators freeze in this instance
  Runner,       \* the goroutine of repository_reconciliation_runner.go
  Handlers,     \* webhook deliveries and HTTP requests
  Kinds,        \* of {"approve", "freeze"}: the operations requested
  MaxMoves,     \* bound on the changes to pull requests on the forge
  MaxOps,       \* bound on the operations requested
  MaxCrashes    \* bound on sessions cut short

Sessions == Handlers \cup {Runner}

ASSUME SharedHeadsAssumption ==
  /\ Runner \notin Handlers /\ Freezable \subseteq Branches
  /\ MaxMoves \in Nat /\ MaxOps \in Nat /\ MaxCrashes \in Nat

VARIABLES
  forge,    \* forge[p]: the pull request itself
  queue,    \* queue[p]: deliveries about p under way, oldest first
  cache,    \* cache[p]: its row in pull_request_cache
  frozen,   \* the branches with an active freeze
  thaws,    \* the active thaw exceptions; nothing sets expires_at
  posted,   \* posted[h]: the thawguard/freeze status of head h
  row,      \* the repository's reconciliation job
  offered,  \* the affected sets operators have been asked to confirm
  pc, op, claim,
  data,     \* data[s]: the local variables of session s
  raced,    \* history: pull requests whose cached row changed while an
            \* approval was at work without the claim
  moves, ops, crashes

tables == <<cache, frozen, thaws, row>>
local == <<pc, op, claim, data>>
bounds == <<moves, ops, crashes>>
vars == <<forge, queue, tables, posted, offered, local, raced, bounds>>

PullRequest == [open : BOOLEAN, target : Branches, head : Heads]
Unknown == [open |-> FALSE, target |-> "none", head |-> "none"]
Ref == [pr : PRs, target : Branches, head : Heads]
RefTo(p, as) == [pr |-> p, target |-> as.target, head |-> as.head]

OpenIn(table) == {RefTo(p, table[p]) : p \in {q \in PRs : table[q].open}}
OpenAt(table, h) == {r \in OpenIn(table) : r.head = h}
-----------------------------------------------------------------------------
(* The decision *)

Frozen(r) == r.target \in frozen
Thawed(r) == r \in thaws
Blocked(refs) == \E r \in refs : Frozen(r) /\ ~Thawed(r)

Shared(refs) == \E r, q \in refs : r.pr # q.pr
Duplicated(r, refs) == \E q \in refs : q.pr # r.pr

(* sharedHeadFullyThawed: FALSE for a single pull request. *)
FullyThawed(refs) == Shared(refs) /\ \A r \in refs : Frozen(r) => Thawed(r)

(* policy.Evaluate for one of the pull requests sharing the head. *)
Passes(r, refs) ==
  \/ ~Frozen(r)
  \/ Thawed(r) /\ (Duplicated(r, refs) => FullyThawed(refs))

(* expandSharedHead: cached rows are added, rows already there win. *)
Expanded(refs) ==
  refs \cup {r \in OpenIn(cache) :
               /\ \A q \in refs : q.pr # r.pr
               /\ \E q \in refs : q.head = r.head}

(* RunForSharedHead: the first pull request that fails decides. *)
Decision(refs) ==
  IF \A r \in refs : Passes(r, refs) THEN "success" ELSE "failure"
-----------------------------------------------------------------------------
Steps == {"idle", "claim", "again", "plan", "list", "apply", "collect", "decide",
          "approve", "evaluate", "fence", "post", "keep", "keepOnly",
          "complete", "release"}
Rows == PullRequest \cup {Unknown}
NoData == [pr |-> "none", got |-> Unknown, branch |-> "none", confirms |-> {},
           listing |-> {}, plans |-> {}, grant |-> {}, deciding |-> {},
           verdict |-> "none"]
Data == [pr : PRs \cup {"none"}, got : Rows, branch : Branches \cup {"none"},
         confirms : SUBSET Ref, listing : SUBSET Ref, plans : SUBSET SUBSET Ref,
         grant : SUBSET Ref, deciding : SUBSET Ref,
         verdict : {"none", "success", "failure"}]

TypeOK ==
  /\ forge \in [PRs -> Rows] /\ cache \in [PRs -> Rows]
  /\ queue \in [PRs -> Seq(PullRequest)]
  /\ frozen \subseteq Freezable /\ thaws \subseteq Ref
  /\ posted \in [Heads -> {"nothing", "success", "failure"}]
  /\ row \in Row
  /\ offered \subseteq SUBSET Ref
  /\ pc \in [Sessions -> Steps]
  /\ op \in [Sessions -> {"none", "webhook", "approve", "converge", "runner"}]
  /\ claim \in [Sessions -> [gen : Nat, token : Nat]]
  /\ data \in [Sessions -> Data]
  /\ \A s \in Sessions : {} \notin data[s].plans
  /\ \A s \in Sessions : pc[s] = "idle" <=> op[s] = "none"
  /\ raced \subseteq PRs
  /\ moves \in Nat /\ ops \in Nat /\ crashes \in Nat

(* A repository at rest: every status agrees with the open pull requests,  *)
(* which the cache knows, and nobody has thawed anything yet.              *)
Init ==
  /\ forge \in [PRs -> {Unknown} \cup {r \in PullRequest : r.open}]
  /\ cache = forge
  /\ queue = [p \in PRs |-> <<>>]
  /\ frozen \in SUBSET Freezable
  /\ thaws = {}
  /\ posted = [h \in Heads |->
                 CASE OpenAt(forge, h) = {} -> "nothing"
                   [] Blocked(OpenAt(forge, h)) -> "failure"
                   [] OTHER -> "success"]
  /\ row = NoRow
  /\ offered = {}
  /\ pc = [s \in Sessions |-> "idle"]
  /\ op = [s \in Sessions |-> "none"]
  /\ claim = [s \in Sessions |-> NoClaim]
  /\ data = [s \in Sessions |-> NoData]
  /\ raced = {}
  /\ moves = 0 /\ ops = 0 /\ crashes = 0
-----------------------------------------------------------------------------
(* Sessions *)

Goto(s, step) == pc' = [pc EXCEPT ![s] = step] /\ UNCHANGED <<op, claim, data>>

(* Move on with the local variables given.                                 *)
With(s, step, locals) ==
  /\ pc' = [pc EXCEPT ![s] = step]
  /\ data' = [data EXCEPT ![s] = locals]
  /\ UNCHANGED <<op, claim>>

Stop(s) ==
  /\ pc' = [pc EXCEPT ![s] = "idle"]
  /\ op' = [op EXCEPT ![s] = "none"]
  /\ claim' = [claim EXCEPT ![s] = NoClaim]
  /\ data' = [data EXCEPT ![s] = NoData]

Start(s, kind, step, locals) ==
  /\ s \in Handlers /\ pc[s] = "idle"
  /\ pc' = [pc EXCEPT ![s] = step]
  /\ op' = [op EXCEPT ![s] = kind]
  /\ data' = [data EXCEPT ![s] = locals]
  /\ UNCHANGED claim

Requested(kind) ==
  kind \in Kinds /\ ops < MaxOps /\ ops' = ops + 1 /\ UNCHANGED <<moves, crashes>>

(* A lease token no session in flight holds: locked_at values differ.      *)
Fresh(token) == \A s \in Sessions : claim[s].token # token
Tokens == 1..Cardinality(Sessions)
FreshToken == CHOOSE t \in Tokens : Fresh(t)

Claims(s, kind, step) ==
  /\ \E t \in Tokens : Fresh(t)
  /\ row' = Claimed(row, FreshToken)
  /\ claim' = [claim EXCEPT ![s] = ClaimOn(row')]
  /\ pc' = [pc EXCEPT ![s] = step]
  /\ op' = [op EXCEPT ![s] = kind]
  /\ UNCHANGED data

Holds(s) == Current(row, claim[s])

(* An approval synchronises, lists and decides before it has a claim.      *)
ApprovalUnclaimed ==
  \E s \in Sessions :
    op[s] = "approve" /\ pc[s] \in {"list", "apply", "decide", "approve", "claim"}

CacheBecomes(table) ==
  /\ cache' = table
  /\ raced' = raced \cup {p \in PRs : ApprovalUnclaimed /\ table[p] # cache[p]}
-----------------------------------------------------------------------------
(* Webhooks *)

(* Process up to its first Enqueue.  The forge delivers what happens to    *)
(* one pull request in order, and waits for an answer before the next.     *)
Deliver(s, p) ==
  /\ queue[p] # <<>>
  /\ \A t \in Sessions : ~(op[t] = "webhook" /\ data[t].pr = p)
  /\ queue' = [queue EXCEPT ![p] = Tail(@)]
  /\ row' = Enqueued(row)
  /\ Start(s, "webhook", "claim", [NoData EXCEPT !.pr = p, !.got = Head(queue[p])])
  /\ UNCHANGED <<forge, cache, frozen, thaws, posted, offered, raced, bounds>>

FirstStep(kind) ==
  CASE kind = "webhook" -> "plan"
    [] kind = "approve" -> "evaluate"
    [] kind = "converge" -> "list"

(* Claim.  Without it a webhook asks again and only caches; an approval or *)
(* a freeze operation has asked in its transaction and returns.            *)
ClaimWork(s) ==
  /\ pc[s] = "claim"
  /\ IF Claimable(row) THEN Claims(s, op[s], FirstStep(op[s]))
     ELSE /\ IF op[s] = "webhook" THEN Goto(s, "again") ELSE Stop(s)
          /\ UNCHANGED row
  /\ UNCHANGED <<forge, queue, cache, frozen, thaws, posted, offered, raced, bounds>>

EnqueueAgain(s) ==
  /\ pc[s] = "again"
  /\ row' = Enqueued(row)
  /\ Goto(s, "keepOnly")
  /\ UNCHANGED <<forge, queue, cache, frozen, thaws, posted, offered, raced, bounds>>

(* openPullRequestsForHead: the delivered pull request replaces its row.   *)
Planned(p, got, h) ==
  {r \in OpenAt(cache, h) : r.pr # p}
    \cup (IF got.open /\ got.head = h THEN {RefTo(p, got)} ELSE {})

(* recomputePlans: the head of the pull request, and the head it left.     *)
HeadsOf(p, got) ==
  {got.head} \cup (IF cache[p].open THEN {cache[p].head} ELSE {})

Plan(s) ==
  /\ pc[s] = "plan"
  /\ LET p == data[s].pr
         got == data[s].got
         plans == {Planned(p, got, h) : h \in HeadsOf(p, got)}
     IN With(s, "evaluate", [data[s] EXCEPT !.plans = plans \ {{}}])
  /\ UNCHANGED <<forge, queue, tables, posted, offered, raced, bounds>>

(* Upsert of the delivered pull request: after everything was published,   *)
(* or after the claim was refused or lost.                                 *)
Keep(s) ==
  /\ pc[s] \in {"keep", "keepOnly"}
  /\ CacheBecomes([cache EXCEPT ![data[s].pr] = data[s].got])
  /\ IF pc[s] = "keep" THEN Goto(s, "complete") ELSE Stop(s)
  /\ UNCHANGED <<forge, queue, frozen, thaws, row, posted, offered, bounds>>
-----------------------------------------------------------------------------
(* SyncOpenPullRequests, by an approval, a freeze operation or the runner  *)

RunDue ==
  /\ pc[Runner] = "idle" /\ Claimable(row)
  /\ Claims(Runner, "runner", "list")
  /\ UNCHANGED <<forge, queue, cache, frozen, thaws, posted, offered, raced, bounds>>

(* ListOpenPullRequests *)
List(s) ==
  /\ pc[s] = "list"
  /\ With(s, "apply", [data[s] EXCEPT !.listing = OpenIn(forge)])
  /\ UNCHANGED <<forge, queue, tables, posted, offered, raced, bounds>>

SynchronisedAddsOnly(listing) ==
  [p \in PRs |->
     IF \E r \in listing : r.pr = p
       THEN LET r == CHOOSE r \in listing : r.pr = p
            IN [open |-> TRUE, target |-> r.target, head |-> r.head]
       ELSE cache[p]]

(* The cache after the upserts and MarkAbsentOpenClosed. *)
Synchronised(listing) ==
  [p \in PRs |->
     IF \E r \in listing : r.pr = p
       THEN LET r == CHOOSE r \in listing : r.pr = p
            IN [open |-> TRUE, target |-> r.target, head |-> r.head]
       ELSE [open |-> FALSE, target |-> cache[p].target, head |-> cache[p].head]]

Apply(s) ==
  /\ pc[s] = "apply"
  /\ CacheBecomes(Synchronised(data[s].listing))
  /\ With(s, IF op[s] = "approve" THEN "decide" ELSE "collect",
          [data[s] EXCEPT !.listing = {}])
  /\ UNCHANGED <<forge, queue, frozen, thaws, row, posted, offered, bounds>>

CollectFrozen(s) ==
  /\ pc[s] = "collect"
  /\ LET refs == {r \in OpenIn(cache) :
                    Frozen(r) /\ (op[s] = "converge" => r.target = data[s].branch)}
     IN With(s, "evaluate",
             [NoData EXCEPT !.plans = {{r \in refs : r.head = q.head} : q \in refs}])
  /\ UNCHANGED <<forge, queue, tables, posted, offered, raced, bounds>>

(* pullRequestsByHead of the branch, or of all of them for the runner. *)
Collect(s) ==
  /\ pc[s] = "collect"
  /\ LET refs == {r \in OpenIn(cache) :
                    op[s] = "converge" => r.target = data[s].branch}
     IN With(s, "evaluate",
             [NoData EXCEPT !.plans = {{r \in refs : r.head = q.head} : q \in refs}])
  /\ UNCHANGED <<forge, queue, tables, posted, offered, raced, bounds>>
-----------------------------------------------------------------------------
(* ApproveThaw *)

(* GetPullRequest; one that is not open is refused.  confirms is {} when   *)
(* the form carried no confirmation.                                       *)
RequestThaw(s, p, confirms) ==
  /\ Requested("approve")
  /\ forge[p].open
  /\ Start(s, "approve", "list",
           [NoData EXCEPT !.pr = p, !.got = forge[p], !.confirms = confirms])
  /\ UNCHANGED <<forge, queue, tables, posted, offered, raced>>

ConfirmedEarlier(refs, confirms) == ~Shared(refs) \/ confirms # {}

(* A shared head needs a confirmation of exactly these pull requests. *)
Confirmed(refs, confirms) ==
  IF confirms = {} THEN ~Shared(refs) ELSE confirms = refs

(* Upsert, then what the head's open pull requests call for. *)
Decide(s) ==
  /\ pc[s] = "decide"
  /\ CacheBecomes([cache EXCEPT ![data[s].pr] = data[s].got])
  /\ LET refs == OpenAt(cache', data[s].got.head)
         grant == {r \in refs : Frozen(r)}
     IN \/ grant = {} /\ Stop(s) /\ UNCHANGED offered
        \/ /\ grant # {} /\ ~Confirmed(refs, data[s].confirms)
           /\ Stop(s)
           /\ offered' = offered \cup {refs}
        \/ /\ grant # {} /\ Confirmed(refs, data[s].confirms)
           /\ With(s, "approve", [data[s] EXCEPT !.grant = grant, !.plans = {refs}])
           /\ UNCHANGED offered
  /\ UNCHANGED <<forge, queue, frozen, thaws, row, posted, bounds>>

(* Approve or ApproveSharedHead: exceptions and request commit together. *)
Approve(s) ==
  /\ pc[s] = "approve"
  /\ thaws' = thaws \cup data[s].grant
  /\ row' = Enqueued(row)
  /\ With(s, "claim", [NoData EXCEPT !.plans = data[s].plans])
  /\ UNCHANGED <<forge, queue, cache, frozen, posted, offered, raced, bounds>>
-----------------------------------------------------------------------------
(* Freezes: an operation commits with its request, then convergeFreeze. *)

SetFreezeQuietly(s, b) ==
  /\ Requested("freeze")
  /\ frozen' = IF b \in frozen THEN frozen \ {b} ELSE frozen \cup {b}
  /\ Start(s, "converge", "claim", [NoData EXCEPT !.branch = b])
  /\ UNCHANGED <<forge, queue, cache, thaws, row, posted, offered, raced>>

SetFreeze(s, b) ==
  /\ Requested("freeze")
  /\ frozen' = IF b \in frozen THEN frozen \ {b} ELSE frozen \cup {b}
  /\ row' = Enqueued(row)
  /\ Start(s, "converge", "claim", [NoData EXCEPT !.branch = b])
  /\ UNCHANGED <<forge, queue, cache, thaws, posted, offered, raced>>
-----------------------------------------------------------------------------
(* Publication, one head at a time *)

(* The claim was lost: a webhook still caches, the runner reschedules.     *)
ClaimLost(s) ==
  CASE op[s] = "webhook" -> Goto(s, "keepOnly")
    [] op[s] = "runner" -> Goto(s, "release")
    [] op[s] \in {"approve", "converge"} -> Stop(s)

(* The first fence and RunForSharedHead.  Every change to the freezes and  *)
(* the thaws enqueues, so the reads of one decision are one step: a change *)
(* between them loses the claim before the second fence.                   *)
Evaluate(s) ==
  /\ pc[s] = "evaluate"
  /\ IF data[s].plans = {} THEN Goto(s, IF op[s] = "webhook" THEN "keep" ELSE "complete")
     ELSE IF ~Holds(s) THEN ClaimLost(s)
     ELSE \E refs \in data[s].plans :
            LET all == Expanded(refs)
            IN With(s, "fence", [data[s] EXCEPT !.plans = @ \ {refs}, !.deciding = all,
                                                !.verdict = Decision(all)])
  /\ UNCHANGED <<forge, queue, tables, posted, offered, raced, bounds>>

Fence(s) ==
  /\ pc[s] = "fence"
  /\ IF Holds(s) THEN Goto(s, "post") ELSE ClaimLost(s)
  /\ UNCHANGED <<forge, queue, tables, posted, offered, raced, bounds>>

HeadOf(refs) == (CHOOSE r \in refs : TRUE).head

(* PostCommitStatus *)
Post(s) ==
  /\ pc[s] = "post"
  /\ posted' = [posted EXCEPT ![HeadOf(data[s].deciding)] = data[s].verdict]
  /\ With(s, "evaluate", [data[s] EXCEPT !.deciding = {}, !.verdict = "none"])
  /\ UNCHANGED <<forge, queue, tables, offered, raced, bounds>>

(* CompleteClaim, whoever asked for the work. *)
Complete(s) ==
  /\ pc[s] = "complete"
  /\ row' = Completed(row, claim[s])
  /\ Stop(s)
  /\ UNCHANGED <<forge, queue, cache, frozen, thaws, posted, offered, raced, bounds>>

(* RescheduleClaim: newer work keeps the row, and it is due. *)
Release(s) ==
  /\ pc[s] = "release"
  /\ row' = Rescheduled(row, claim[s])
  /\ Stop(s)
  /\ UNCHANGED <<forge, queue, cache, frozen, thaws, posted, offered, raced, bounds>>
-----------------------------------------------------------------------------
(* The environment *)

(* Someone opens, closes, reopens, retargets or pushes to a pull request. *)
Move(p, to) ==
  /\ moves < MaxMoves
  /\ to # forge[p] /\ (to.open \/ forge[p].open)
  /\ forge' = [forge EXCEPT ![p] = to]
  /\ queue' = [queue EXCEPT ![p] = Append(@, to)]
  /\ moves' = moves + 1
  /\ UNCHANGED <<tables, posted, offered, local, raced, ops, crashes>>

(* A cancelled context or a restart.  The work that was under way stays.   *)
Abandon(s) ==
  /\ pc[s] # "idle" /\ crashes < MaxCrashes
  /\ crashes' = crashes + 1
  /\ Stop(s)
  /\ UNCHANGED <<forge, queue, tables, posted, offered, raced, moves, ops>>

(* Only a lease whose session is gone: see ReconciliationJobs for others. *)
LeaseRunsOut ==
  /\ row.lease = "live"
  /\ \A s \in Sessions : claim[s].token # row.token
  /\ row' = [row EXCEPT !.lease = "expired"]
  /\ UNCHANGED <<forge, queue, cache, frozen, thaws, posted, offered, local, raced, bounds>>
-----------------------------------------------------------------------------
Step(s) ==
  \/ ClaimWork(s) \/ EnqueueAgain(s) \/ Plan(s) \/ Keep(s)
  \/ List(s) \/ Apply(s) \/ Collect(s) \/ Decide(s) \/ Approve(s)
  \/ Evaluate(s) \/ Fence(s) \/ Post(s) \/ Complete(s) \/ Release(s)

Request(s) ==
  \/ \E p \in PRs, confirms \in offered \cup {{}} : RequestThaw(s, p, confirms)
  \/ \E b \in Freezable : SetFreeze(s, b)

Next ==
  \/ \E s \in Sessions : Step(s) \/ Request(s) \/ Abandon(s)
  \/ \E s \in Sessions, p \in PRs : Deliver(s, p)
  \/ RunDue \/ LeaseRunsOut
  \/ \E p \in PRs, to \in PullRequest : Move(p, to)

Spec == Init /\ [][Next]_vars
-----------------------------------------------------------------------------
(* Properties *)

AtRest ==
  /\ ~Exists(row)
  /\ \A s \in Sessions : pc[s] = "idle"
  /\ \A p \in PRs : queue[p] = <<>>

(* Nothing about p is on its way to the cache or was mixed up by an        *)
(* approval that worked without the claim.                                 *)
Quiet(p) ==
  /\ queue[p] = <<>> /\ p \notin raced
  /\ \A s \in Sessions : ~(op[s] = "webhook" /\ data[s].pr = p)

(* What a head deserves, by the pull requests themselves: each open one    *)
(* that targets a frozen branch is thawed at this very head.               *)
Deserved(h) == IF Blocked(OpenAt(forge, h)) THEN "failure" ELSE "success"

(* Whenever the runner finishes and no newer work keeps the job, the       *)
(* status of every head is the one it deserves: it relies on neither the   *)
(* deliveries that were cut short before nor on what they left behind      *)
(* (processReconciliationClaim "runs only current repository-wide state"). *)
ReconciliationIsExact ==
  [][\A s \in Sessions :
       op[s] = "runner" /\ pc[s] = "complete" /\ ~Exists(row') /\ (\A p \in PRs : Quiet(p))
         => \A h \in Heads : OpenAt(forge, h) # {} => posted[h] = Deserved(h)]_vars

(* A decision whose claim is still current when it is sent is the one that *)
(* today's freezes and thaws call for, though it was made earlier: every   *)
(* change of policy takes the claim away, and the duplicate-head rule of   *)
(* policy.Evaluate never blocks a head whose pull requests are all thawed. *)
DecisionsAreCurrent ==
  \A s \in Sessions :
    pc[s] = "post" /\ Holds(s) =>
      (data[s].verdict = "failure" <=> Blocked(data[s].deciding))

(* Beyond the pull request that was asked for, only a pull request that an *)
(* operator was shown at this head and target is ever thawed, whatever was *)
(* opened, retargeted or pushed since (thawApprovalConfirmationMatches).   *)
ThawsAreShown ==
  [][\A r \in thaws' \ thaws :
       \/ \E s \in Sessions : op[s] = "approve" /\ r = RefTo(data[s].pr, data[s].got)
       \/ \E shown \in offered : r \in shown]_vars

(* Once everything is at rest, no head has a success it does not deserve   *)
(* (service.go: one "invariant" for webhook, lifecycle, thaw approval).    *)
SharedHeadIsGated ==
  AtRest => \A h \in Heads : posted[h] = "success" => Deserved(h) = "success"

(* Nor is a head left blocked that nothing blocks any more: when a pull    *)
(* request leaves a head, the status of the others is recomputed.          *)
NotOverBlocked ==
  AtRest => \A h \in Heads :
    posted[h] = "failure" /\ OpenAt(forge, h) # {} => Deserved(h) = "failure"
-----------------------------------------------------------------------------
(* The inductive invariant *)

(* Leases in use have tokens of their own, and a claim that still has the  *)
(* row's token is not ahead of it.                                         *)
ClaimsFit ==
  /\ ~Exists(row) => row = NoRow
  /\ row.lease = "live" => row.token # 0
  /\ \A s \in Sessions :
       /\ claim[s].token = 0 => claim[s] = NoClaim
       /\ Exists(row) /\ row.token = claim[s].token => claim[s].gen <= row.gen

(* Which operation is at which step, with which local variables.           *)
StepsFit ==
  \A s \in Sessions :
    /\ pc[s] = "claim" => op[s] \in {"webhook", "approve", "converge"}
    /\ pc[s] \in {"again", "plan", "keep", "keepOnly"} => op[s] = "webhook"
    /\ pc[s] \in {"list", "apply", "collect"} => op[s] \in {"approve", "converge", "runner"}
    /\ pc[s] \in {"decide", "approve"} => op[s] = "approve"
    /\ pc[s] \in {"fence", "post"} => data[s].verdict # "none"
    /\ op[s] = "webhook" => data[s].pr \in PRs
    /\ op[s] = "approve" /\ pc[s] \in {"list", "apply", "decide"} =>
         /\ data[s].pr \in PRs /\ data[s].got.open
         /\ data[s].confirms \in offered \cup {{}}

(* A verdict reached under a claim that is still current is today's.       *)
VerdictsFit ==
  \A s \in Sessions :
    pc[s] \in {"fence", "post"} /\ Holds(s) =>
      (data[s].verdict = "failure" <=> Blocked(data[s].deciding))

(* What an approval is about to thaw was asked for or shown.               *)
GrantsFit ==
  \A s \in Sessions : pc[s] = "approve" =>
    \A r \in data[s].grant :
      r = RefTo(data[s].pr, data[s].got) \/ \E shown \in offered : r \in shown

IInv == TypeOK /\ ClaimsFit /\ StepsFit /\ VerdictsFit /\ GrantsFit

(* Nobody outlives its lease here, so that only one session has a claim.   *)
HoldersAlone ==
  \A s \in Sessions : claim[s].token # 0 =>
    /\ Exists(row) /\ row.token = claim[s].token /\ row.lease = "live"
    /\ \A t \in Sessions : claim[t].token # 0 => t = s

(* The steps taken only with a claim.                                      *)
ClaimsHeld ==
  \A s \in Sessions :
    \/ pc[s] \in {"plan", "collect", "evaluate", "fence", "post", "keep", "complete"}
    \/ pc[s] \in {"list", "apply"} /\ op[s] # "approve"
    => claim[s].token # 0

(* What is delivered last is what the pull request is.                     *)
DeliveriesFit ==
  /\ \A p \in PRs : queue[p] # <<>> => queue[p][Len(queue[p])] = forge[p]
  /\ \A s \in Sessions :
       op[s] = "webhook" /\ queue[data[s].pr] = <<>> => data[s].got = forge[data[s].pr]

(* The runner's claim has seen all work, and nothing raced with approvals. *)
Undisturbed(s) ==
  /\ op[s] = "runner" /\ Holds(s)
  /\ raced = {} /\ \A p \in PRs : queue[p] = <<>>

(* Each head is right already, planned, or being decided.                  *)
HeadsFit(s) ==
  /\ \A refs \in data[s].plans : \E h \in Heads : refs = OpenAt(forge, h)
  /\ pc[s] \in {"fence", "post"} =>
       \E h \in Heads : data[s].deciding = OpenAt(forge, h) /\ OpenAt(forge, h) # {}
  /\ \A h \in Heads : OpenAt(forge, h) # {} =>
       \/ posted[h] = Deserved(h)
       \/ OpenAt(forge, h) \in data[s].plans
       \/ pc[s] \in {"fence", "post"} /\ data[s].deciding = OpenAt(forge, h)

(* What an undisturbed reconciliation has achieved at each step.           *)
RunnerFit ==
  \A s \in Sessions : Undisturbed(s) =>
    /\ pc[s] = "apply" => data[s].listing = OpenIn(forge)
    /\ pc[s] \in {"collect", "evaluate", "fence", "post", "complete"} =>
         OpenIn(cache) = OpenIn(forge)
    /\ pc[s] \in {"evaluate", "fence", "post", "complete"} => HeadsFit(s)
    /\ pc[s] = "complete" => data[s].plans = {}

RInv == IInv /\ HoldersAlone /\ ClaimsHeld /\ DeliveriesFit /\ RunnerFit
=============================================================================
