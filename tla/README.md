# TLA+ models of Thawguard

Thawguard freezes and thaws branches of Forgejo repositories by posting a
`thawguard/freeze` commit status on the head of every open pull request, which
branch protection turns into a merge gate. The program is a single Go process
over SQLite: HTTP handlers, webhooks and several background runners act on the
same rows, and everything that matters to an operator, *is this branch really
frozen on the forge?*, depends on steps that are not atomic.

The modules here are a model of that core, checked with TLC on small instances
and proved with TLAPS where a statement must hold for every instance.

## 1. Inventory

| component | state | operations | interacts with |
|---|---|---|---|
| reconciliation jobs (`internal/jobs`) | one row of `jobs` per repository: generation, run_at, locked_at, attempts | enqueue, ensure, claim, complete, reschedule, make due | every publisher claims it; freezes and failures enqueue it |
| enforcement lifecycle (`internal/app/enforcement_*.go`) | `repositories.enforcement_state`, verification evidence, failure reason | verify, activate, deactivate, reconcile, recover | jobs, forge, freezes, setup |
| freeze convergence (`internal/app/freeze_recompute.go`, `runtime_convergence.go`) | none of its own | publish one branch after a freeze changed | jobs, freezes, publisher |
| readiness checks (`internal/setupcheck`) | readiness of branches, setup checks | run, persist, demote active to unhealthy | lifecycle, jobs |
| repository setup (`internal/repositorysetup`, `internal/repository`) | repository row, managed branches, encrypted secrets | create, token, webhook secret, branches | lifecycle state |
| pull request cache (`internal/pullrequest`, `internal/app/open_pr_sync.go`) | open pull requests | upsert from a webhook, replace from a listing | webhooks, decision |
| status decision (`internal/statusresult`, `internal/policy`) | status results | evaluate a head over every pull request that shares it | freezes, thaws, cache |
| publication (`internal/statuspublisher`, `internal/statuspublication`) | intents and attempts | post one status | forge, lifecycle state |
| freezes (`internal/freeze`) | branch freezes: scheduled, active, ended | create, schedule, edit, activate, start now, end, plan an unfreeze | lifecycle runner, materializer, convergence |
| recurring schedules (`internal/schedule`) | schedules, segments, suppression | create, activate, pause, delete, end its freeze | materializer |
| materializer (`internal/scheduler`) | none of its own | decide per branch: create, extend, relabel, end | schedules, freezes |
| thaw approvals (`internal/app/thaw_approval.go`, `internal/thawexception`) | thaw exceptions per pull request head | approve | sync, decision, publisher |
| webhooks (`internal/webhook`, the handler in `internal/web/server.go`) | `webhook_deliveries` | verify, record, claim, process a pull request event, mark processed or failed | cache, decision, jobs |
| runners (`internal/app/app_lifecycle.go`, `*_runner.go`) | goroutines | start, tick, stop | all of the above |
| accounts (`internal/auth`) | users, password hashes, sessions, recovery links, invitations with staged grants, grants | sign in and out, change, reset and recover a password, invite, reissue, accept, promote, demote, disable, grant, revoke | web, company sign-in |
| company sign-in (`internal/companyoidc`) | one connection, its evidence, transactions of three kinds | save, check, test, link, enable, disable, start, complete | accounts, the provider |
| forge connection (`internal/forgeconnection`) | connection, readiness evidence, visible repositories, bindings | create, edit, reset, check, bind, unbind | forge |
| forge identities (`internal/forgeidentity`) | OAuth client, linked accounts, ceremonies | save, disable, start, complete, unlink, purge | accounts, forge connection |
| access snapshots (`access_shadow*.go`, `forgejo/access_observer.go`) | attempts, observations, periodic schedule | run, scan, publish, recover, retain, enable, disable, view | forge connection, identities, forge |

**What is hard.** Every publication is a read of policy, a fence and a post,
with other handlers between them. Locks are leases that expire. Work requested
during a run must survive the run's completion. An operation loads a
repository once and acts on it minutes later. A post that failed may have
reached the forge. A deactivation and a freeze use different tables and must
not pass each other. Sessions are cut short by cancelled requests and restarts.
A password is verified, a provider asked, or a forge read page by page for a
minute before the transaction that relies on the answer. Revisions that forms
and calls are compared by must never stand for two contents, also at the
largest integer. A webhook is posted twice, and its claim grows old in use.
`PROJECT.json` lists each hazard at its line with the properties aimed at it.

**What makes each component correct.** Jobs: no request is lost, one current
claim. Lifecycle: states change only for the reason the code gives; evidence
is about today's setup; freezes never outlive enforcement; an unhealthy
repository is retried. Convergence: once no work is left the forge shows the
freezes. Decision: the most restrictive pull request sharing a head decides;
a thaw opens exactly the head that was approved. Freezes: one active freeze per branch, each plan
executed once. Materializer: the freezes it keeps equal the union of the
active schedules minus suppression. Accounts: an administrator remains,
nothing that signs a user in outlives what it rests on, a token is spent once.
Company sign-in: it is on only with evidence about the draft in force, and no
session is left of an enabling that ended. Forge connection: a form that fits by
its revisions is about the row its operator saw; no remote repository has two
bindings. Snapshots: what the page shows is about the scope it names, and an
answer is taken only from the account it is about.

## 2. Modules

| module | models | role |
|---|---|---|
| `JobRow` | the row of `jobs` as its callers see it | operators, no state |
| `LeasedJob` | what the table promises | abstract specification |
| `ReconciliationJobs` | `jobs.go`, statement by statement, with the clock | implements `LeasedJob` |
| `ReconciliationJobsProofs` | | theorems on the previous module |
| `Enforcement` | `enforcement_activation.go`, `enforcement_reconciliation.go`, `runtime_convergence.go`, `freeze_recompute.go`, the runner, and the parts of setup, readiness and publication they call | composes the lifecycle with `JobRow` |
| `EnforcementProofs` | | theorems on the previous module |
| `BranchFreezes` | `freeze/store.go`, `freeze/service.go`, `schedule/service.go`, `scheduler/*.go`, `freeze_lifecycle_runner.go` and the routes of `freeze_recompute.go` | the freezes of one branch, their schedules and the materializer |
| `BranchFreezesProofs` | | theorems on `BranchFreezes`, on `Recurrence`, then on `BranchCoverage` |
| `SharedHeads` | `webhook/pull_request.go`, `app/thaw_approval.go`, `app/open_pr_sync.go`, `statusresult/service.go`, `policy/evaluator.go`, `thawexception`, `pullrequest/store.go` | the pull requests that share a head; composes with `JobRow` |
| `SharedHeadsProofs` | | theorems on the previous module |
| `Recurrence` | `schedule/expand.go`, `rules.go`, `windows.go`, `service.go`, `scheduler/decide.go`, the schedule pages of `internal/web` | pure functions: what rules and windows cover through a time zone |
| `BranchCoverage` | `scheduler/decide.go` | composition of the two: segments, blocks and winners, by hours and by segments |
| `WebhookDeliveries` | `webhook/delivery_store.go`, `webhook/signature.go`, the webhook handler of `web/server.go` | the ledger of deliveries |
| `WebhookDeliveriesProofs` | | theorems on the previous module |
| `Accounts` | `internal/auth` and its handlers | accounts and what signs them in |
| `CompanyLogin` | `internal/companyoidc` and its handlers | composes the company connection with `Accounts` |
| `AccountsProofs` | | theorems on `Accounts`, then on `CompanyLogin` |
| `ForgeConnection` | `forgeconnection/service.go`, `check.go`, `binding.go` and their handlers | connection, checks, bindings |
| `ForgeIdentity` | `internal/forgeidentity` and its handlers | composes linking with `ForgeConnection` |
| `AccessShadow` | `forgeconnection/access_shadow*.go`, `app/forge_access_shadow_runner.go` | composes snapshots with `ForgeConnection` |
| `ForgeConnectionProofs` | | theorems on `ForgeConnection`, on `AccessShadow`, then on `ForgeIdentity` |
| `AccessObserver` | `forgeconnection/forgejo/access_observer.go`, `forge/forgejo/access_reads.go` | one snapshot, request by request |
| `AccessObserverProofs` | | theorems on the previous module |
| `MC*` | symmetry and constants | TLC instances |

Operators that end a definition's name with what is wrong in them
(`CompletedByToken`, `EndFreezeQuietly`, `MayDeactivateThoughFrozen`, ...) are faulty
variants of the definition below them (so do `SetFreezeQuietly`,
`ConfirmedEarlier`, `CollectFrozen`, ...). No specification uses them: they
document which mistake each property would catch.

### Job table

`ReconciliationJobs` has one action per SQL statement. Reading a due row and
claiming it are two actions (`ListDue` or `ReadRepository`, then
`ClaimCandidate`), because the code claims with the generation and the time it
read; the time of the *read* becomes the lease token `locked_at`. The clock is
counted in units of 15 seconds, so the lease is 8 and the retry delays are
1, 2, 4, ..., 60. SQLite reuses the id of a deleted row, and a new row starts again at
generation 1, so a stale claim may match both: what tells it apart is
`locked_at`. `upTo`, `asked` and `served` are history variables: how many
requests a claim undertakes, were made, and were worked on.

`LeasedJob` forgets the clock: a row is due or later, its lease free, live or
expired. `ReconciliationJobs` maps to it by `JobView` and `ClaimView`.

### Enforcement

One repository. A session is one run of an operation, a program counter over
its transactions and forge calls:

```
enqueue -> claim -> check -> post -> sync -> mark -> (evaluate -> fence -> gate -> send)* -> record
```

each operation taking the steps it has in the code (a reconciliation has no
`post` and no `mark`, a deactivation no `check`, `convergeFreeze` starts at
`claim` and then loads). A failure goes to the step that records it
(`fail`, `unset`, `unready`, `unverify`) and then to `release`
(RescheduleClaim). Between two steps anything may happen: other sessions,
freezes, setup changes, a lease that runs out, the session's own end.

Abstractions: a branch has one open pull request and one freeze slot; a freeze
is its label; what a status says is the label of its freeze or "thawed"; the
forge is up or down; the clock is the lease field of the row. SQLite
transactions are atomic steps: with WAL and `busy_timeout` a transaction that
read before another committed a write cannot itself write.

`stale` holds the sessions whose loaded `updated_at` no longer matches;
`drifted` the sessions whose readiness check predates a change of the token or
the branches; `covered` says whether the last recorded evidence is about today's
setup. The last two are history, read only by properties.

### Freezes of a branch

`BranchFreezes` is one branch: its rows of `branch_freezes`, its schedules with
their windows, operators, and the goroutine that ticks every 15 seconds. The
tick is a program counter over its transactions:

```
ListDueScheduled -> ActivateScheduled* -> ListDuePlannedUnfreezes
  -> ExecutePlannedUnfreeze* -> ReadCoverage -> DecideBranch -> ActOnBranch
```

with operators, failures and the clock between any two of them; `read` is what
the materializer works from after operators have moved on. An operator's `End`
and `EditScheduled` are two steps because the code reads the row before the
transaction (`session`); every other operation is one transaction. `Load` is
shown to offer active rows to `End` and scheduled rows to the editor, as the
pages do.

Time is hours and a window is the set of hours it covers. The expansion of
rules through a time zone is thus data, while what follows from it is kept:
merging of touching windows (`RunStart`, `RunEnd`), suppression until the end
of the merged segment, the planned end at the end of the union of all
schedules' segments, its absence at the coverage horizon, and the winner among
kinds and ages. Ids are given as SQLite gives them: rows of freezes are never
deleted, and the id of a deleted schedule is used again when it was the
highest. A closed row keeps only its status: no statement reads the rest.
The `needs_recompute` flag is left out, since its retry returns at once when
convergence is wired (`RetryRecompute`).

What this module summarises of the others: enforcement is a Boolean that is
lost and recovered, and a reconciliation is a flag that was asked for. What it
knows that `Enforcement` does not: why a freeze appears and ends.

### Shared heads

`SharedHeads` is one active repository, seen from its pull requests: what is on
the forge, the deliveries about it, the cache, the freezes, the thaws, and the
status of each head. A session is one run of one of four operations, as a
program counter over its transactions and forge calls:

```
webhook   claim -> plan -> (evaluate -> fence -> post)* -> keep -> complete
approve   list -> apply -> decide -> approve -> claim -> (evaluate -> fence -> post)* -> complete
converge  claim -> list -> apply -> collect -> (evaluate -> fence -> post)* -> complete
runner            list -> apply -> collect -> (evaluate -> fence -> post)* -> complete
```

with the exits of the code: a webhook that is refused its claim asks again and
only caches (`again`, `keepOnly`), one that loses it still caches, a runner that
loses it reschedules (`release`). The order matters as written: an approval
changes the cache before it has a claim, and a webhook caches its pull request
after it has decided about the heads it touches.

A decision is made over a set of *refs*: a pull request with its target and its
head, which is what an open cached row says, what a thaw exception names, and
what the confirmation of an approval hashes. `Expanded`, `Passes` and
`FullyThawed` are `expandSharedHead`, `policy.Evaluate` with its duplicate-head
rule, and the shared-head approval; `DecisionBlocks` in the proofs shows that
together they block a head exactly when an open pull request of it targets a
frozen branch and is not thawed at this head.

Abstractions: the reads of one decision are one step, since every change of
freezes or thaws enqueues and takes the claim away before the second fence; the
upserts of one synchronisation are one step with the closing of absent rows; the
forge sends what happens to one pull request in order and once; calls succeed
(their failures are `Enforcement`'s subject) and sessions keep within their
lease, so that a lease runs out only once its session is gone. `offered` (what operators have
been shown) and `raced` (pull requests whose row changed while an approval
worked without the claim) are history; `raced` is read by properties only.

### Recurrence

Time is an integer in ticks; a *wall* is a reading of a clock that is never
changed, so a date is a wall divided by `DayTicks`, and a zone is an offset that
changes once: a page or a tick looks a fortnight ahead and cannot see two
changes. The functions are those of the source by name (`wallInstants`,
`resolveWall`, `expandRule`, `expandDated`, `mergeSegments`, ...). They are
compared with a definition that walks no calendar (`Within`, `Covers`): an
instant is covered when the clock has shown or skipped the start of an
occurrence and has yet to show its end for the last time. `mergeSegments`, a sort
and a fold in the code, is stated by its result: a block starts where nothing
earlier reaches (`blockStarts`) and takes in what starts before the next one does
(`blockFrom`).

The module takes the zones, calendars, spans and forms to be compared as
constants. `InstanceAssumption` says what they are: clocks within a day of
Greenwich, put forward by no more than the code scans, and put back without
showing two dates over again (put back from midnight to 23:00 they do not, from
00:30 they would, and `ruleDates` would end a date too early; no zone of the time
zone database does so between 2015 and 2035); finitely many schedules with ids of their own, whose windows have
passed `validateAddWindowParams`. `BranchCoverage` composes the module with
`BranchFreezes`, which has of coverage only hours, and says that these suffice:
segments and blocks are the runs of their hours (`SegmentsAreRuns`,
`BlocksAreRuns`), and the winner is the schedule that names the freeze
(`WinnersAgree`). `RecurrenceIsExact` is all of this. It is about functions of no
state, so the run of `MCBranchFreezes` compares them once, at its start; a week there is 2 days
of 4 ticks, `Probe` (26 hours in the code) more than a day, and the offset
changes by one or two ticks, forward or back. Section 5 proves it for all zones,
calendars and spans.

What the comparison makes visible and the code accepts: a weekly occurrence that
lies wholly in a skipped hour expands to a segment of no length, which
`expandDated` would skip, and which the *Next* label may name
(`NothingSwallowed` excludes it where it matters); the start of a merged segment
depends on how far back the expansion looks.

### Webhook deliveries

A handler goes through `Verify`, `Find`, `Insert`, `Claim`, `Reread`,
`Process`, `MarkProcessed` or `MarkProcessingFailed`, one step for each
statement; `Hangup` ends it at any point and leaves what it wrote. A claim is
the time it was made at, here its number; `GrowsOld` is the ten minutes after
which anybody may replace it, also while its handler is still at work.
`Process` is one effect that is counted, before or after which it may fail.
The key of a delivery determines its body. The forge is external and the
redelivery is its own: no code here asks for it. A validation error from
`Process` (`web/server.go:1082`) is left out: its causes are what the handler
has checked before the claim, the payload and the registration of the
repository, and nothing deregisters one.

### Accounts and company sign-in

Every call ends in one transaction, which is one action; what it read before is
a record in `requests` (`BeginLogin` verifies a password, `BeginRecovery` and
`BeginAcceptance` look a token up, `Admit` is the session gate). A password
hash and a bearer token are the number they were minted with, since every hash
has a fresh salt; `opened`, `issued` and `spent` are history. `Users`
are e-mail addresses, with or without an account. `ResetPassword`,
`ReissueInvitation`, `GrantRepositoryRole` and `RevokeRepositoryRole` are
operations of the service that no handler calls; they are actions
nevertheless. No code deletes a repository, so every staged grant survives
until its acceptance.

`CompanyLogin` adds the connection to the steps of `Accounts`. A form carries
the revision its page showed; the calls that ask the provider are `calls`, the
rows that wait for a browser's return are `ceremonies`. The revision stands for
issuer, client, secret and domains. What the provider answers is one Boolean.
Starting a test, a link or a login is two steps, because the provider is asked
where to redirect to between the read of the draft and the transaction that
stores the row (`StartTest`, `PrepareTest`). Requests of `Accounts` may
be begun at any time without changing anything, so `CompanyLogin` takes only
their transactions.

### Forge connection, identities, snapshots

A form of `ForgeConnection` that no longer fits by its revisions has no effect,
so only fitting ones are steps, and what makes a fit mean something is a
property (`FormsSeeTheRow`). A check reserves a generation, waits for the forge
and persists if the row is still its own. `MaxRevision` is the largest int64.
The slug, the name and the token are the revision; the organisation column of a
binding, private flags and counts are left out. `ForgeIdentity` and
`AccessShadow` extend it with the ceremonies and the attempts; each reduces what
the other does to a link made and removed. `ForgeIdentity` sketches accounts: a
user has one session at a time.

`AccessShadow` reduces time to whether a running row is older than 75 seconds
and whether the due time has come; overdue, which the page tells from due after
30 seconds, is due. `"failed"` stands for every
result that publishes nothing. Who may submit a form is the subject of
`Accounts`. The code allows that an attempt the page calls interrupted by its
age still completes.

`AccessObserver` is one attempt against a forge that is edited between two
requests. Users, repositories and teams have immutable ids and are asked about
by name; a listing is read page by page in ascending order of ids, so an edit
may make it miss or repeat a record, and the graph refuses what it can tell. An
edit may give a name to another owner at once. A request may fail with any of
the results of `classifySystemic`, whatever the cause; a 404 follows from the
forge's state. The ids of the scope are numbers already, so `parseAccessScope`
never refuses one. Another organisation at the slug shows nothing of ours; what
it would show instead is not modelled.

## 3. Runs

| run | instance | question |
|---|---|---|
| `ReconciliationJobs` | 2 workers, lease 2, clock to 5, 2 requests, 3 claims, 1 crash | does the SQL keep it; is `IInv` true; does it refine `LeasedJob`? |
| `Enforcement` | active repository, 2 handlers and the runner, 4 operations, 1 outage, 1 crash, fairness | safety of convergence, deactivation and recovery together; does the repository settle? |
| `EnforcementLifecycle` | new repository, 1 handler and the runner, all operations, 5 of them, 2 outages, 1 crash | the same through the whole life cycle |
| `BranchFreezes` | 3 rows, 2 schedules (one weekly, one dated), 2 windows, 2 operators, clock to 3, horizon 2, 2 operator changes, 1 fault, fairness; a week of 2 days of 4 ticks | safety of the rows, `IInv`, the action properties, does the branch settle; what rules and windows cover |
| `SharedHeads` | 2 pull requests, 2 branches of which 1 can be frozen, 1 head, 2 handlers and the runner, 1 change on the forge, 2 operations, 1 crash | safety of decisions, thaws and reconciliations; is `RInv` true? |
| `WebhookDeliveries` | 2 handlers, 2 deliveries, 2 faults, 2 secrets, fairness | is a delivery processed, once but for faults, and never unprocessed? |
| `Accounts` | 3 addresses, 2 sessions, 1 grant, 4 hashes and tokens, 2 requests in flight | who may act, on what, after every race |
| `CompanyLogin` | 2 users, 1 session, 2 login rows of which 1 may live, 1 ceremony, 2 calls, revisions to 2, generations to 5 | who is let in, and on what evidence |
| `ForgeConnection` | 1 installation, 2 organisations, 2 repositories, 3 remotes with 2 names, 2 connections, 2 checks, revisions to 3 | evidence, forms and bindings, up to the largest revision |
| `ForgeIdentity` | 2 installations, 2 users, 2 accounts, 2 sessions, 2 ceremonies, revisions to 2 | whose account is linked, by whom |
| `AccessShadow` | 2 users, 1 repository, 2 attempts, 2 connections, revisions to 2 | what is published, kept and shown |
| `AccessObserver` | 2 users, 2 repositories, 1 team, pages of 1, 11 requests, 1 edit of the forge | is a snapshot exact, and whose answers does it take? |

A property of a run is often a conjunction of named parts (`WorkIsKept`,
`AuthorityIsExact`, ...): the parts are the statements, each with its comment in
its module, and the conjunction is what a run lists.

The bounds are the smallest in which each hazard happens: a lost request needs a claim, a request and a completion; a takeover needs
a second worker and a lease that ends; an edit race needs two loads; a stale route
or a stale coverage needs one change between a read and its use; a window that is
not touched by a segment needs a second window and a gap;  passing a deactivation needs a third
party to hold or advance the job; a confirmation that is out of date needs two
approvals and a change between them; a shared head needs two pull requests (with
one head they share it whenever both are open; with two heads, one operation
and one crash, and with two operations and no crash, the same properties hold, but the
run takes longer, and the theorems below are for any number of heads); the last
administrator needs two who demote each other, and a third address to invite; a
late attempt needs another that interrupted it, so two attempts show every
recovery and retention; a revision that is compared in vain needs two contents
under one number, which three revisions and a second connection would give. Every faulty variant above is found within
them.

**Leases.** The runs set `Overrun` to FALSE: a session finishes within its two
minutes. The code does not enforce this (each forge call may take ten seconds
and there is one per head), so the properties marked `[L]` are conditional on
it. With `Overrun = TRUE` they fail, as they must when a fence is checked before
a post and not by it: a worker whose lease ends between the two posts what it
evaluated after its successor has finished. `FreezesAreEnforced` holds with
`Overrun = TRUE` too (2 handlers, 2 operations).

**Fairness.** Weak fairness of the running sessions (a goroutine that can go
on does), of the runner's tick, of leases and retry delays (the clock), and of
the end of an outage. None of requests or of crashes. In `BranchFreezes` only
the ticking goroutine is fair: neither operators, the clock, nor the recovery
of enforcement owe a step, and `Settles` says what the ticks achieve once
changes stop (their number is bounded, so they do stop). `Settles` is stated
for branches with a row left, because the model's table is finite.
`SnapshotEnds` needs only that the goroutine of a snapshot goes on, under its
deadline. `RedeliveredIsProcessed` assumes of the forge that it posts a
delivery again and again under a secret that stays right (strong fairness of
verified posts), which is what an operator who redelivers does; without it a
delivery whose handler was cut off stays unprocessed, since nothing here works
the ledger off by itself. That one delivery is not processed twice is what
`docs/local-alpha.md:164` asks of the end-to-end run; `RepeatsAreFaults` says how
far it goes under faults.

## 4. Disagreements found

Each is reproduced by a configuration of its name that checks one property and
ends in a counterexample: `tlc -config X.cfg M`. They are not among the runs of
`PROJECT.json`, whose findings quote the sentence of the code that each
contradicts.

| configuration, module | property | what happens |
|---|---|---|
| `BranchConsumesJob`, `MCEnforcement` | `NoJobMeansPublished` | converging one branch completes the job another branch's freeze needs |
| `StaleRecovery`, `MCEnforcement` | `OnlyActivationActivates` | a recovery that loaded `unhealthy` re-activates a repository deactivated since |
| `ReadinessLosesJob`, `MCEnforcement` | `UnhealthyHasJob` | a readiness failure during a convergence: unhealthy, and the job is gone |
| `SuppressionOutlives`, `MCBranchFreezes` | `WindowsResume` | a window added after its neighbour was ended by hand is merged with it, starts "before" `suppressed_until`, and never freezes the branch |
| `UnclaimedSync`, `MCSharedHeads` | `SharedHeadIsGated` | an approval's listing, taken before a pull request was opened, closes the row that its webhook has cached since; the approval publishes a success for the head the new pull request shares |
| `StaleRowDecides`, `MCSharedHeads` | `NotOverBlocked` | a pull request leaves a head it blocked: the head is decided with the row from before, stays blocked, and the job is completed |
| `AnotherRepository`, `MCAccessObserver` | `AnsweredByItsRepository` | a repository is renamed after the last listing and another takes its locator: the permission on the replacement is published as evidence about the bound repository |

`Enforcement` shows three more interleavings of an activation that its
properties are stated around (the instances that check them have one handler or
leave `activate` out): an activation that fails writes its result
(`ready` or `setup_incomplete`) over a concurrent one that succeeded; one that
fails to synchronise writes `ready` although the token was replaced meanwhile;
and a branch added between an activation's readiness check and its `markActive`
is enforced unverified.

Two more disagreements are known and have no run of their own. A relabelled
freeze is never republished: `UpdateMaterializedAttribution` enqueues nothing,
so `convergeFreeze` finds no job and the old label stays in the status until
other work comes (`NoJobMeansPublished` of `Enforcement` fails as soon as
relabelling is among its `Kinds`). A webhook that is refused its claim asks for
work first and caches afterwards (`webhook/pull_request.go:131-134`): whoever
claims that work between the two decides without the pull request and completes
the job. `SharedHeadIsGated` fails for this too, with two changes on the forge
and no operation at all (`Kinds = {}`, `MaxMoves = 2`).

`BranchFreezes` shows behaviours that last at most one tick, which its
properties are stated around: a materializer that read the coverage before an
operator ended or paused it freezes the branch again, until its next tick ends
that freeze (`EndedWindowsStayEnded` has the exception, `Settles` the repair);
cancelling a materialized freeze (`Cancel`) suppresses nothing, so its schedule
freezes the branch again; pausing one schedule thaws a branch that another
still covers until the next tick.

## 5. Proofs

`ReconciliationJobsProofs` proves, for any set of workers, any lease and any
bounds, that `IInv` is inductive, and from it `NoLostRequest`,
`OneCurrentClaim` and the step simulation of `LeasedJob`.

`NoLostRequest` alone is not inductive: a completion deletes the row, so one
must know that a claim that still owns the row has seen every request
(`GenerationMarksNewWork`), which fails if two claims can carry the same token
(the id and generation of a re-inserted row may coincide with an old claim's).
Tokens differ because leases do not overlap (`LeasesApart`), which must be
related to the row (`LockIsLatest`): the token in the row belongs to the
latest claim, and a row that is unlocked or gone was so only after every held
claim had outlived its lease. `ClockOrder` keeps times in the past.

`BranchFreezesProofs` proves, for any number of rows, schedules and operators,
any windows, clock and horizon, that `IInv` of `BranchFreezes` is inductive,
and from it every invariant and action property of the run except liveness.
The argument has three layers. The coverage operators choose elements that
exist: a maximal run of a finite set of hours (`RunEndExists`,
`RunStartExists`) and a winning schedule (`WinnerExists`), from least and
greatest elements of finite sets. Each action changes at most one row, in one
of six ways (`RowChanges`: close, plan, insert, edit, activate, relabel), each
with the guard it needs. Then the conjuncts follow from the row step alone:
one active row because inserting and activating need a free branch;
`OwnedFreezes` because deleting closes the linked row and relabelling checks
that the schedule exists; `EndsTakeTheRightRoute` because no active row's
`schedule_id` ever becomes or stops being NULL. That last fact needs the
strengthening: `OriginsFit` and `RequestsHoldTheirRow` relate what a request
holds to what the row has become, `DecisionsAreAboutSchedulesRows` and
`DecisionsFitTheReading` do so for the materializer's decision.

Its second part proves `RecurrenceIsExact` for every zone, calendar, span and
form, and any lengths of the day and the week. It is a statement about functions,
so there is no invariant; the argument goes from walls to pages:

1. *Walls.* A wall has the readings that the zone's two offsets give it, the
   probes find both, and the scan of a gap ends where the clock was put forward
   (`WallInstantsAre`, `FirstValidIs`). So `resolveWall` is `StartOf` or `EndOf`,
   three cases each, and the calendar-free `Within` holds exactly between them
   (`ResolveWallIs`, `WithinIs`).
2. *Rules.* An occurrence lasts at least a tick and at most a week, so the dates
   that are walked, from `RuleWrapDays` + 1 before the first, are all that can
   reach the window (`LengthIs`, `DatesReach`), and those that `Covers` looks at are
   all that can cover an instant (`CoversIs`). `DatesReach` is where a second
   showing of a date would hurt.
3. *Merging.* Every segment is taken in by a block, a block is covered from end to
   end (the next segment after a hole would start a block), and a block ends before
   the next starts (`BlockTakesIn`, `MergeIsUnion`). Sets of segments are finite,
   so the least and greatest elements that the definitions choose are there.
4. *Pages.* Coverage of a calendar is then four facts about its segments
   (`CoverageIs`), and from these alone follow the exactness of the expansion, next
   starts, suppression and the strip of days. For names, the covering
   schedules change only at a cut, and a cut that was dropped changed no name
   (`NamedByCovering`, `SlicesAreNamed`). For the strip, `time.Date` reads its own
   results back as themselves and never puts a later day earlier (`DateReads`,
   `LaterDayLater`).
5. *Hours.* A segment between which and its neighbours there is an uncovered
   instant is the run of its hours (`SegmentIsRun`), and of finitely many
   schedules exactly one outranks the others (`WinnerWins`), so the abstraction on
   which the first part rests loses nothing (`HoursAlwaysSuffice`).

No induction over data is needed: where the code walks a list, the proof takes a
least or greatest element.

`SharedHeadsProofs` proves, for any number of pull requests, branches, heads and
sessions, that `IInv` is inductive, and from it `TypeOK`, `DecisionsAreCurrent` and
`ThawsAreShown`. What carries the argument is that every change of policy
enqueues. `StepsChangeJobs` reduces each step to what it does to the job (keeps
it, asks for work, takes or leaves a claim, lets a lease run out), and
`HoldsOnlyFades` shows that a session never comes to hold the job by what others do and
loses it to any request. So a verdict computed under a claim that is still current
is today's (`VerdictsFit`). This needs that a token is never shared by two claims and
that no claim is ahead of the row (`ClaimsFit`).

Its second half proves that a reconciliation is exact: when the runner
finishes and no newer work keeps the job, every head has the status it deserves,
whatever crashed before. Its invariant `RInv` adds that the holder of the claim is alone
(`HoldersAlone`, `ClaimsHeld`), so that no other session posts; that the last
delivery about a pull request is the pull request itself (`DeliveriesFit`), so that
a webhook without a claim can only bring the cache closer to the forge; and what
an *undisturbed* reconciliation has achieved at each step (`RunnerFit`): its
listing is what is on the forge, the cache agrees with it, and each head is
right already, planned, or being decided. A step that would spoil this either asks
for work, which ends the claim, or leaves a delivery in a queue, or marks a pull
request in `raced`; the theorem says nothing of such reconciliations, and
`UnclaimedSync` shows that the last exception is needed.

`EnforcementProofs` proves, for any number of handlers, branches and operations,
the safety properties of `Enforcement`. Three layers: *Shape* is what one
session's program counter, operation, claim, snapshot and work list say of one
another, and holds whatever the others do; *Leased* says that who holds a claim
holds the lease in the row, so that there is one holder; *Healthy*, *Apart* and
*Published* relate that holder to the state, the freezes and the statuses. The
theorems state the scope in which the code keeps what they say:

| hypothesis | meaning | what happens outside of it |
|---|---|---|
| `Prompt` | leases are not overrun | a fence is checked before a post and not by it (section 3) |
| `NoActivations`, or `OneHandler` | no activation runs beside another operation | an activation that fails overwrites the state (section 4) |
| `OneBranch` | one branch | `BranchConsumesJob` |
| `NoReadiness` | no readiness check demotes | `ReadinessLosesJob` |
| `"relabel"` not among `Kinds` | freezes keep their label | a relabel asks for nothing (section 4) |

The two runs of `Enforcement` satisfy each theorem's hypotheses where they check
its property. `TypeCorrect`, `OnlyActivationsLoseFreezes` (the one exception to
`FreezesAreEnforced`) and `VerificationStaysCurrent` have no hypothesis at all.
The conjunction that is inductive was checked by TLC on three instances (350
thousand, 138 thousand and 61 thousand states) before it was proved.

`AccountsProofs` proves the four properties of `Accounts`, without hypothesis,
for any number of addresses, sessions, grants and requests in flight. Its
invariant says nothing of `requests`: no lemma needs what a request read before
its transaction, which is the property of the code that makes it right. What
has to be added to the properties is that tokens are minted once (`Numbered`),
are in one row (`TokensAreDistinct`), and that somebody is there to invite.
The second half adds the company connection. There a call does carry what it
read, and the proof rests on what the committing transaction compares: the
revision of the draft and the generation of the enabling, both of which move
with whatever they stand for (`EnabledIsReady`, `EvidenceIsCurrent`,
`LoginsAreFenced`), and that sign-in that is off leaves neither sessions nor
logins. `LinkedIsFound` is the strengthening: an identity is linked only while
there is a connection.

`WebhookDeliveriesProofs` proves both invariant and action property of the
ledger. A claim is one handler's (`ClaimsFit`: a claim that was made and not
read back is the newest of its row, and no two handlers have read the same).
`EffectsAreOwed` counts what a delivery may still cause: the effects it has had,
the handlers about to have one, and the claim that may still be made without a
fault, are together at most one more than the faults there were. A fault is a
hangup, a failure, or a handler that outlasts its claim.

`ForgeConnectionProofs` proves that bindings, evidence and forms stay sound, up
to and including the largest revision. `EvidenceIsPast` carries it: evidence is
never ahead of the counters it is compared with, so that an edit or a
reservation makes it old at once. That a freshly bound pair is shown as current
rests on `BoundIsConsumed`: whatever a bound row accounts for is not offered.
Its second part proves `ObservationsAreShown` and `AttemptsAreFinal` of
`AccessShadow`. `CoversScope` is the strengthening: while a revision is in
force, the users and repositories of today are among those a snapshot covers.
Revisions alone do not pin them down, since a removal at the largest revision
leaves it as it is; that the page also compares how many there are makes the
two sets equal. `RunsAreRetained` is what retention leaves (at most one running
row, the newest; one complete row; one other), and `CompleteIsObserved` that the
complete row is the one the observations are of. No assumption is made that the
tables are finite: links and bindings are made one at a time.

Its third part proves that every linked account is of the installation that is
there and was linked by its owner. A ceremony's row is there only while
the client it was started with is (`CeremoniesAreCurrent`), which is why a
callback that returns late finds nothing to commit on.

`AccessObserverProofs` proves, for any number of users, repositories, teams and
pages, any limits and any edits of the forge between two requests, the safety
properties of `AccessObserver`. `ObserverInv` has three parts. The *budget*:
while identities are resolved, the requests that are left cover a fallback for
each one that still needs it and a permission for each pair that may get that
far; each step spends at most what it takes off that sum (`ResolveKeepsBudget`,
`PutKeepsInv`), so a refusal there contradicts it (`BudgetLasts`), however the
forge moves. *Injectivity* is what a merge without a conflict preserves. And
*truth*, while nobody edits the forge (`GraphIsTrue`): after each listing the
graph agrees with the forge on what that listing is about. A listing is known to
be complete by counting: the ids that were seen are among the listed ones, and
there are as many (`LastPageHasAll`), in whatever way they fell into pages.
`HiddenHaveTheirOldName` is why the fallback is enough: who is in no listing and
can be found at all still has the login it was linked by. `AnswersAreTrue` and
`EdgesAreTrue` then compare the answer with the forge, case by case. The
assumption `ObserverAssumption` says of the forge what a forge keeps: no two
accounts have one login and no two repositories one locator.

Every inductive invariant was first checked as an invariant of a run of TLC: 1.7
million states for `Accounts`, 2.0 million for `CompanyLogin`, 2.9 million for
`WebhookDeliveries` with three handlers, 260 thousand for `ForgeConnection`, 2.6
million for `ForgeIdentity`, 2.0 million for `AccessShadow`, 1.7 million for
`AccessObserver`. Two constants
needed an assumption that the models had left open: `None` is no member of the
sets whose absence it stands for (`ForgeAssumption`), and a company connection's
first revision is within `MaxRevision` (`CompanyAssumption`).

The proofs use the same abstractions as the runs, and the bounds on operations
are any natural numbers. Leases are kept in `SharedHeads` (section 3); in
`Enforcement` that is a hypothesis where it is needed.

Only model-checked are: liveness under fairness (`Settles` of `Enforcement` and
`BranchFreezes`, `RedeliveredIsProcessed`, `SnapshotEnds`), which the prover does
not reach. `SharedHeadIsGated` and `NotOverBlocked` fail (section 4).

## 6. Plan

Done: every module of section 2 is model-checked, and all of them have proofs of
the safety properties that their runs check. Next, in this order:

1. That `Enforcement` and `SharedHeads` use `JobRow` as a refinement of
   `LeasedJob`.
2. Failing calls in `SharedHeads`, and `SharedHeadIsGated` for the instances
   without an unclaimed synchronisation.

## 7. Not modelled

Start, stop and fatal errors of the workers (`app_lifecycle.go`): a worker that
stops is a crash of its sessions in the other modules. Rendering and HTTP
routing, the preview data, the forge's JSON and HTTP, encryption,
configuration, migrations and the audit log, on whose contents no behaviour
depends. Parsing of names, dates and claims; rate limits; the descriptions and
records of statuses; the limit of 25 rows per listing of the lifecycle runner,
whose starvation needs 26 due freezes; deliveries of one pull request that arrive out
of order; expiry of a thaw, which the approval never sets. The two largest
files that the modules touch only in part are `web/server.go` and
`web/dev_preview.go`: they hold pages.
