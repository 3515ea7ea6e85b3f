------------------------------ MODULE AccessShadow ------------------------------
(***************************************************************************)
(* Snapshots of who may reach which repository on the forge                 *)
(* (internal/forgeconnection/access_shadow*.go and the runner in            *)
(* internal/app/forge_access_shadow_runner.go).                            *)
(*                                                                         *)
(* An attempt reserves a row over the linked identities and the bound       *)
(* repositories, asks the forge for up to a minute, and publishes one       *)
(* observation for each pair if its row still runs and its scope is what it *)
(* reserved.  An administrator starts attempts by hand, a runner when the   *)
(* schedule is due; the connection, the bindings and the identities of      *)
(* ForgeConnection move meanwhile, and an attempt nobody finishes is        *)
(* interrupted by the next one once its row is 75 seconds old.              *)
(*                                                                         *)
(* Time is reduced to what is compared: whether a running row is young, and *)
(* whether the due time has come.  A row stores how many identities and     *)
(* repositories it covers; here it keeps the sets the attempt carries.      *)
(* ForgeIdentity's steps are reduced to a link made and a link removed.     *)
(***************************************************************************)
EXTENDS ForgeConnection

CONSTANTS MaxRuns,    \* bound: attempts ever reserved
          IdentityLimit, RepositoryLimit, PairLimit   \* AccessShadowIdentityLimit, ...

ASSUME ShadowAssumption == /\ MaxRuns \in Nat
                            /\ {IdentityLimit, RepositoryLimit, PairLimit} \subseteq Nat \ {0}

VARIABLES runs,         \* forge_access_shadow_runs
          issued,       \* the AUTOINCREMENT sequence of its ids
          observations, \* forge_access_shadow_observations
          periodic,     \* forge_access_shadow_periodic_config
          executing     \* attempts between their reservation and finalizeRun

runVars == <<runs, issued, executing>>
shadowVars == <<runVars, observations, periodic>>
snapshotVars == <<vars, shadowVars>>

Unobserved == [run |-> 0, confirmed |-> 0]
Disabled == "disabled"   \* next_due_at is NULL
NoPeriodic == [revision |-> 0, due |-> Disabled]
\* "failed" stands for every result that publishes nothing, interrupted among
\* them, but the one that says that the scope moved.
Results == {"running", "complete", "failed", "scope_changed"}

ShadowInit == /\ Init
              /\ runs = {} /\ issued = 0 /\ executing = {}
              /\ observations = [p \in Users \X Repos |-> Unobserved]
              /\ periodic = NoPeriodic

-----------------------------------------------------------------------------
(* What the transactions read.                                              *)

People == {u \in Users : Linked(u)}
BoundRepos == {r \in Repos : bindings[r] # None}
\* accessShadowScopeWithinLimits
WithinLimits(people, repos) == /\ Cardinality(people) <= IdentityLimit
                               /\ Cardinality(repos) <= RepositoryLimit
                               /\ Cardinality(people) * Cardinality(repos) <= PairLimit

\* Nothing of accessShadowPeriodicBlockers, and what reserveRun checks.
Unblocked == /\ Bound /\ Observed
             /\ People # {} /\ BoundRepos # {} /\ WithinLimits(People, BoundRepos)

NewestOf(S) == {x \in S : \A y \in S : y.id <= x.id}
Terminal(S) == {x \in S : x.result # "running"}
Complete(S) == {x \in S : x.result = "complete"}

\* The newest attempt keeps others out while it runs and is young.
Excluded == \E x \in NewestOf(runs) : x.result = "running" /\ x.young

-----------------------------------------------------------------------------
(* Rows.                                                                    *)

\* applyAccessShadowRetention; the variant forgets the evidence.
RetainedNewest(S) == (S \ Terminal(S)) \cup NewestOf(Terminal(S))
Retained(S) == (S \ Terminal(S)) \cup NewestOf(Terminal(S)) \cup NewestOf(Complete(S))

Ended(S, x, result) == Retained((S \ {x}) \cup {[x EXCEPT !.result = result, !.young = FALSE]})

\* terminalizeAccessShadowOrphan, when the newest attempt is an orphan.
Recovered(S) == LET Orphans == NewestOf(S) \ Terminal(S)
                IN IF Orphans = {} THEN S
                   ELSE Ended(S, CHOOSE x \in Orphans : TRUE, "failed")

Reserve(trigger) ==
    /\ Found /\ Unblocked /\ ~Excluded /\ issued < MaxRuns
    /\ issued' = issued + 1
    /\ LET row == [id |-> issued', connection |-> connection.id, trigger |-> trigger,
                   config |-> connection.revision, generation |-> connection.generation,
                   binding |-> connection.binding, identity |-> connection.identity,
                   people |-> People, repos |-> BoundRepos,
                   result |-> "running", young |-> TRUE]
       IN /\ runs' = Recovered(runs) \cup {row}
          /\ executing' = executing \cup {row}

ReserveManual == Reserve("manual") /\ UNCHANGED <<vars, observations, periodic>>

-----------------------------------------------------------------------------
(* The end of an attempt.                                                   *)

\* finalizeRun looks for the row it reserved, still running.
RunsOf(c) == {x \in runs : x.id = c.id}
RunningRow(c) == {x \in RunsOf(c) : x.result = "running"}

SameRevisions(c) == /\ connection.id = c.connection /\ connection.revision = c.config
                    /\ connection.generation = c.generation
                    /\ connection.binding = c.binding /\ connection.identity = c.identity
\* accessShadowScopeUnchanged.
ScopeUnchanged(c) == SameRevisions(c) /\ People = c.people /\ BoundRepos = c.repos

Pairs(c) == c.people \X c.repos
Observation(c, p, confirmed) ==
    [run |-> c.id, confirmed |-> IF p \in confirmed THEN c.id ELSE observations[p].confirmed]

\* A completed manual snapshot postpones the next periodic one to five minutes
\* after its start, which an attempt that was held up may have passed already.
Postponed(x) ==
    {IF x.trigger # "manual" \/ periodic.due # "due" THEN periodic.due ELSE due :
        due \in IF x.young THEN {"later"} ELSE {"later", "due"}}

\* The forge answered about every pair, and the scope is the one reserved.
Publish(c, confirmed) ==
    /\ c \in executing /\ ScopeUnchanged(c)
    /\ \E x \in RunningRow(c) :
          /\ runs' = Ended(runs, x, "complete")
          /\ \E due \in Postponed(x) : periodic' = [periodic EXCEPT !.due = due]
    /\ observations' = [p \in Users \X Repos |-> IF p \in Pairs(c) THEN Observation(c, p, confirmed)
                                                               ELSE observations[p]]
    /\ executing' = executing \ {c}
    /\ UNCHANGED <<vars, issued>>

\* The forge refused or was cut off, or the scope moved: nothing is published.
FinishEmpty(c, result) ==
    /\ c \in executing
    /\ result = "scope_changed" <=> ~ScopeUnchanged(c)
    /\ \E x \in RunningRow(c) : runs' = Ended(runs, x, result)
    /\ executing' = executing \ {c}
    /\ UNCHANGED <<vars, issued, observations, periodic>>

\* Another attempt interrupted this one, or its finalization failed, or the
\* process stopped: whatever row it has stays.
AbandonRun(c) ==
    /\ c \in executing /\ executing' = executing \ {c}
    /\ UNCHANGED <<vars, runs, issued, observations, periodic>>

-----------------------------------------------------------------------------
(* The periodic schedule.                                                   *)

EnablePeriodic ==
    /\ Found /\ periodic.due = Disabled /\ Unblocked
    /\ Advances(periodic.revision)
    /\ periodic' = [revision |-> periodic.revision + 1, due |-> "later"]
    /\ UNCHANGED <<vars, runVars, observations>>

\* Leaves a running attempt alone, and needs no prerequisite.
DisablePeriodic ==
    /\ Found /\ periodic.due # Disabled /\ Advances(periodic.revision)
    /\ periodic' = [revision |-> periodic.revision + 1, due |-> Disabled]
    /\ UNCHANGED <<vars, runVars, observations>>

\* The runner is one goroutine: it scans between its own attempts.
RunnerIdle == \A c \in executing : c.trigger # "periodic"
Rescheduled == [periodic EXCEPT !.due = "later"]

ReservePeriodic ==
    /\ RunnerIdle /\ periodic.due = "due" /\ Reserve("periodic")
    /\ periodic' = Rescheduled
    /\ UNCHANGED <<vars, observations>>

ScanBlocked ==
    /\ RunnerIdle /\ periodic.due = "due"
    /\ ~Unblocked \/ Excluded
    /\ periodic' = Rescheduled
    /\ UNCHANGED <<vars, runVars, observations>>

\* A reservation that fails is rolled back to its savepoint, and still advances.
ScanFails ==
    /\ RunnerIdle /\ periodic.due = "due"
    /\ periodic' = Rescheduled
    /\ UNCHANGED <<vars, runVars, observations>>

Scan == ReservePeriodic \/ ScanBlocked \/ ScanFails

\* Time: 75 seconds since a row was reserved, and the due time.
Ages == /\ \E x \in runs : x.young /\ runs' = (runs \ {x}) \cup {[x EXCEPT !.young = FALSE]}
        /\ UNCHANGED <<vars, issued, executing, observations, periodic>>
DueArrives == /\ periodic.due = "later" /\ periodic' = [periodic EXCEPT !.due = "due"]
              /\ UNCHANGED <<vars, runVars, observations>>

-----------------------------------------------------------------------------
(* What moves the scope, and what goes with it.                             *)

Without(gone) == [p \in Users \X Repos |-> IF p \in gone THEN Unobserved ELSE observations[p]]

LinkIdentity(u) ==
    /\ Found /\ ~Linked(u) /\ Advances(connection.identity)
    /\ identities' = [identities EXCEPT ![u] =
          [account |-> CHOOSE a \in Accounts : TRUE, connection |-> connection.id,
           url |-> connection.url]]
    /\ connection' = [connection EXCEPT !.identity = @ + 1]
    /\ UNCHANGED <<created, evidenceVars, bindingVars, oauth, links, shadowVars>>

\* At the largest revision a removal leaves the revision as it is.
RemoveIdentity(u) ==
    /\ Linked(u)
    /\ identities' = [identities EXCEPT ![u] = Unlinked]
    /\ connection' = [connection EXCEPT !.identity = IF Advances(@) THEN @ + 1 ELSE @]
    /\ observations' = Without({u} \X Repos)
    /\ UNCHANGED <<created, evidenceVars, bindingVars, oauth, links, runVars, periodic>>

UnbindShadow(r) == /\ Unbind(r) /\ observations' = Without(Users \X {r})
                   /\ UNCHANGED <<runVars, periodic>>
ResetShadow == /\ Reset /\ runs' = {} /\ periodic' = NoPeriodic
               /\ observations' = Without(Users \X Repos) /\ UNCHANGED <<issued, executing>>

ScopeStep ==
    \/ \E u \in Users : LinkIdentity(u) \/ RemoveIdentity(u)
    \/ \E r \in Repos : UnbindShadow(r)
    \/ ResetShadow
    \/ /\ \/ \E url \in Urls : Create(url) \/ Edit(url)
          \/ CheckStep
          \/ \E r \in Repos, m \in Remotes : Bind(r, m)
          \/ \E r \in Repos, n \in Names : AddRepository(r, n)
       /\ UNCHANGED shadowVars

Finish == \E c \in executing :
    \/ \E confirmed \in SUBSET Pairs(c) : Publish(c, confirmed)
    \/ \E result \in {"failed", "scope_changed"} : FinishEmpty(c, result)
    \/ AbandonRun(c)

\* The forms of the page: a snapshot now, and the schedule on or off.
ShadowForm == ReserveManual \/ EnablePeriodic \/ DisablePeriodic

ShadowNext == \/ ShadowForm \/ Finish
              \/ Scan \/ Ages \/ DueArrives \/ ScopeStep
ShadowSpec == ShadowInit /\ [][ShadowNext]_snapshotVars

-----------------------------------------------------------------------------
(* The page.                                                                *)

\* accessShadowRunScopeCurrent; the check generation is left out on purpose.
CurrentByRevision(x) == /\ connection.revision = x.config /\ connection.binding = x.binding
                        /\ connection.identity = x.identity
ShownCurrent(x) == /\ CurrentByRevision(x)
                   /\ Cardinality(People) = Cardinality(x.people)
                   /\ Cardinality(BoundRepos) = Cardinality(x.repos)

\* It has queries of its own, which join the users' and the repositories' rows.
LinkedUsers == {u \in Users : Linked(u)}
BoundRepositories == {r \in Repos : bindings[r] # None}
NewestRun(completeOnly) == NewestOf(IF completeOnly THEN Complete(runs) ELSE runs)

\* The pairs it lists, and the snapshot it calls current.
Listed == LinkedUsers \X BoundRepositories
Shown == {x \in NewestRun(TRUE) : ShownCurrent(x)}

\* The latest attempt, by its row and the clock alone.
AttemptStatus(x) ==
    CASE x.result = "running" -> IF x.young THEN "running" ELSE "interrupted"
      [] x.result = "scope_changed" -> "superseded"
      [] x.result = "complete" -> "completed"
      [] OTHER -> "failed"
Running(x) == AttemptStatus(x) = "running"
\* Overdue is due for longer than 30 seconds.
DueStatus ==
    CASE \E x \in NewestRun(FALSE) : x.trigger = "periodic" /\ Running(x) -> "running"
      [] OTHER -> CASE periodic.due = Disabled -> "not_scheduled"
                    [] periodic.due = "later" -> "scheduled"
                    [] OTHER -> "due"

\* It offers a new snapshot.
ViewReady == /\ Found /\ Bound /\ Observed
             /\ LinkedUsers # {} /\ BoundRepositories # {}
             /\ WithinLimits(LinkedUsers, BoundRepositories)
             /\ \A x \in NewestRun(FALSE) : ~Running(x)

\* What loadAccessShadowObservations takes for malformed fails the whole page:
\* an unknown observation may keep an earlier confirmation only.
Readable(o) == o.run > 0 /\ o.confirmed <= o.run

-----------------------------------------------------------------------------
\* Rows stay in their domain, belong to the connection that is there, and at
\* most one of them runs: the newest.
ShadowTypeOK ==
    /\ \A x \in runs :
          /\ x.id \in 1..issued /\ x.connection = connection.id /\ x.result \in Results
          /\ x.identity \in Revision \ {0} /\ x.people # {} /\ x.repos # {}
          /\ x.young => x.result = "running"
          /\ x.result = "running" => x \in NewestOf(runs)
    /\ Cardinality(runs) <= 3
    /\ periodic \in [revision : Revision, due : {Disabled, "later", "due"}]
    /\ observations \in [Users \X Repos -> [run : 0..issued, confirmed : 0..issued]]

\* A snapshot the page calls current covers exactly the pairs the page lists,
\* and each of them carries that snapshot's observation.
CurrentCoversPairs ==
    \A x \in Shown : /\ Listed = Pairs(x)
                     /\ \A p \in Listed : observations[p].run = x.id

\* Observations rest on a link and a binding that are there, and what an unknown
\* one keeps was confirmed by an earlier attempt.
ObservationsAreLive ==
    \A p \in Users \X Repos : observations[p] # Unobserved =>
        /\ p \in Listed
        /\ Readable(observations[p])
        /\ \E x \in Complete(runs) : observations[p].run <= x.id

\* The page offers a snapshot exactly when the reservation would admit one, and
\* says of the schedule that it runs only while nobody else may.
OfferedIsReservable == /\ ViewReady <=> Found /\ Unblocked /\ ~Excluded
                       /\ DueStatus = "running" => Excluded /\ ~ViewReady

\* What an attempt ended as is final, and the newest snapshot goes only for a
\* newer one or with the connection, however many attempts fail after it.
SnapshotsAreKept ==
    [][/\ \A x \in Terminal(runs), y \in runs' : x.id = y.id => x = y
       /\ connection'.id = connection.id =>
             \A x \in NewestOf(Complete(runs)) : \E y \in Complete(runs') : y.id >= x.id]_snapshotVars

\* No attempt overwrites what a later one observed, and a confirmation is lost
\* only with its pair.
ObservationsMoveForward ==
    [][\A p \in Users \X Repos : \/ observations'[p] = Unobserved
                                 \/ /\ observations'[p].run >= observations[p].run
                                    /\ observations'[p].confirmed >= observations[p].confirmed]_snapshotVars

\* The schedule is switched on and off by its form alone, which moves the
\* revision other forms compare: no attempt that ends late turns it on again.
SwitchedByForm ==
    [][(periodic.due = Disabled) # (periodic'.due = Disabled)
         => periodic'.revision # periodic.revision]_snapshotVars

\* What the page shows of access is what an attempt observed of the links and
\* bindings of today.
ObservationsAreShown ==
    ShadowTypeOK /\ CurrentCoversPairs /\ ObservationsAreLive /\ OfferedIsReservable

\* Attempts end once, in order, and none takes back what a later one found or
\* an administrator decided.
AttemptsAreFinal == SnapshotsAreKept /\ ObservationsMoveForward /\ SwitchedByForm
=============================================================================
