---------------------------- MODULE BranchFreezes ----------------------------
(***************************************************************************)
(* The freezes of ONE branch: the rows of branch_freezes, the recurring    *)
(* schedules that freeze the branch, the operators who change both, and    *)
(* the goroutine of freeze_lifecycle_runner.go that every 15 seconds       *)
(* activates due one-time freezes, ends due ones and lets the materializer *)
(* make the branch follow its schedules.  One step is one transaction or   *)
(* one read outside a transaction.                                         *)
(*                                                                         *)
(* Abstracted: time is counted in hours; a window is the set of hours it   *)
(* covers, so that touching windows merge by union; names, reasons and the *)
(* needs_recompute flag (whose retry does nothing once convergence is      *)
(* wired) are left out; a closed row keeps its status only, since nothing  *)
(* reads its other columns again.                                          *)
(***************************************************************************)
EXTENDS Integers, FiniteSets

CONSTANTS
  FreezeIds,    \* row ids of branch_freezes, 1..n
  ScheduleIds,  \* row ids of schedules, 1..m: a higher id was created later
  Dated,        \* the schedules of kind "dated"; the others are "weekly"
  Windows,      \* the rules and date windows a schedule may be given
  StartFreezes, \* the rows the branch starts with
  StartSchedules,
  Operators,    \* operators whose two-step requests may overlap
  MaxTime,      \* bound on the clock
  Horizon,      \* CoverageHorizon: coverage reaching it has no planned end
  MaxOps,       \* bound on the changes operators make
  MaxFaults     \* bound on failed runner steps and enforcement outages

Times == 0..MaxTime
Hours == 0..(MaxTime - 1)

(* A time of 0 stands for NULL, as does a schedule id of 0. *)
Freeze == [status : {"none", "scheduled", "active", "ended", "cancelled"},
           origin : {"none", "manual", "planned", "schedule"},
           sched : {0} \cup ScheduleIds,
           start : Times, planned : Times, version : Nat]
Schedule == [status : {"none", "paused", "active"},
             windows : SUBSET Windows, until : Times]

NoFreeze == [status |-> "none", origin |-> "none", sched |-> 0,
             start |-> 0, planned |-> 0, version |-> 0]

ASSUME IdsAssumption ==
  /\ FreezeIds \subseteq Nat \ {0}
  /\ ScheduleIds \subseteq Nat \ {0} /\ IsFiniteSet(ScheduleIds)
ASSUME KindsAssumption == Dated \subseteq ScheduleIds
ASSUME TimeAssumption == MaxTime \in Nat \ {0} /\ Horizon \in Nat \ {0}
ASSUME WindowsAssumption == Windows \subseteq (SUBSET Hours) \ {{}}
ASSUME StartAssumption ==
  /\ StartSchedules \in [ScheduleIds -> Schedule]
  /\ StartFreezes \in [FreezeIds -> Freeze]
  /\ \A i \in FreezeIds : StartFreezes[i] = NoFreeze \/
       /\ StartFreezes[i].status = "scheduled" /\ StartFreezes[i].origin = "planned"
       /\ StartFreezes[i].sched = 0
ASSUME LimitsAssumption == MaxOps \in Nat /\ MaxFaults \in Nat

VARIABLES
  now,        \* the clock
  enforced,   \* the repository's enforcement is active
  freezes,    \* the rows of branch_freezes
  schedules,  \* the rows of schedules, with their windows
  asked,      \* a reconciliation was enqueued since the last one completed
  session,    \* session[o]: the row operator o has loaded and not yet changed
  runner,     \* the runner's next step
  queue,      \* the due rows it listed and has still to handle
  read,       \* the coverage the materializer read, and when
  decision,   \* what it decided
  ops, faults

vars == <<now, enforced, freezes, schedules, asked, session, runner, queue,
          read, decision, ops, faults>>

Decision == [action : {"none", "create", "end", "update"},
             id : {0} \cup FreezeIds, sched : {0} \cup ScheduleIds, planned : Times]

NoSchedule == [status |-> "none", windows |-> {}, until |-> 0]
NoSession == [kind |-> "none", id |-> 0, row |-> NoFreeze]
NothingRead == [at |-> 0, schedules |-> [s \in ScheduleIds |-> NoSchedule]]
NoDecision == [action |-> "none", id |-> 0, sched |-> 0, planned |-> 0]

TypeOK ==
  /\ now \in Times /\ enforced \in BOOLEAN /\ asked \in BOOLEAN
  /\ freezes \in [FreezeIds -> Freeze]
  /\ schedules \in [ScheduleIds -> Schedule]
  /\ session \in [Operators -> [kind : {"none", "end", "edit"},
                                id : {0} \cup FreezeIds, row : Freeze]]
  /\ runner \in {"idle", "starts", "ends", "decide", "act"}
  /\ queue \subseteq FreezeIds
  /\ read \in [at : Times, schedules : [ScheduleIds -> Schedule]]
  /\ decision \in Decision
  /\ ops \in Nat /\ faults \in Nat

Init ==
  /\ now = 0 /\ enforced = TRUE /\ asked = FALSE
  /\ freezes = StartFreezes
  /\ schedules = StartSchedules
  /\ session = [o \in Operators |-> NoSession]
  /\ runner = "idle" /\ queue = {} /\ read = NothingRead /\ decision = NoDecision
  /\ ops = 0 /\ faults = 0
-----------------------------------------------------------------------------
(* Coverage: ExpandCoverage and Decide *)

(* The merged segments of a set of hours are its maximal runs. *)
RunStart(hours, h) == CHOOSE a \in hours : a <= h /\ a..h \subseteq hours /\ a - 1 \notin hours
RunEnd(hours, h) == 1 + CHOOSE b \in hours : b >= h /\ h..b \subseteq hours /\ b + 1 \notin hours

Cover(sch) == IF sch.status = "active" THEN UNION sch.windows ELSE {}

EligibleIgnoringSuppression(sch) == Cover(sch)

(* eligibleSegments: a segment that starts before suppressed_until does *)
(* not count.                                                              *)
Eligible(sch) ==
  {h \in Cover(sch) : sch.until = 0 \/ RunStart(Cover(sch), h) >= sch.until}

Outranks(a, b) == IF (a \in Dated) # (b \in Dated) THEN a \in Dated ELSE a > b

(* attributingSchedule *)
Winner(covering) == CHOOSE s \in covering : \A r \in covering \ {s} : Outranks(s, r)

PlannedEnd(block, at) ==
  LET end == RunEnd(block, at) IN IF end < at + Horizon THEN end ELSE 0

(* ScheduleID is nil: the operator's row. *)
Manual(id) == id # 0 /\ freezes[id].sched = 0

(* Decide, for the coverage sch read at time at and the live row id (0: none). *)
Decide(at, sch, id) ==
  LET covering == {s \in ScheduleIds : at \in Eligible(sch[s])}
      block == UNION {Eligible(sch[s]) : s \in ScheduleIds}
  IN  IF Manual(id) \/ (id = 0 /\ covering = {}) THEN NoDecision
      ELSE IF covering = {} THEN [NoDecision EXCEPT !.action = "end", !.id = id]
      ELSE LET winner == Winner(covering)
               planned == PlannedEnd(block, at)
           IN  IF id = 0
                 THEN [action |-> "create", id |-> 0, sched |-> winner, planned |-> planned]
               ELSE IF winner = freezes[id].sched /\ planned = freezes[id].planned
                 THEN NoDecision
               ELSE [action |-> "update", id |-> id, sched |-> winner, planned |-> planned]
-----------------------------------------------------------------------------
(* The rows *)

Active == {i \in FreezeIds : freezes[i].status = "active"}
Frozen == Active # {}
Live == IF Active = {} THEN 0 ELSE CHOOSE i \in Active : TRUE

(* The id SQLite gives the next row.  Freeze rows are never deleted; the   *)
(* highest schedule id is used again once that schedule is deleted.        *)
NextFreeze(i) == i \in FreezeIds /\ \A j \in FreezeIds : freezes[j].status = "none" <=> j >= i
NextSchedule(s) ==
  /\ s \in ScheduleIds
  /\ \A r \in ScheduleIds : r >= s => schedules[r].status = "none"
  /\ \A r \in ScheduleIds : r = s - 1 => schedules[r].status # "none"

Closed(status) == [NoFreeze EXCEPT !.status = status]

CloseUnasked(i, status) ==
  /\ freezes' = [freezes EXCEPT ![i] = Closed(status)]
  /\ UNCHANGED asked

(* CloseActiveTx closes the row and enqueues in one transaction. *)
Close(i, status) ==
  /\ freezes' = [freezes EXCEPT ![i] = Closed(status)]
  /\ asked' = TRUE

(* rejectDuplicateActive and the unique index on active rows. *)
Free == ~Frozen

InsertActive(i, origin, s, planned) ==
  /\ freezes' = [freezes EXCEPT ![i] =
       [status |-> "active", origin |-> origin, sched |-> s,
        start |-> now, planned |-> planned, version |-> 0]]
  /\ asked' = TRUE
-----------------------------------------------------------------------------
(* Operators: one-time freezes *)

Counted == ops < MaxOps /\ ops' = ops + 1
Background == <<runner, queue, read, decision>>
Future(t) == t = 0 \/ t > now

(* CreateActive *)
FreezeNow(planned) ==
  /\ Counted /\ enforced /\ Free /\ Future(planned)
  /\ \E i \in FreezeIds : NextFreeze(i) /\ InsertActive(i, "manual", 0, planned)
  /\ UNCHANGED <<now, enforced, schedules, session, Background, faults>>

(* CreateScheduled: a branch may hold any number of them. *)
ScheduleFreeze(start, planned) ==
  /\ Counted /\ enforced /\ start > now /\ (planned = 0 \/ planned > start)
  /\ \E i \in FreezeIds :
       /\ NextFreeze(i)
       /\ freezes' = [freezes EXCEPT ![i] =
            [status |-> "scheduled", origin |-> "planned", sched |-> 0,
             start |-> start, planned |-> planned, version |-> 0]]
  /\ UNCHANGED <<now, enforced, schedules, asked, session, Background, faults>>

(* CancelScheduled, whatever the state of enforcement. *)
CancelScheduled(i) ==
  /\ Counted /\ freezes[i].status = "scheduled"
  /\ freezes' = [freezes EXCEPT ![i] = Closed("cancelled")]
  /\ UNCHANGED <<now, enforced, schedules, asked, session, Background, faults>>

(* StartScheduledNow *)
StartNow(i) ==
  /\ Counted /\ enforced /\ Free
  /\ freezes[i].status = "scheduled" /\ freezes[i].start > now
  /\ Future(freezes[i].planned)
  /\ freezes' = [freezes EXCEPT ![i].status = "active", ![i].start = now]
  /\ asked' = TRUE
  /\ UNCHANGED <<now, enforced, schedules, session, Background, faults>>

(* End and EditScheduled read the row before their transaction; the pages  *)
(* offer active rows to the one and scheduled rows to the other.           *)
Load(o, kind, i) ==
  /\ Counted /\ session[o].kind = "none"
  /\ freezes[i].status = IF kind = "end" THEN "active" ELSE "scheduled"
  /\ session' = [session EXCEPT ![o] = [kind |-> kind, id |-> i, row |-> freezes[i]]]
  /\ UNCHANGED <<now, enforced, freezes, schedules, asked, Background, faults>>

Answered(o) == session' = [session EXCEPT ![o] = NoSession]

EditUnversioned(loaded, i) ==
  freezes[i].status = "scheduled" /\ freezes[i].start > now

(* The row is as editScheduled expects it: updated_at has not moved.       *)
EditAllowed(loaded, i) ==
  /\ freezes[i].status = "scheduled" /\ freezes[i].start > now
  /\ freezes[i].version = loaded.version

EditScheduled(o, start, planned) ==
  LET i == session[o].id IN
  /\ session[o].kind = "edit"
  /\ start > now /\ (planned = 0 \/ planned > start)
  /\ Answered(o)
  /\ freezes' =
       IF EditAllowed(session[o].row, i)
         THEN [freezes EXCEPT ![i].start = start, ![i].planned = planned,
                              ![i].version = @ + 1]
         ELSE freezes
  /\ UNCHANGED <<now, enforced, schedules, asked, Background, ops, faults>>

(* containingSegment and Suppress, for every active schedule of the branch *)
Suppressed ==
  [s \in ScheduleIds |->
     IF now \in Cover(schedules[s])
       THEN [schedules[s] EXCEPT !.until = RunEnd(Cover(schedules[s]), now)]
       ELSE schedules[s]]

(* End: a row that a schedule materialized goes through                    *)
(* EndMaterializedFreeze.  A row without a schedule never gets one.        *)
EndFreeze(o) ==
  LET i == session[o].id IN
  /\ session[o].kind = "end"
  /\ Answered(o)
  /\ IF freezes[i].status = "active"
       THEN /\ Close(i, "ended")
            /\ schedules' = IF session[o].row.sched = 0 THEN schedules ELSE Suppressed
       ELSE UNCHANGED <<freezes, asked, schedules>>
  /\ UNCHANGED <<now, enforced, Background, ops, faults>>

(* Cancel suppresses nothing. *)
CancelActive(i) ==
  /\ Counted /\ freezes[i].status = "active"
  /\ Close(i, "cancelled")
  /\ UNCHANGED <<now, enforced, schedules, session, Background, faults>>
-----------------------------------------------------------------------------
(* Operators: schedules *)

(* CloseLinkedActiveTx, in the transaction that changes the schedule. *)
CloseLinked(s) ==
  LET linked == {i \in Active : freezes[i].sched = s} IN
  IF linked = {} THEN UNCHANGED <<freezes, asked>>
                 ELSE \E i \in linked : Close(i, "ended")

ScheduleChange(s, as) ==
  /\ Counted
  /\ schedules' = [schedules EXCEPT ![s] = as]
  /\ UNCHANGED <<now, enforced, session, Background, faults>>

CreateSchedule(s) ==
  /\ enforced /\ NextSchedule(s)
  /\ ScheduleChange(s, [NoSchedule EXCEPT !.status = "paused"])
  /\ UNCHANGED <<freezes, asked>>

(* ON DELETE SET NULL finds no row still open. *)
DeleteSchedule(s) ==
  /\ schedules[s].status # "none"
  /\ CloseLinked(s)
  /\ ScheduleChange(s, NoSchedule)

(* Activate: only a schedule with a rule or a window. *)
ActivateSchedule(s) ==
  /\ schedules[s].status = "paused" /\ schedules[s].windows # {}
  /\ ScheduleChange(s, [schedules[s] EXCEPT !.status = "active", !.until = 0])
  /\ UNCHANGED <<freezes, asked>>

PauseSchedule(s) ==
  /\ schedules[s].status = "active"
  /\ CloseLinked(s)
  /\ ScheduleChange(s, [schedules[s] EXCEPT !.status = "paused", !.until = 0])

(* AddRules, or AddWindow, which refuses a window that has ended. *)
AddWindow(s, w) ==
  /\ schedules[s].status # "none" /\ w \notin schedules[s].windows
  /\ s \in Dated => \E h \in w : h >= now
  /\ ScheduleChange(s, [schedules[s] EXCEPT !.windows = @ \cup {w}])
  /\ UNCHANGED <<freezes, asked>>

(* DeleteRule and DeleteWindow, also the last one of an active schedule. *)
RemoveWindow(s, w) ==
  /\ w \in schedules[s].windows
  /\ ScheduleChange(s, [schedules[s] EXCEPT !.windows = @ \ {w}])
  /\ UNCHANGED <<freezes, asked>>
-----------------------------------------------------------------------------
(* freeze_lifecycle_runner.go: RunDue *)

Users == <<session, ops>>

DueStarts == {i \in FreezeIds : freezes[i].status = "scheduled" /\ freezes[i].start <= now}
Due(i) == freezes[i].status = "active" /\ freezes[i].planned # 0 /\ freezes[i].planned <= now

(* ORDER BY starts_at, id *)
First(ids) ==
  CHOOSE i \in ids : \A j \in ids :
    freezes[i].start < freezes[j].start \/ (freezes[i].start = freezes[j].start /\ i <= j)

ListDueScheduled ==
  /\ runner = "idle"
  /\ runner' = "starts" /\ queue' = DueStarts
  /\ UNCHANGED <<now, enforced, freezes, schedules, asked, Users, read, decision, faults>>

StartableOverActive(i) == freezes[i].status = "scheduled" /\ freezes[i].start <= now /\ enforced

Startable(i) == freezes[i].status = "scheduled" /\ freezes[i].start <= now /\ enforced /\ Free

ActivateScheduled ==
  /\ runner = "starts" /\ queue # {}
  /\ LET i == First(queue) IN
       /\ queue' = queue \ {i}
       /\ IF Startable(i)
            THEN freezes' = [freezes EXCEPT ![i].status = "active"] /\ asked' = TRUE
            ELSE UNCHANGED <<freezes, asked>>
  /\ UNCHANGED <<now, enforced, schedules, Users, runner, read, decision, faults>>

ListDuePlannedUnfreezes ==
  /\ runner = "starts" /\ queue = {}
  /\ runner' = "ends" /\ queue' = {i \in FreezeIds : Due(i)}
  /\ UNCHANGED <<now, enforced, freezes, schedules, asked, Users, read, decision, faults>>

(* In every enforcement state. *)
ExecutePlannedUnfreeze ==
  /\ runner = "ends" /\ queue # {}
  /\ \E i \in queue :
       /\ queue' = queue \ {i}
       /\ IF Due(i) THEN Close(i, "ended") ELSE UNCHANGED <<freezes, asked>>
  /\ UNCHANGED <<now, enforced, schedules, Users, runner, read, decision, faults>>

(* Materializer.RunOnce: the clock and ListActiveCoverages. *)
ReadCoverage ==
  /\ runner = "ends" /\ queue = {}
  /\ runner' = "decide" /\ read' = [at |-> now, schedules |-> schedules]
  /\ UNCHANGED <<now, enforced, freezes, schedules, asked, Users, queue, decision, faults>>

(* reconcileBranch: GetActiveForBranch, on rows that may have moved since. *)
(* A branch that is no candidate has nothing to decide.                    *)
DecideBranch ==
  /\ runner = "decide"
  /\ decision' = Decide(read.at, read.schedules, Live)
  /\ runner' = "act"
  /\ UNCHANGED <<now, enforced, freezes, schedules, asked, Users, queue, read, faults>>

Rested == runner' = "idle" /\ queue' = {} /\ read' = NothingRead /\ decision' = NoDecision

Exists(s) == s \in ScheduleIds /\ schedules[s].status # "none"

(* CreateActive for the materializer: a refusal is skipped until the next  *)
(* tick, and so is a schedule id the foreign key no longer finds.          *)
Materialize ==
  IF enforced /\ Free /\ Future(decision.planned) /\ Exists(decision.sched)
    THEN \E i \in FreezeIds :
           NextFreeze(i) /\ InsertActive(i, "schedule", decision.sched, decision.planned)
    ELSE UNCHANGED <<freezes, asked>>

DematerializeIfEnforced ==
  IF enforced /\ freezes[decision.id].status = "active"
    THEN Close(decision.id, "ended") ELSE UNCHANGED <<freezes, asked>>

(* EndMaterialized: no suppression. *)
Dematerialize ==
  IF freezes[decision.id].status = "active"
    THEN Close(decision.id, "ended") ELSE UNCHANGED <<freezes, asked>>

(* UpdateMaterializedAttribution: nothing is enqueued. *)
Relabel ==
  /\ UNCHANGED asked
  /\ freezes' =
       IF /\ freezes[decision.id].status = "active" /\ freezes[decision.id].sched # 0
          /\ Exists(decision.sched)
         THEN [freezes EXCEPT ![decision.id].sched = decision.sched,
                              ![decision.id].planned = decision.planned]
         ELSE freezes

ActOnBranch ==
  /\ runner = "act"
  /\ CASE decision.action = "create" -> Materialize
       [] decision.action = "end" -> Dematerialize
       [] decision.action = "update" -> Relabel
       [] decision.action = "none" -> UNCHANGED <<freezes, asked>>
  /\ Rested
  /\ UNCHANGED <<now, enforced, schedules, Users, faults>>
-----------------------------------------------------------------------------
(* The environment *)

Faulty == faults < MaxFaults /\ faults' = faults + 1

(* A listing fails, the context is cancelled or the process restarts; the  *)
(* transaction of one row fails and the tick goes on.                      *)
RunnerFails ==
  /\ Faulty /\ runner # "idle"
  /\ \/ Rested
     \/ /\ \E i \in queue : queue' = queue \ {i}
        /\ UNCHANGED <<runner, read, decision>>
  /\ UNCHANGED <<now, enforced, freezes, schedules, asked, Users>>

(* Enforcement turns unhealthy and recovers (module Enforcement). *)
EnforcementLost ==
  /\ Faulty /\ enforced /\ enforced' = FALSE
  /\ UNCHANGED <<now, freezes, schedules, asked, Users, Background>>

EnforcementRecovered ==
  /\ ~enforced /\ enforced' = TRUE
  /\ UNCHANGED <<now, freezes, schedules, asked, Users, Background, faults>>

(* A reconciliation completes (module Enforcement). *)
Reconciled ==
  /\ asked /\ asked' = FALSE
  /\ UNCHANGED <<now, enforced, freezes, schedules, Users, Background, faults>>

ClockMoves ==
  /\ now < MaxTime /\ now' = now + 1
  /\ UNCHANGED <<enforced, freezes, schedules, asked, Users, Background, faults>>

OperatorStep ==
  \/ \E start, planned \in Times :
       \/ start = 0 /\ FreezeNow(planned)
       \/ ScheduleFreeze(start, planned)
       \/ \E o \in Operators : EditScheduled(o, start, planned)
  \/ \E i \in FreezeIds :
       \/ CancelScheduled(i) \/ StartNow(i) \/ CancelActive(i)
       \/ \E o \in Operators, kind \in {"end", "edit"} : Load(o, kind, i)
  \/ \E o \in Operators : EndFreeze(o)
  \/ \E s \in ScheduleIds :
       \/ CreateSchedule(s) \/ DeleteSchedule(s)
       \/ ActivateSchedule(s) \/ PauseSchedule(s)
       \/ \E w \in Windows : AddWindow(s, w) \/ RemoveWindow(s, w)

RunnerStep ==
  \/ ListDueScheduled \/ ActivateScheduled
  \/ ListDuePlannedUnfreezes \/ ExecutePlannedUnfreeze
  \/ ReadCoverage \/ DecideBranch \/ ActOnBranch

EnvironmentStep ==
  RunnerFails \/ EnforcementLost \/ EnforcementRecovered \/ Reconciled \/ ClockMoves

Next == OperatorStep \/ RunnerStep \/ EnvironmentStep

Spec == Init /\ [][Next]_vars
(* The ticker keeps calling RunDue; nothing else is owed a step. *)
FairSpec == Spec /\ WF_vars(RunnerStep)
-----------------------------------------------------------------------------
(* Properties *)

(* A branch has at most one active freeze, however many one-time freezes,  *)
(* schedules and operators ask for one (GetActiveForBranch relies on it).  *)
OneActiveFreeze == \A i, j \in Active : i = j

(* An active freeze that a schedule made always names a schedule that      *)
(* exists: pausing and deleting close it, so that no branch stays frozen   *)
(* by a row nothing owns (service.go, Delete).                             *)
OwnedFreezes ==
  \A i \in Active : freezes[i].origin = "schedule" => Exists(freezes[i].sched)

(* End chooses its route by a row it read before the transaction.  If the  *)
(* row is still active the choice still fits: a manual freeze is never     *)
(* refused as one no schedule made, a materialized one never ends without  *)
(* the suppression that keeps it ended.                                    *)
EndsTakeTheRightRoute ==
  \A o \in Operators : LET i == session[o].id IN
    session[o].kind = "end" /\ freezes[i].status = "active" =>
      (session[o].row.sched = 0 <=> freezes[i].sched = 0)

(* One-time freezes are the scheduled ones; schedules own what they made.  *)
OriginsFit ==
  \A i \in FreezeIds :
    /\ freezes[i].status = "scheduled" => freezes[i].origin = "planned"
    /\ freezes[i].sched # 0 <=> freezes[i].origin = "schedule"

(* A request in progress is about a row that was there when it was loaded: *)
(* an edit holds it as it is, or an older version of it.                   *)
RequestsHoldTheirRow ==
  \A o \in Operators : LET i == session[o].id IN
    /\ session[o].kind = "end" =>
         i \in FreezeIds /\ freezes[i].status \in {"active", "ended", "cancelled"}
    /\ session[o].kind = "edit" =>
         /\ i \in FreezeIds /\ freezes[i].status # "none"
         /\ freezes[i].status = "scheduled" =>
              /\ session[o].row.version <= freezes[i].version
              /\ session[o].row.version = freezes[i].version => session[o].row = freezes[i]

(* A decision to end or relabel is about a row that a schedule made. *)
DecisionsAreAboutSchedulesRows ==
  decision.action \in {"end", "update"} => LET i == decision.id IN
    /\ i \in FreezeIds /\ freezes[i].status \in {"active", "ended", "cancelled"}
    /\ freezes[i].status = "active" => freezes[i].sched # 0

(* A decision to freeze the branch is for an hour that the schedule it     *)
(* names covered when the coverage was read.                               *)
DecisionsFitTheReading ==
  /\ read.at <= now
  /\ decision.action # "none" => runner = "act"
  /\ decision.action = "create" => read.at \in Eligible(read.schedules[decision.sched])

(* The inductive invariant behind the properties above and below. *)
IInv ==
  /\ TypeOK /\ OneActiveFreeze /\ OwnedFreezes /\ EndsTakeTheRightRoute
  /\ OriginsFit /\ RequestsHoldTheirRow
  /\ DecisionsAreAboutSchedulesRows /\ DecisionsFitTheReading

(* The scheduler never ends an operator's freeze: it ends when an operator *)
(* ends it or its planned end has come.                                    *)
OperatorsFreezesAreKept ==
  [][\A i \in Active : freezes[i].origin \in {"manual", "planned"} =>
        \/ freezes'[i].status = "active"
        \/ freezes[i].planned # 0 /\ freezes[i].planned <= now
        \/ ops' # ops \/ session' # session]_vars

(* An edit of a one-time freeze applies to the row its operator looked at, *)
(* or not at all: two overlapping edits never mix.                         *)
EditsApplyToTheRowSeen ==
  [][\A i \in FreezeIds :
        /\ freezes[i].status = "scheduled" /\ freezes'[i].status = "scheduled"
        /\ freezes'[i] # freezes[i]
        => \E o \in Operators : /\ session[o].kind = "edit" /\ session[o].id = i
                                /\ session[o].row = freezes[i] /\ session'[o] = NoSession]_vars

(* Whoever freezes or thaws the branch asks for a reconciliation in the    *)
(* same transaction.                                                       *)
ChangesAreReconciled == [][(Active' = {}) # (Active = {}) => asked']_vars

(* A freeze that ended or was cancelled is over, whatever the runner had   *)
(* listed before.                                                          *)
OverIsOver ==
  [][\A i \in FreezeIds : freezes[i].status \in {"ended", "cancelled"} =>
        freezes'[i].status = freezes[i].status]_vars

(* No schedule freezes the branch again inside the window an operator      *)
(* ended, unless the materializer had read the coverage before that.       *)
EndedWindowsStayEnded ==
  [][\A i \in Active' \ Active : freezes'[i].origin = "schedule" =>
        LET s == freezes'[i].sched IN
          schedules[s].until > now => read.schedules[s] # schedules[s]]_vars

(* What operators did stays as they did it, whatever the scheduler and     *)
(* other operators do meanwhile (decide.go, editScheduled).                *)
OperatorsAreHeeded == OperatorsFreezesAreKept /\ EditsApplyToTheRowSeen

(* What ended stays ended: the row, for good, and the window, for the      *)
(* schedule it was ended of.                                               *)
EndingsAreFinal == OverIsOver /\ EndedWindowsStayEnded

(* The schedule blocks merges at hour h: it covers it, and the window it   *)
(* covers it with did not begin before the suppression ends.               *)
Blocks(s, h) ==
  /\ schedules[s].status = "active" /\ \E w \in schedules[s].windows : h \in w
  /\ \A g \in 0..h : g..h \subseteq UNION schedules[s].windows => g >= schedules[s].until

Agrees ==
  LET blocking == {s \in ScheduleIds : Blocks(s, now)} IN
  /\ \A i \in FreezeIds : ~Due(i)
  /\ enforced /\ (DueStarts # {} \/ blocking # {}) => Frozen
  /\ \A i \in Active : freezes[i].origin = "schedule" =>
       /\ freezes[i].sched \in blocking
       /\ \A s \in blocking \ {freezes[i].sched} : Outranks(freezes[i].sched, s)

(* The bound on the rows has not been reached. *)
RowsLeft == \E i \in FreezeIds : freezes[i].status = "none"

(* Whatever races the operators, the runner and failures produced, once    *)
(* they leave the branch alone the ticks make it agree with its schedules  *)
(* and one-time freezes, and it stays that way.                            *)
Settles == <>[](RowsLeft => Agrees)

(* What decide.go says of suppression (lines 149-152): windows starting    *)
(* at or after suppressed_until resume normally.                           *)
WindowsResume ==
  \A s \in ScheduleIds :
    /\ schedules[s].status = "active" /\ now >= schedules[s].until
    /\ \E w \in schedules[s].windows : now \in w /\ \A h \in w : h >= schedules[s].until
    => now \in Eligible(schedules[s])
=============================================================================
