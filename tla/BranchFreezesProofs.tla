------------------------- MODULE BranchFreezesProofs -------------------------
(***************************************************************************)
(* Proofs about BranchFreezes, for any number of rows, schedules and       *)
(* operators, any clock and any windows.                                   *)
(*                                                                         *)
(* First the coverage operators: the runs of a set of hours and the        *)
(* winning schedule exist, so what they choose has a type.  Then the row   *)
(* steps: what any action can do to a row.  The inductive invariant and    *)
(* the action properties follow from these.                                *)
(*                                                                         *)
(* Then Recurrence, on which coverage rests, for every zone, calendar and  *)
(* span: walls and the instants they are read as, occurrences and the      *)
(* dates that are walked to find them, merging, and what is made of it.    *)
(***************************************************************************)
EXTENDS BranchCoverage, FiniteSetTheorems, WellFoundedInduction, TLAPS
-----------------------------------------------------------------------------
(* Coverage *)

(* A family of subsets of a finite set has a minimal member. *)
LEMMA MinimalSubset ==
  ASSUME NEW S, IsFiniteSet(S), NEW F \in SUBSET (SUBSET S), F # {}
  PROVE  \E x \in F : \A y \in F : y \subseteq x => y = x
<1>1. IsWellFoundedOn(StrictSubsetOrdering(S), SUBSET S)
  BY FS_StrictSubsetOrderingWellFounded, FS_FiniteSubsetsOfFinite
<1>2. \E x \in F : \A y \in F : ~ (<<y, x>> \in StrictSubsetOrdering(S))
  BY <1>1, WFMin
<1>3. QED
  BY <1>2 DEF StrictSubsetOrdering

(* A finite set of integers that is not empty has a greatest element. *)
LEMMA Greatest ==
  ASSUME NEW T, IsFiniteSet(T), T # {}
  PROVE  T \subseteq Int => \E x \in T : \A y \in T : y <= x
<1> DEFINE Above(x) == {z \in T : z >= x}
<1> DEFINE F == {Above(x) : x \in T}
<1>1. F \in SUBSET (SUBSET T) /\ F # {}
  <2>1. T # {} /\ \A x \in T : Above(x) \in SUBSET T
    OBVIOUS
  <2> HIDE DEF Above
  <2>2. QED BY <2>1
<1>2. \E m \in F : \A f \in F : f \subseteq m => f = m
  <2>1. ASSUME NEW G \in SUBSET (SUBSET T), G # {}
        PROVE  \E m \in G : \A f \in G : f \subseteq m => f = m
    BY <2>1, MinimalSubset
  <2> HIDE DEF F
  <2>2. QED BY <1>1, <2>1
<1>3. PICK x \in T : \A f \in F : f \subseteq Above(x) => f = Above(x)
  BY <1>2
<1>4. HAVE T \subseteq Int
<1>5. ASSUME NEW y \in T PROVE y <= x
  <2>1. CASE x < y
    <3>1. Above(y) \subseteq Above(x)
      <4>1. SUFFICES ASSUME NEW z \in T, z >= y PROVE z >= x
        OBVIOUS
      <4>2. x \in Int /\ y \in Int /\ z \in Int
        BY <1>4
      <4>3. QED BY <2>1, <4>1, <4>2
    <3>2. Above(y) \in F
      OBVIOUS
    <3>3. Above(y) = Above(x)
      BY <1>3, <3>1, <3>2
    <3>4. x \in Above(y)
      <4>1. x \in Above(x)
        BY <1>4
      <4>2. QED BY <3>3, <4>1
    <3>5. QED BY <1>4, <2>1, <3>4
  <2>2. QED BY <1>4, <2>1
<1>6. QED BY <1>5

(* A set of natural numbers that is not empty has a least element. *)
LEMMA Least ==
  ASSUME NEW T, T \subseteq Nat, T # {}
  PROVE  \E x \in T : \A y \in T : x <= y
<1>1. PICK x \in T : \A y \in T : ~(<<y, x>> \in OpToRel(<, Nat))
  BY NatLessThanWellFounded, WFMin
<1>2. \A y \in T : y < x => <<y, x>> \in OpToRel(<, Nat)
  BY DEF OpToRel
<1>3. x \in Nat /\ \A y \in T : y \in Nat
  OBVIOUS
<1>4. ASSUME NEW y \in T PROVE x <= y
  <2>1. ~(y < x)
    BY <1>1, <1>2
  <2>2. QED BY <1>3, <2>1
<1>5. QED BY <1>4

(* The hours are finitely many natural numbers below MaxTime. *)
LEMMA HoursFinite ==
  /\ Hours \subseteq Int /\ IsFiniteSet(Hours)
  /\ \A h \in Hours : h \in Nat /\ h + 1 \in Times /\ h < MaxTime
<1>1. MaxTime \in Nat /\ MaxTime - 1 \in Int
  BY TimeAssumption
<1>2. IsFiniteSet(Hours)
  BY <1>1, FS_Interval DEF Hours
<1>3. QED BY <1>1, <1>2 DEF Hours, Times

(* The run of a covered hour ends at a time of the clock, after the hour. *)
LEMMA RunEndExists ==
  ASSUME NEW hours \in SUBSET Hours, NEW h \in hours
  PROVE  RunEnd(hours, h) \in Times /\ RunEnd(hours, h) > h
<1> DEFINE T == {b \in hours : b >= h /\ h..b \subseteq hours}
<1>1. T \in SUBSET Int /\ IsFiniteSet(T) /\ h \in T /\ h \in Int
  <2>1. T \subseteq Hours /\ h \in Int
    BY HoursFinite
  <2>2. h..h = {h} /\ h >= h
    BY <2>1
  <2>3. h \in T
    BY <2>2
  <2>4. QED
    <3> HIDE DEF T
    <3> QED BY <2>1, <2>3, HoursFinite, FS_Subset
<1>2. PICK b \in T : \A c \in T : c <= b
  BY <1>1, Greatest
<1>3. b + 1 \notin hours
  <2>1. SUFFICES ASSUME b + 1 \in hours PROVE FALSE
    OBVIOUS
  <2>2. h..(b + 1) \subseteq hours
    BY <1>1, <1>2, <2>1
  <2>3. b + 1 \in T
    BY <1>1, <1>2, <2>1, <2>2
  <2>4. QED BY <1>1, <1>2, <2>3
<1>4. \E c \in hours : c >= h /\ h..c \subseteq hours /\ c + 1 \notin hours
  BY <1>2, <1>3
<1> DEFINE C == CHOOSE c \in hours : c >= h /\ h..c \subseteq hours /\ c + 1 \notin hours
<1>5. C \in hours /\ C >= h
  BY <1>4
<1>6. RunEnd(hours, h) = 1 + C
  BY DEF RunEnd
<1> HIDE DEF C
<1>7. QED BY <1>1, <1>5, <1>6, HoursFinite

(* Of finitely many schedules one outranks the others.                     *)
LEMMA WinnerWins ==
  ASSUME NEW covering \in SUBSET Int, covering # {}, IsFiniteSet(covering)
  PROVE  /\ Winner(covering) \in covering
         /\ \A r \in covering \ {Winner(covering)} : Outranks(Winner(covering), r)
<1> DEFINE D == covering \cap Dated
           T == IF D # {} THEN D ELSE covering
<1>1. T \in SUBSET Int /\ IsFiniteSet(T) /\ T # {}
  <2>1. T \subseteq covering /\ T # {}
    OBVIOUS
  <2> HIDE DEF T
  <2> QED BY <2>1, FS_Subset
<1>2. PICK s \in T : \A r \in T : r <= s
  BY <1>1, Greatest
<1>3. \A r \in covering \ {s} : Outranks(s, r)
  BY <1>1, <1>2 DEF Outranks
<1> QED BY <1>2, <1>3 DEF Winner

(* Of the schedules covering an hour, one wins. *)
LEMMA WinnerExists ==
  ASSUME NEW covering \in SUBSET ScheduleIds, covering # {}
  PROVE  Winner(covering) \in covering
<1>1. covering \in SUBSET Int /\ IsFiniteSet(covering)
  <2>1. ScheduleIds \subseteq Int /\ IsFiniteSet(ScheduleIds)
    BY IdsAssumption
  <2> QED BY <2>1, FS_Subset
<1> QED BY <1>1, WinnerWins

(* A covered hour lies in a run that starts no later. *)
LEMMA RunStartExists ==
  ASSUME NEW hours \in SUBSET Hours, NEW h \in hours
  PROVE  RunStart(hours, h) \in Int /\ RunStart(hours, h) <= h
<1> DEFINE T == {a \in hours : a <= h /\ a..h \subseteq hours}
<1>1. T \subseteq Nat /\ h \in T /\ h \in Nat
  <2>1. hours \subseteq Nat
    BY HoursFinite
  <2>2. h..h = {h} /\ h <= h
    BY <2>1
  <2>3. QED BY <2>1, <2>2
<1>2. PICK a \in T : \A c \in T : a <= c
  <2> HIDE DEF T
  <2> QED BY <1>1, Least
<1>3. a - 1 \notin hours
  <2>1. SUFFICES ASSUME a - 1 \in hours PROVE FALSE
    OBVIOUS
  <2>2. (a - 1)..h \subseteq hours
    BY <1>1, <1>2, <2>1
  <2>3. a - 1 \in T
    BY <1>1, <1>2, <2>1, <2>2
  <2>4. QED BY <1>1, <1>2, <2>3
<1>4. \E c \in hours : c <= h /\ c..h \subseteq hours /\ c - 1 \notin hours
  BY <1>2, <1>3
<1> DEFINE C == CHOOSE c \in hours : c <= h /\ c..h \subseteq hours /\ c - 1 \notin hours
<1>5. C \in hours /\ C <= h
  BY <1>4
<1>6. RunStart(hours, h) = C
  BY DEF RunStart
<1> HIDE DEF C
<1>7. QED BY <1>5, <1>6, HoursFinite

(* What a schedule covers are hours; an hour it may freeze the branch for  *)
(* is not suppressed.                                                      *)
LEMMA EligibleHours ==
  ASSUME NEW sch \in Schedule
  PROVE  /\ Cover(sch) \subseteq Hours /\ Eligible(sch) \subseteq Cover(sch)
         /\ \A h \in Eligible(sch) : sch.until <= h
<1>1. Cover(sch) \subseteq Hours
  BY WindowsAssumption DEF Cover, Schedule
<1>2. ASSUME NEW h \in Eligible(sch) PROVE sch.until <= h
  <2>1. h \in Cover(sch) /\ (sch.until = 0 \/ RunStart(Cover(sch), h) >= sch.until)
    BY DEF Eligible
  <2>2. h \in Nat
    BY <1>1, <2>1, HoursFinite
  <2>3. RunStart(Cover(sch), h) \in Int /\ RunStart(Cover(sch), h) <= h
    BY <1>1, <2>1, RunStartExists
  <2>4. sch.until \in Int
    BY TimeAssumption DEF Schedule, Times
  <2>5. QED BY <2>1, <2>2, <2>3, <2>4
<1>3. QED BY <1>1, <1>2 DEF Eligible

(* The decision has a type.  Ending and relabelling are decided for the    *)
(* live row, which is not an operator's; creation for an hour that the     *)
(* winning schedule covers.                                                *)
LEMMA DecideFacts ==
  ASSUME NEW at \in Times, NEW sch \in [ScheduleIds -> Schedule],
         NEW id \in {0} \cup FreezeIds, NEW d, d = Decide(at, sch, id)
  PROVE  /\ d \in Decision
         /\ d.action \in {"end", "update"} => d.id = id /\ id # 0 /\ ~Manual(id)
         /\ d.action = "create" => at \in Eligible(sch[d.sched])
<1> DEFINE covering == {s \in ScheduleIds : at \in Eligible(sch[s])}
           block == UNION {Eligible(sch[s]) : s \in ScheduleIds}
           winner == Winner(covering)
           planned == PlannedEnd(block, at)
<1>1. id \in Int /\ (id # 0 => id \in FreezeIds) /\ 0 \in Times
  BY IdsAssumption, TimeAssumption DEF Times
<1>2. ASSUME covering # {}
      PROVE  winner \in ScheduleIds /\ at \in Eligible(sch[winner]) /\ planned \in Times
  <2>1. winner \in covering
    BY <1>2, WinnerExists
  <2>2. block \subseteq Hours /\ at \in block
    <3>1. \A s \in ScheduleIds : Eligible(sch[s]) \subseteq Hours
      BY EligibleHours
    <3>2. QED BY <2>1, <3>1
  <2> HIDE DEF block, winner
  <2>3. planned \in Times
    BY <1>1, <2>2, RunEndExists DEF PlannedEnd
  <2>4. QED BY <2>1, <2>3
<1>3. CASE Manual(id) \/ (id = 0 /\ covering = {})
  BY <1>1, <1>3 DEF Decide, NoDecision, Decision
<1>4. CASE ~Manual(id) /\ id # 0 /\ covering = {}
  BY <1>1, <1>4 DEF Decide, NoDecision, Decision
<1>5. CASE ~Manual(id) /\ covering # {}
  <2>1. \/ id = 0 /\ d = [action |-> "create", id |-> 0, sched |-> winner, planned |-> planned]
        \/ d = NoDecision
        \/ id # 0 /\ d = [action |-> "update", id |-> id, sched |-> winner, planned |-> planned]
    BY <1>5 DEF Decide
  <2> HIDE DEF covering, winner, planned
  <2>2. QED BY <1>1, <1>2, <1>5, <2>1 DEF NoDecision, Decision
<1>6. QED BY <1>3, <1>4, <1>5

(* Suppressing writes the end of a segment: a time. *)
LEMMA SuppressedTyped ==
  ASSUME now \in Times, schedules \in [ScheduleIds -> Schedule]
  PROVE  /\ Suppressed \in [ScheduleIds -> Schedule]
         /\ \A s \in ScheduleIds : Suppressed[s].status = schedules[s].status
<1>1. ASSUME NEW s \in ScheduleIds, now \in Cover(schedules[s])
      PROVE  RunEnd(Cover(schedules[s]), now) \in Times
  BY <1>1, EligibleHours, RunEndExists
<1>2. QED BY <1>1 DEF Suppressed, Schedule
-----------------------------------------------------------------------------
(* The rows: what a step can do to one of them *)

Closes(i, row) ==
  /\ freezes[i].status \in {"scheduled", "active"}
  /\ freezes[i].status = "active" => asked'
  /\ row.status \in {"ended", "cancelled"} /\ row.origin = "none" /\ row.sched = 0

Plans(i, row) ==
  /\ freezes[i].status = "none"
  /\ row.status = "scheduled" /\ row.origin = "planned" /\ row.sched = 0

Inserts(i, row) ==
  /\ freezes[i].status = "none" /\ Free /\ asked' /\ row.status = "active"
  /\ \/ row.origin = "manual" /\ row.sched = 0
     \/ /\ row.origin = "schedule" /\ Exists(row.sched) /\ schedules' = schedules
        /\ decision.action = "create" /\ row.sched = decision.sched

Edits(i, row) ==
  /\ freezes[i].status = "scheduled" /\ row.status = "scheduled"
  /\ row.origin = freezes[i].origin /\ row.sched = freezes[i].sched
  /\ row.version = freezes[i].version + 1
  /\ \E o \in Operators :
       /\ session[o].kind = "edit" /\ session[o].id = i
       /\ session[o].row.version = freezes[i].version /\ session'[o] = NoSession

Activates(i, row) ==
  /\ freezes[i].status = "scheduled" /\ Free /\ asked' /\ row.status = "active"
  /\ row.origin = freezes[i].origin /\ row.sched = freezes[i].sched

Relabels(i, row) ==
  /\ freezes[i].status = "active" /\ row.status = "active"
  /\ freezes[i].sched # 0 /\ row.origin = freezes[i].origin
  /\ Exists(row.sched) /\ schedules' = schedules

RowStep(i, row) ==
  \/ Closes(i, row) \/ Plans(i, row) \/ Inserts(i, row)
  \/ Edits(i, row) \/ Activates(i, row) \/ Relabels(i, row)

RowsStep ==
  \/ freezes' = freezes
  \/ \E i \in FreezeIds, row \in Freeze :
       freezes' = [freezes EXCEPT ![i] = row] /\ RowStep(i, row)

LEMMA ClosedTyped ==
  ASSUME NEW status \in {"ended", "cancelled"}
  PROVE  /\ Closed(status) \in Freeze /\ Closed(status).status = status
         /\ Closed(status).origin = "none" /\ Closed(status).sched = 0
BY TimeAssumption DEF Closed, NoFreeze, Freeze, Times

(* CloseActiveTx closes an active row. *)
LEMMA CloseSteps ==
  ASSUME NEW i \in FreezeIds, NEW status \in {"ended", "cancelled"},
         freezes[i].status = "active", Close(i, status)
  PROVE  RowsStep
<1>1. Closes(i, Closed(status))
  BY ClosedTyped DEF Close, Closes
<1>2. QED BY <1>1, ClosedTyped DEF Close, RowsStep, RowStep

LEMMA OperatorRows ==
  ASSUME IInv, OperatorStep
  PROVE  RowsStep
<1> USE DEF IInv
<1>1. now \in Times /\ freezes \in [FreezeIds -> Freeze]
  BY DEF TypeOK
<1>2. ASSUME NEW planned \in Times, FreezeNow(planned) PROVE RowsStep
  <2>1. PICK i \in FreezeIds : NextFreeze(i) /\ InsertActive(i, "manual", 0, planned)
    BY <1>2 DEF FreezeNow
  <2> DEFINE row == [status |-> "active", origin |-> "manual", sched |-> 0,
                     start |-> now, planned |-> planned, version |-> 0]
  <2>2. row \in Freeze
    BY <1>1 DEF Freeze
  <2>3. freezes[i].status = "none"
    BY <2>1, IdsAssumption DEF NextFreeze
  <2>4. Inserts(i, row) /\ freezes' = [freezes EXCEPT ![i] = row]
    BY <1>2, <2>1, <2>3 DEF Inserts, InsertActive, FreezeNow
  <2>5. QED BY <2>2, <2>4 DEF RowsStep, RowStep
<1>3. ASSUME NEW start \in Times, NEW planned \in Times, ScheduleFreeze(start, planned)
      PROVE  RowsStep
  <2> DEFINE row == [status |-> "scheduled", origin |-> "planned", sched |-> 0,
                     start |-> start, planned |-> planned, version |-> 0]
  <2>1. PICK i \in FreezeIds : NextFreeze(i) /\ freezes' = [freezes EXCEPT ![i] = row]
    BY <1>3 DEF ScheduleFreeze
  <2>2. row \in Freeze
    BY DEF Freeze
  <2>3. freezes[i].status = "none"
    BY <2>1, IdsAssumption DEF NextFreeze
  <2>4. Plans(i, row)
    BY <2>3 DEF Plans
  <2>5. QED BY <2>1, <2>2, <2>4 DEF RowsStep, RowStep
<1>4. ASSUME NEW o \in Operators, NEW start \in Times, NEW planned \in Times,
             EditScheduled(o, start, planned)
      PROVE  RowsStep
  <2> DEFINE i == session[o].id
             row == [freezes[i] EXCEPT !.start = start, !.planned = planned, !.version = @ + 1]
  <2>1. CASE ~EditAllowed(session[o].row, i)
    BY <1>4, <2>1 DEF EditScheduled, RowsStep
  <2>2. CASE EditAllowed(session[o].row, i)
    <3>1. i \in FreezeIds
      BY <1>4 DEF RequestsHoldTheirRow, EditScheduled
    <3>2. freezes[i] \in Freeze
      BY <1>1, <3>1
    <3>3. row \in Freeze /\ freezes' = [freezes EXCEPT ![i] = row]
      BY <1>1, <1>4, <2>2, <3>1, <3>2 DEF EditScheduled, Freeze
    <3>4. session'[o] = NoSession
      BY <1>4 DEF EditScheduled, Answered, TypeOK
    <3>5. row.status = freezes[i].status /\ row.origin = freezes[i].origin
          /\ row.sched = freezes[i].sched /\ row.version = freezes[i].version + 1
      BY <3>2 DEF Freeze
    <3> HIDE DEF row
    <3>6. Edits(i, row)
      BY <1>4, <2>2, <3>4, <3>5 DEF EditScheduled, EditAllowed, Edits
    <3>7. QED BY <3>1, <3>3, <3>6 DEF RowsStep, RowStep
  <2>3. QED BY <2>1, <2>2
<1>5. ASSUME NEW i \in FreezeIds, CancelScheduled(i) PROVE RowsStep
  <2>1. Closes(i, Closed("cancelled"))
    BY <1>5, ClosedTyped DEF CancelScheduled, Closes
  <2>2. QED BY <1>5, <2>1, ClosedTyped DEF CancelScheduled, RowsStep, RowStep
<1>6. ASSUME NEW i \in FreezeIds, StartNow(i) PROVE RowsStep
  <2> DEFINE row == [freezes[i] EXCEPT !.status = "active", !.start = now]
  <2>1. row \in Freeze /\ freezes' = [freezes EXCEPT ![i] = row]
    BY <1>1, <1>6 DEF StartNow, Freeze
  <2>2. Activates(i, row)
    BY <1>1, <1>6 DEF StartNow, Activates, Freeze
  <2>3. QED BY <2>1, <2>2 DEF RowsStep, RowStep
<1>7. ASSUME NEW i \in FreezeIds, CancelActive(i) PROVE RowsStep
  BY <1>7, CloseSteps DEF CancelActive
<1>8. ASSUME NEW o \in Operators, EndFreeze(o) PROVE RowsStep
  <2>1. session[o].id \in FreezeIds
    BY <1>8 DEF RequestsHoldTheirRow, EndFreeze
  <2>2. QED BY <1>8, <2>1, CloseSteps DEF EndFreeze, RowsStep
<1>9. ASSUME NEW s \in ScheduleIds, CloseLinked(s) PROVE RowsStep
  BY <1>9, CloseSteps DEF CloseLinked, RowsStep, Active
<1>10. QED
  BY <1>2, <1>3, <1>4, <1>5, <1>6, <1>7, <1>8, <1>9
  DEF OperatorStep, Load, CreateSchedule, DeleteSchedule, ActivateSchedule,
      PauseSchedule, AddWindow, RemoveWindow, RowsStep

(* A set of rows has a first one: of those with the least start, the least. *)
LEMMA FirstExists ==
  ASSUME freezes \in [FreezeIds -> Freeze], NEW ids \in SUBSET FreezeIds, ids # {}
  PROVE  First(ids) \in ids
<1> DEFINE Starts == {freezes[j].start : j \in ids}
<1>1. /\ Starts \subseteq Nat /\ Starts # {}
      /\ \A j \in ids : j \in Nat /\ freezes[j].start \in Nat
  <2>1. Times \subseteq Nat
    BY TimeAssumption DEF Times
  <2>2. ASSUME NEW j \in ids PROVE j \in Nat /\ freezes[j].start \in Nat
    BY <2>1, IdsAssumption DEF Freeze
  <2>3. QED BY <2>2
<1>2. \E a \in Starts : \A b \in Starts : a <= b
  <2> HIDE DEF Starts
  <2> QED BY <1>1, Least
<1>3. PICK m \in ids : \A j \in ids : freezes[m].start <= freezes[j].start
  BY <1>2
<1> DEFINE Soonest == {j \in ids : freezes[j].start = freezes[m].start}
<1>4. Soonest \subseteq Nat /\ Soonest # {}
  BY <1>1
<1>5. \E a \in Soonest : \A b \in Soonest : a <= b
  <2> HIDE DEF Soonest
  <2> QED BY <1>4, Least
<1>6. PICK i \in ids : /\ freezes[i].start = freezes[m].start
                       /\ \A j \in ids : freezes[j].start = freezes[m].start => i <= j
  BY <1>5
<1>7. \A j \in ids :
        freezes[i].start < freezes[j].start \/ (freezes[i].start = freezes[j].start /\ i <= j)
  BY <1>1, <1>3, <1>6
<1>8. QED BY <1>7 DEF First

LEMMA RunnerRows ==
  ASSUME IInv, RunnerStep
  PROVE  RowsStep
<1> USE DEF IInv
<1>1. now \in Times /\ freezes \in [FreezeIds -> Freeze] /\ queue \subseteq FreezeIds
      /\ decision \in Decision
  BY DEF TypeOK
<1>2. ASSUME ActivateScheduled PROVE RowsStep
  <2> DEFINE i == First(queue)
             row == [freezes[i] EXCEPT !.status = "active"]
  <2>1. CASE ~Startable(i)
    BY <1>2, <2>1 DEF ActivateScheduled, RowsStep
  <2>2. CASE Startable(i)
    <3>1. i \in FreezeIds
      BY <1>1, <1>2, FirstExists DEF ActivateScheduled
    <3>2. row \in Freeze /\ freezes' = [freezes EXCEPT ![i] = row]
      BY <1>1, <1>2, <2>2, <3>1 DEF ActivateScheduled, Freeze
    <3>3. Activates(i, row)
      BY <1>1, <1>2, <2>2, <3>1 DEF ActivateScheduled, Startable, Activates, Freeze
    <3> HIDE DEF i, row
    <3>4. QED BY <3>1, <3>2, <3>3 DEF RowsStep, RowStep
  <2>3. QED BY <2>1, <2>2
<1>3. ASSUME ExecutePlannedUnfreeze PROVE RowsStep
  BY <1>1, <1>3, CloseSteps DEF ExecutePlannedUnfreeze, Due, RowsStep
<1>4. ASSUME Materialize, schedules' = schedules, decision.action = "create" PROVE RowsStep
  <2>1. CASE UNCHANGED freezes
    BY <2>1 DEF RowsStep
  <2>2. CASE ~UNCHANGED freezes
    <3>1. Free /\ Exists(decision.sched)
      BY <1>4, <2>2 DEF Materialize
    <3>2. PICK i \in FreezeIds :
            NextFreeze(i) /\ InsertActive(i, "schedule", decision.sched, decision.planned)
      BY <1>4, <2>2 DEF Materialize
    <3> DEFINE row == [status |-> "active", origin |-> "schedule", sched |-> decision.sched,
                       start |-> now, planned |-> decision.planned, version |-> 0]
    <3>3. row \in Freeze
      BY <1>1 DEF Freeze, Decision
    <3>4. freezes[i].status = "none"
      BY <3>2, IdsAssumption DEF NextFreeze
    <3>5. Inserts(i, row) /\ freezes' = [freezes EXCEPT ![i] = row]
      BY <1>4, <3>1, <3>2, <3>4 DEF Inserts, InsertActive
    <3>6. QED BY <3>3, <3>5 DEF RowsStep, RowStep
  <2>3. QED BY <2>1, <2>2
<1>5. ASSUME Dematerialize, decision.action = "end" PROVE RowsStep
  BY <1>5, CloseSteps DEF Dematerialize, DecisionsAreAboutSchedulesRows, RowsStep
<1>6. ASSUME Relabel, schedules' = schedules, decision.action = "update" PROVE RowsStep
  <2> DEFINE i == decision.id
             row == [freezes[i] EXCEPT !.sched = decision.sched, !.planned = decision.planned]
  <2>1. CASE UNCHANGED freezes
    BY <2>1 DEF RowsStep
  <2>2. CASE ~UNCHANGED freezes
    <3>1. i \in FreezeIds
      BY <1>6 DEF DecisionsAreAboutSchedulesRows
    <3>2. /\ freezes[i].status = "active" /\ freezes[i].sched # 0 /\ Exists(decision.sched)
          /\ freezes' = [freezes EXCEPT ![i].sched = decision.sched, ![i].planned = decision.planned]
      BY <1>6, <2>2 DEF Relabel
    <3>3. row \in Freeze /\ freezes' = [freezes EXCEPT ![i] = row]
      BY <1>1, <3>1, <3>2 DEF Freeze, Decision
    <3>4. Relabels(i, row)
      BY <1>1, <1>6, <3>1, <3>2 DEF Relabels, Freeze
    <3> HIDE DEF i, row
    <3>5. QED BY <3>1, <3>3, <3>4 DEF RowsStep, RowStep
  <2>3. QED BY <2>1, <2>2
<1>7. ASSUME ActOnBranch PROVE RowsStep
  <2>1. decision.action \in {"none", "create", "end", "update"} /\ schedules' = schedules
    BY <1>1, <1>7 DEF ActOnBranch, Decision
  <2>2. \/ decision.action = "create" /\ Materialize
        \/ decision.action = "end" /\ Dematerialize
        \/ decision.action = "update" /\ Relabel
        \/ freezes' = freezes
    BY <1>7, <2>1 DEF ActOnBranch
  <2>3. QED BY <1>4, <1>5, <1>6, <2>1, <2>2 DEF RowsStep
<1>8. QED
  BY <1>2, <1>3, <1>7
  DEF RunnerStep, ListDueScheduled, ListDuePlannedUnfreezes, ReadCoverage, DecideBranch, RowsStep

(* Every step leaves the rows alone or changes one of them in one of the   *)
(* six ways.                                                               *)
LEMMA RowChanges ==
  ASSUME IInv, [Next]_vars
  PROVE  RowsStep
<1>1. CASE OperatorStep
  BY <1>1, OperatorRows
<1>2. CASE RunnerStep
  BY <1>2, RunnerRows
<1>3. CASE EnvironmentStep
  BY <1>3 DEF EnvironmentStep, RunnerFails, EnforcementLost, EnforcementRecovered,
              Reconciled, ClockMoves, RowsStep
<1>4. CASE UNCHANGED vars
  BY <1>4 DEF vars, RowsStep
<1>5. QED BY <1>1, <1>2, <1>3, <1>4 DEF Next
-----------------------------------------------------------------------------
(* The inductive invariant *)

LEMMA InitInvariant == Init => IInv
<1> SUFFICES ASSUME Init PROVE IInv
  OBVIOUS
<1> USE DEF Init
<1>1. 0 \in Times
  BY TimeAssumption DEF Times
<1>2. freezes \in [FreezeIds -> Freeze] /\ schedules \in [ScheduleIds -> Schedule]
  BY StartAssumption
<1>3. NoFreeze \in Freeze /\ NoSchedule \in Schedule
  BY <1>1 DEF NoFreeze, NoSchedule, Freeze, Schedule
<1>4. read.at = 0 /\ read \in [at : Times, schedules : [ScheduleIds -> Schedule]]
  BY <1>1, <1>3 DEF NothingRead
<1>5. decision.action = "none" /\ decision \in Decision
  BY <1>1 DEF NoDecision, Decision
<1>6. /\ session \in [Operators -> [kind : {"none", "end", "edit"}, id : {0} \cup FreezeIds, row : Freeze]]
      /\ \A o \in Operators : session[o].kind = "none"
  BY <1>3 DEF NoSession
<1>7. \A i \in FreezeIds :
        \/ freezes[i].status = "none" /\ freezes[i].origin = "none" /\ freezes[i].sched = 0
        \/ freezes[i].status = "scheduled" /\ freezes[i].origin = "planned" /\ freezes[i].sched = 0
  BY StartAssumption DEF NoFreeze
<1>8. TypeOK
  BY <1>1, <1>2, <1>4, <1>5, <1>6 DEF TypeOK
<1>9. OneActiveFreeze /\ OwnedFreezes
  BY <1>7 DEF OneActiveFreeze, OwnedFreezes, Active
<1>10. EndsTakeTheRightRoute /\ RequestsHoldTheirRow
  BY <1>6 DEF EndsTakeTheRightRoute, RequestsHoldTheirRow
<1>11. OriginsFit
  BY <1>7 DEF OriginsFit
<1>12. DecisionsAreAboutSchedulesRows /\ DecisionsFitTheReading
  BY <1>4, <1>5 DEF DecisionsAreAboutSchedulesRows, DecisionsFitTheReading
<1>13. QED BY <1>8, <1>9, <1>10, <1>11, <1>12 DEF IInv

(* The conjuncts about the rows alone follow from the way a row changes.   *)
LEMMA RowsInvariant ==
  ASSUME IInv, RowsStep
  PROVE  freezes' \in [FreezeIds -> Freeze] /\ OneActiveFreeze' /\ OriginsFit'
<1> USE DEF IInv, RowsStep
<1>1. CASE freezes' = freezes
  BY <1>1 DEF TypeOK, OneActiveFreeze, OriginsFit, Active
<1>2. ASSUME NEW i \in FreezeIds, NEW row \in Freeze,
             freezes' = [freezes EXCEPT ![i] = row], RowStep(i, row)
      PROVE  freezes' \in [FreezeIds -> Freeze] /\ OneActiveFreeze' /\ OriginsFit'
  <2>1. freezes' \in [FreezeIds -> Freeze] /\ freezes'[i] = row
        /\ \A j \in FreezeIds \ {i} : freezes'[j] = freezes[j]
    BY <1>2 DEF TypeOK
  <2>2. row.status = "active" => Active \subseteq {i}
    BY <1>2 DEF RowStep, Closes, Plans, Inserts, Edits, Activates, Relabels, Free, Frozen,
                OneActiveFreeze, Active
  <2>3. OneActiveFreeze'
    BY <2>1, <2>2 DEF OneActiveFreeze, Active
  <2>4. /\ row.status = "scheduled" => row.origin = "planned"
        /\ row.sched # 0 <=> row.origin = "schedule"
    BY <1>2, IdsAssumption DEF RowStep, Closes, Plans, Inserts, Edits, Activates, Relabels,
       OriginsFit, Exists
  <2>5. OriginsFit'
    BY <2>1, <2>4 DEF OriginsFit
  <2>6. QED BY <2>1, <2>3, <2>5
<1>3. QED BY <1>1, <1>2

(* A schedule disappears with the freeze it owns; a new freeze names one   *)
(* that exists.                                                            *)
LEMMA OwnedInvariant ==
  ASSUME IInv, [Next]_vars
  PROVE  OwnedFreezes'
<1> USE DEF IInv
<1>1. freezes \in [FreezeIds -> Freeze] /\ schedules \in [ScheduleIds -> Schedule]
      /\ now \in Times
  BY DEF TypeOK
<1>2. ASSUME NEW s \in ScheduleIds, DeleteSchedule(s) PROVE OwnedFreezes'
  <2>1. \A r \in ScheduleIds \ {s} : schedules'[r] = schedules[r]
    BY <1>1, <1>2 DEF DeleteSchedule, ScheduleChange
  <2>2. \A i \in FreezeIds : \/ freezes'[i] = freezes[i] \/ freezes'[i].status # "active"
    BY <1>1, <1>2, ClosedTyped DEF DeleteSchedule, CloseLinked, Close, Active
  <2>3. \A i \in FreezeIds : freezes'[i].status = "active" => freezes[i].sched # s
    <3> DEFINE linked == {i \in Active : freezes[i].sched = s}
    <3>1. CASE linked = {}
      BY <1>2, <2>2, <3>1 DEF DeleteSchedule, Active
    <3>2. CASE linked # {}
      <4>1. PICK k \in linked : Close(k, "ended")
        BY <1>2, <3>2 DEF DeleteSchedule, CloseLinked
      <4>2. freezes'[k].status = "ended"
        BY <1>1, <4>1, ClosedTyped DEF Close, Active
      <4>3. \A i \in linked : i = k
        BY <4>1 DEF OneActiveFreeze
      <4>4. QED BY <2>2, <4>2, <4>3 DEF Active
    <3>3. QED BY <3>1, <3>2
  <2>4. QED BY <2>1, <2>2, <2>3 DEF OwnedFreezes, Exists, Active
<1>3. CASE ~\E s \in ScheduleIds : DeleteSchedule(s)
  <2>1. ASSUME NEW r \in ScheduleIds, schedules[r].status # "none"
        PROVE  schedules'[r].status # "none"
    <3>1. CASE UNCHANGED schedules
      BY <2>1, <3>1
    <3>2. ASSUME NEW o \in Operators, EndFreeze(o) PROVE schedules'[r].status # "none"
      BY <1>1, <2>1, <3>2, SuppressedTyped DEF EndFreeze
    <3>3. ASSUME NEW s \in ScheduleIds, NEW as, ScheduleChange(s, as), as.status # "none"
          PROVE  schedules'[r].status # "none"
      BY <1>1, <2>1, <3>3 DEF ScheduleChange
    <3>4. \A s \in ScheduleIds : schedules[s] \in Schedule
      BY <1>1
    <3>5. ASSUME NEW s \in ScheduleIds, CreateSchedule(s) \/ ActivateSchedule(s) \/ PauseSchedule(s)
          PROVE  schedules'[r].status # "none"
      BY <3>3, <3>4, <3>5 DEF CreateSchedule, ActivateSchedule, PauseSchedule, NoSchedule, Schedule
    <3>6. ASSUME NEW s \in ScheduleIds, NEW w \in Windows, AddWindow(s, w) \/ RemoveWindow(s, w)
          PROVE  schedules'[r].status # "none"
      <4>1. schedules[s].status # "none" \/ r # s
        BY <2>1
      <4>2. CASE r = s
        BY <3>3, <3>4, <3>6, <4>1, <4>2 DEF AddWindow, RemoveWindow, Schedule
      <4>3. CASE r # s
        BY <1>1, <2>1, <3>6, <4>3 DEF AddWindow, RemoveWindow, ScheduleChange
      <4>4. QED BY <4>2, <4>3
    <3>7. CASE OperatorStep
      BY <1>3, <3>1, <3>2, <3>5, <3>6, <3>7
      DEF OperatorStep, FreezeNow, ScheduleFreeze, EditScheduled, CancelScheduled, StartNow,
          CancelActive, Load
    <3>8. CASE RunnerStep \/ EnvironmentStep \/ UNCHANGED vars
      BY <3>1, <3>8
      DEF RunnerStep, ListDueScheduled, ActivateScheduled, ListDuePlannedUnfreezes,
          ExecutePlannedUnfreeze, ReadCoverage, DecideBranch, ActOnBranch, EnvironmentStep,
          RunnerFails, EnforcementLost, EnforcementRecovered, Reconciled, ClockMoves, vars
    <3>9. QED BY <3>7, <3>8 DEF Next
  <2>2. \A r : Exists(r) => Exists(r)'
    BY <2>1 DEF Exists
  <2>3. QED BY <1>1, <2>2, RowChanges
    DEF RowsStep, RowStep, Closes, Plans, Inserts, Edits, Activates, Relabels, OwnedFreezes,
        OriginsFit, Exists, Active
<1>4. QED BY <1>2, <1>3

(* A request is answered, or loads a row as it is, or is left alone.       *)
LoadsRow(o) ==
  /\ freezes' = freezes
  /\ \E i \in FreezeIds :
       \/ /\ freezes[i].status = "active"
          /\ session'[o] = [kind |-> "end", id |-> i, row |-> freezes[i]]
       \/ /\ freezes[i].status = "scheduled"
          /\ session'[o] = [kind |-> "edit", id |-> i, row |-> freezes[i]]

LEMMA SessionChanges ==
  ASSUME IInv, [Next]_vars
  PROVE  /\ session' \in [Operators -> [kind : {"none", "end", "edit"},
                                        id : {0} \cup FreezeIds, row : Freeze]]
         /\ \A o \in Operators :
              session'[o] = session[o] \/ session'[o] = NoSession \/ LoadsRow(o)
<1> DEFINE Requests == [kind : {"none", "end", "edit"}, id : {0} \cup FreezeIds, row : Freeze]
           Goal == /\ session' \in [Operators -> Requests]
                   /\ \A o \in Operators :
                        session'[o] = session[o] \/ session'[o] = NoSession \/ LoadsRow(o)
<1> SUFFICES Goal
  OBVIOUS
<1>1. session \in [Operators -> Requests] /\ freezes \in [FreezeIds -> Freeze]
  BY DEF IInv, TypeOK
<1>2. NoSession \in Requests
  BY TimeAssumption DEF NoSession, NoFreeze, Freeze, Times
<1>3. CASE UNCHANGED session
  BY <1>1, <1>3
<1>4. ASSUME NEW o \in Operators, Answered(o) PROVE Goal
  <2> HIDE DEF Requests
  <2> QED BY <1>1, <1>2, <1>4 DEF Answered
<1>5. ASSUME NEW o \in Operators, NEW kind \in {"end", "edit"}, NEW i \in FreezeIds, Load(o, kind, i)
      PROVE  Goal
  <2> DEFINE loaded == [kind |-> kind, id |-> i, row |-> freezes[i]]
  <2>1. loaded \in Requests /\ session' = [session EXCEPT ![o] = loaded]
    BY <1>1, <1>5 DEF Load
  <2>2. LoadsRow(o)
    BY <1>1, <1>5 DEF Load, LoadsRow
  <2> HIDE DEF Requests, loaded
  <2>3. QED BY <1>1, <2>1, <2>2
<1> HIDE DEF Goal
<1>6. CASE OperatorStep
  BY <1>3, <1>4, <1>5, <1>6
  DEF OperatorStep, FreezeNow, ScheduleFreeze, EditScheduled, CancelScheduled, StartNow, EndFreeze,
      CancelActive, CreateSchedule, DeleteSchedule, ActivateSchedule, PauseSchedule, AddWindow,
      RemoveWindow, ScheduleChange
<1>7. CASE RunnerStep \/ EnvironmentStep \/ UNCHANGED vars
  BY <1>3, <1>7
  DEF RunnerStep, ListDueScheduled, ActivateScheduled, ListDuePlannedUnfreezes,
      ExecutePlannedUnfreeze, ReadCoverage, DecideBranch, ActOnBranch, EnvironmentStep,
      RunnerFails, EnforcementLost, EnforcementRecovered, Reconciled, ClockMoves, Users, vars
<1>8. QED BY <1>6, <1>7 DEF Next

(* What a request holds fits the row, however the row has changed since.   *)
LEMMA SessionsInvariant ==
  ASSUME IInv, [Next]_vars
  PROVE  EndsTakeTheRightRoute' /\ RequestsHoldTheirRow'
<1> USE DEF IInv
<1>1. /\ freezes \in [FreezeIds -> Freeze]
      /\ freezes' \in [FreezeIds -> Freeze]
  BY RowChanges, RowsInvariant DEF TypeOK
<1>2. SUFFICES ASSUME NEW o \in Operators
      PROVE  LET i == session'[o].id IN
        /\ session'[o].kind = "end" =>
             /\ i \in FreezeIds /\ freezes'[i].status \in {"active", "ended", "cancelled"}
             /\ freezes'[i].status = "active" =>
                  (session'[o].row.sched = 0 <=> freezes'[i].sched = 0)
        /\ session'[o].kind = "edit" =>
             /\ i \in FreezeIds /\ freezes'[i].status # "none"
             /\ freezes'[i].status = "scheduled" =>
                  /\ session'[o].row.version <= freezes'[i].version
                  /\ session'[o].row.version = freezes'[i].version => session'[o].row = freezes'[i]
  BY <1>2 DEF EndsTakeTheRightRoute, RequestsHoldTheirRow
<1>3. CASE session'[o] = NoSession
  BY <1>3 DEF NoSession
<1>4. CASE LoadsRow(o)
  <2>1. \A i \in FreezeIds : freezes[i].version \in Nat
    BY <1>1 DEF Freeze
  <2>2. QED BY <1>4, <2>1 DEF LoadsRow
<1>5. CASE session'[o] = session[o] /\ session[o].kind \in {"end", "edit"}
  <2> DEFINE i == session[o].id
  <2>1. i \in FreezeIds
    BY <1>5 DEF RequestsHoldTheirRow
  <2>2. session[o].row.version \in Nat /\ freezes[i].version \in Nat
    BY <1>1, <2>1 DEF TypeOK, Freeze
  <2>3. freezes'[i] = freezes[i] \/ RowStep(i, freezes'[i])
    <3>1. CASE freezes' = freezes
      BY <3>1
    <3>2. ASSUME NEW k \in FreezeIds, NEW row \in Freeze,
                 freezes' = [freezes EXCEPT ![k] = row], RowStep(k, row)
          PROVE  freezes'[i] = freezes[i] \/ RowStep(i, freezes'[i])
      BY <1>1, <2>1, <3>2
    <3>3. QED BY <3>1, <3>2, RowChanges DEF RowsStep
  <2>4. CASE session[o].kind = "end"
    BY <1>5, <2>1, <2>3, <2>4, IdsAssumption
    DEF EndsTakeTheRightRoute, RequestsHoldTheirRow, RowStep, Closes, Plans, Inserts, Edits,
        Activates, Relabels, Exists
  <2>5. CASE session[o].kind = "edit"
    BY <1>5, <2>1, <2>2, <2>3, <2>5
    DEF RequestsHoldTheirRow, RowStep, Closes, Plans, Inserts, Edits, Activates, Relabels
  <2>6. QED BY <1>5, <2>4, <2>5
<1>6. CASE session'[o] = session[o] /\ session[o].kind = "none"
  BY <1>6
<1>7. QED BY <1>3, <1>4, <1>5, <1>6, SessionChanges DEF TypeOK

(* Nobody but the runner touches what it has read and decided.             *)
LEMMA BackgroundUnchanged ==
  ASSUME OperatorStep
  PROVE  UNCHANGED <<runner, queue, read, decision, now, enforced, faults>>
BY DEF OperatorStep, FreezeNow, ScheduleFreeze, EditScheduled, CancelScheduled, StartNow, EndFreeze,
  CancelActive, Load, CreateSchedule, DeleteSchedule, ActivateSchedule, PauseSchedule, AddWindow,
  RemoveWindow, ScheduleChange, Background

(* Between its steps a tick keeps, drops or makes its decision.            *)
LEMMA DecisionChanges ==
  ASSUME IInv, [Next]_vars
  PROVE  \/ decision' = decision /\ (decision.action # "none" => UNCHANGED <<runner, read>>)
         \/ decision' = NoDecision
         \/ DecideBranch
<1> USE DEF IInv, DecisionsFitTheReading
<1>1. CASE OperatorStep
  BY <1>1, BackgroundUnchanged
<1>2. CASE RunnerStep
  BY <1>2 DEF RunnerStep, ListDueScheduled, ActivateScheduled, ListDuePlannedUnfreezes,
     ExecutePlannedUnfreeze, ReadCoverage, ActOnBranch, Rested
<1>3. CASE EnvironmentStep \/ UNCHANGED vars
  BY <1>3 DEF EnvironmentStep, RunnerFails, Rested, EnforcementLost, EnforcementRecovered,
     Reconciled, ClockMoves, Background, vars
<1>4. QED BY <1>1, <1>2, <1>3 DEF Next

LEMMA LiveIsActive ==
  ASSUME Live # 0
  PROVE  Live \in Active
BY DEF Live

LEMMA LiveTyped == Live \in {0} \cup FreezeIds
BY DEF Live, Active

LEMMA ReadingInvariant ==
  ASSUME IInv, [Next]_vars
  PROVE  read'.at <= now' /\ now' \in Times /\ read' \in [at : Times, schedules : [ScheduleIds -> Schedule]]
<1> DEFINE Readings == [at : Times, schedules : [ScheduleIds -> Schedule]]
<1>1. /\ now \in Nat /\ now \in Times /\ read \in Readings /\ read.at \in Nat /\ read.at <= now
      /\ schedules \in [ScheduleIds -> Schedule] /\ MaxTime \in Nat
  BY TimeAssumption DEF IInv, TypeOK, DecisionsFitTheReading, Times
<1>2. NothingRead \in Readings /\ NothingRead.at = 0
  BY TimeAssumption DEF NothingRead, NoSchedule, Schedule, Times
<1>3. CASE now' = now /\ (read' = read \/ read' = NothingRead \/ ReadCoverage)
  BY <1>1, <1>2, <1>3 DEF ReadCoverage
<1>4. CASE ClockMoves
  BY <1>1, <1>4 DEF ClockMoves, Background, Times
<1>5. CASE OperatorStep
  BY <1>3, <1>5, BackgroundUnchanged
<1>6. CASE RunnerStep
  BY <1>3, <1>6 DEF RunnerStep, ListDueScheduled, ActivateScheduled, ListDuePlannedUnfreezes,
     ExecutePlannedUnfreeze, ReadCoverage, DecideBranch, ActOnBranch, Rested
<1>7. CASE EnvironmentStep \/ UNCHANGED vars
  BY <1>3, <1>4, <1>7 DEF EnvironmentStep, RunnerFails, Rested, EnforcementLost,
     EnforcementRecovered, Reconciled, Background, vars
<1>8. QED BY <1>5, <1>6, <1>7 DEF Next

LEMMA DecisionsInvariant ==
  ASSUME IInv, [Next]_vars
  PROVE  decision' \in Decision /\ DecisionsAreAboutSchedulesRows' /\ DecisionsFitTheReading'
<1> USE DEF IInv
<1>1. /\ freezes \in [FreezeIds -> Freeze] /\ decision \in Decision
      /\ freezes' \in [FreezeIds -> Freeze]
      /\ read.at \in Times /\ read.schedules \in [ScheduleIds -> Schedule]
  BY RowChanges, RowsInvariant DEF TypeOK
<1>2. read'.at <= now'
  BY ReadingInvariant
<1>3. CASE decision' = NoDecision
  <2>1. decision'.action = "none" /\ decision' \in Decision
    BY <1>3, TimeAssumption DEF NoDecision, Decision, Times
  <2>2. QED BY <1>2, <2>1 DEF DecisionsAreAboutSchedulesRows, DecisionsFitTheReading
<1>4. CASE decision' = decision /\ (decision.action # "none" => UNCHANGED <<runner, read>>)
  <2>1. DecisionsFitTheReading'
    <3>1. CASE decision.action = "none"
      BY <1>2, <1>4, <3>1 DEF DecisionsFitTheReading
    <3>2. CASE decision.action # "none"
      BY <1>2, <1>4, <3>2 DEF DecisionsFitTheReading, Eligible, Cover, RunStart
    <3>3. QED BY <3>1, <3>2
  <2>2. ASSUME decision.action \in {"end", "update"}
        PROVE  LET i == decision.id IN
                 /\ i \in FreezeIds /\ freezes'[i].status \in {"active", "ended", "cancelled"}
                 /\ freezes'[i].status = "active" => freezes'[i].sched # 0
    <3> DEFINE i == decision.id
    <3>1. i \in FreezeIds /\ freezes[i].status \in {"active", "ended", "cancelled"}
          /\ (freezes[i].status = "active" => freezes[i].sched # 0)
      BY <2>2 DEF DecisionsAreAboutSchedulesRows
    <3>2. freezes'[i] = freezes[i] \/ RowStep(i, freezes'[i])
      <4>1. CASE freezes' = freezes
        BY <4>1
      <4>2. ASSUME NEW k \in FreezeIds, NEW row \in Freeze,
                   freezes' = [freezes EXCEPT ![k] = row], RowStep(k, row)
            PROVE  freezes'[i] = freezes[i] \/ RowStep(i, freezes'[i])
        BY <1>1, <3>1, <4>2
      <4>3. QED BY <4>1, <4>2, RowChanges DEF RowsStep
    <3>3. QED BY <3>1, <3>2, IdsAssumption
      DEF RowStep, Closes, Plans, Inserts, Edits, Activates, Relabels, Exists
  <2>3. QED BY <1>1, <1>4, <2>1, <2>2 DEF DecisionsAreAboutSchedulesRows
<1>5. CASE DecideBranch
  <2> DEFINE d == Decide(read.at, read.schedules, Live)
  <2>1. decision' = d /\ freezes' = freezes /\ read' = read /\ runner' = "act"
    BY <1>5 DEF DecideBranch
  <2>2. /\ d \in Decision
        /\ d.action \in {"end", "update"} => d.id = Live /\ Live # 0 /\ ~Manual(Live)
        /\ d.action = "create" => read.at \in Eligible(read.schedules[d.sched])
    BY <1>1, LiveTyped, DecideFacts
  <2> HIDE DEF d
  <2>3. DecisionsAreAboutSchedulesRows'
    BY <2>1, <2>2, LiveIsActive DEF DecisionsAreAboutSchedulesRows, Manual, Active
  <2>4. DecisionsFitTheReading'
    BY <1>2, <2>1, <2>2 DEF DecisionsFitTheReading, Eligible, Cover, RunStart
  <2>5. QED BY <2>1, <2>2, <2>3, <2>4
<1>6. QED BY <1>3, <1>4, <1>5, DecisionChanges

LEMMA SchedulesTyped ==
  ASSUME IInv, [Next]_vars
  PROVE  schedules' \in [ScheduleIds -> Schedule]
<1>1. schedules \in [ScheduleIds -> Schedule] /\ now \in Times
  BY DEF IInv, TypeOK
<1>2. CASE UNCHANGED schedules
  BY <1>1, <1>2
<1>3. ASSUME NEW o \in Operators, EndFreeze(o) PROVE schedules' \in [ScheduleIds -> Schedule]
  BY <1>1, <1>3, SuppressedTyped DEF EndFreeze
<1>4. ASSUME NEW s \in ScheduleIds, NEW as \in Schedule, ScheduleChange(s, as)
      PROVE  schedules' \in [ScheduleIds -> Schedule]
  BY <1>1, <1>4 DEF ScheduleChange
<1>5. \A s \in ScheduleIds : schedules[s] \in Schedule
  BY <1>1
<1>6. 0 \in Times
  BY TimeAssumption DEF Times
<1>7. ASSUME NEW s \in ScheduleIds,
             CreateSchedule(s) \/ DeleteSchedule(s) \/ ActivateSchedule(s) \/ PauseSchedule(s)
      PROVE  schedules' \in [ScheduleIds -> Schedule]
  BY <1>4, <1>5, <1>6, <1>7
  DEF CreateSchedule, DeleteSchedule, ActivateSchedule, PauseSchedule, NoSchedule, Schedule
<1>8. ASSUME NEW s \in ScheduleIds, NEW w \in Windows, AddWindow(s, w) \/ RemoveWindow(s, w)
      PROVE  schedules' \in [ScheduleIds -> Schedule]
  <2>1. /\ [schedules[s] EXCEPT !.windows = @ \cup {w}] \in Schedule
        /\ [schedules[s] EXCEPT !.windows = @ \ {w}] \in Schedule
    BY <1>5 DEF Schedule
  <2>2. QED BY <1>4, <1>8, <2>1 DEF AddWindow, RemoveWindow
<1>9. CASE OperatorStep
  BY <1>2, <1>3, <1>7, <1>8, <1>9
  DEF OperatorStep, FreezeNow, ScheduleFreeze, EditScheduled, CancelScheduled, StartNow,
      CancelActive, Load
<1>10. CASE RunnerStep \/ EnvironmentStep \/ UNCHANGED vars
  BY <1>2, <1>10
  DEF RunnerStep, ListDueScheduled, ActivateScheduled, ListDuePlannedUnfreezes,
      ExecutePlannedUnfreeze, ReadCoverage, DecideBranch, ActOnBranch, EnvironmentStep,
      RunnerFails, EnforcementLost, EnforcementRecovered, Reconciled, ClockMoves, vars
<1>11. QED BY <1>9, <1>10 DEF Next

LEMMA RestTyped ==
  ASSUME IInv, [Next]_vars
  PROVE  /\ enforced' \in BOOLEAN /\ asked' \in BOOLEAN
         /\ runner' \in {"idle", "starts", "ends", "decide", "act"} /\ queue' \subseteq FreezeIds
         /\ ops' \in Nat /\ faults' \in Nat
<1>1. /\ enforced \in BOOLEAN /\ asked \in BOOLEAN
      /\ runner \in {"idle", "starts", "ends", "decide", "act"} /\ queue \subseteq FreezeIds
      /\ ops \in Nat /\ faults \in Nat
  BY DEF IInv, TypeOK
<1>2. CASE OperatorStep
  <2>1. runner' = runner /\ queue' = queue /\ enforced' = enforced /\ faults' = faults
    BY <1>2, BackgroundUnchanged
  <2>2. ops' = ops \/ ops' = ops + 1
    BY <1>2 DEF OperatorStep, FreezeNow, ScheduleFreeze, EditScheduled, CancelScheduled, StartNow,
       EndFreeze, CancelActive, Load, CreateSchedule, DeleteSchedule, ActivateSchedule,
       PauseSchedule, AddWindow, RemoveWindow, ScheduleChange, Counted
  <2>3. asked' = asked \/ asked' = TRUE
    BY <1>2 DEF OperatorStep, FreezeNow, ScheduleFreeze, EditScheduled, CancelScheduled, StartNow,
       EndFreeze, CancelActive, Load, CreateSchedule, DeleteSchedule, ActivateSchedule,
       PauseSchedule, AddWindow, RemoveWindow, InsertActive, Close, CloseLinked
  <2>4. ops' \in Nat
    BY <1>1, <2>2
  <2>5. asked' \in BOOLEAN
    BY <1>1, <2>3
  <2>6. QED BY <1>1, <2>1, <2>4, <2>5, Zenon
<1>3. CASE RunnerStep
  <2>1. enforced' = enforced /\ ops' = ops /\ faults' = faults
    BY <1>3 DEF RunnerStep, ListDueScheduled, ActivateScheduled, ListDuePlannedUnfreezes,
       ExecutePlannedUnfreeze, ReadCoverage, DecideBranch, ActOnBranch, Users
  <2>2. runner' \in {"idle", "starts", "ends", "decide", "act"} /\ queue' \subseteq FreezeIds
    BY <1>1, <1>3 DEF RunnerStep, ListDueScheduled, ActivateScheduled, ListDuePlannedUnfreezes,
       ExecutePlannedUnfreeze, ReadCoverage, DecideBranch, ActOnBranch, Rested, DueStarts
  <2>3. asked' = asked \/ asked' = TRUE
    <3>1. ASSUME ActOnBranch PROVE asked' = asked \/ asked' = TRUE
      <4>1. decision.action \in {"none", "create", "end", "update"}
        BY DEF IInv, TypeOK, Decision
      <4>2. Materialize \/ Dematerialize \/ Relabel \/ asked' = asked
        BY <3>1, <4>1 DEF ActOnBranch
      <4>3. QED BY <4>2 DEF Materialize, Dematerialize, Relabel, InsertActive, Close
    <3>2. QED BY <1>3, <3>1 DEF RunnerStep, ListDueScheduled, ActivateScheduled,
          ListDuePlannedUnfreezes, ExecutePlannedUnfreeze, ReadCoverage, DecideBranch, Close
  <2>4. asked' \in BOOLEAN
    BY <1>1, <2>3
  <2>5. QED BY <1>1, <2>1, <2>2, <2>4, Zenon
<1>4. CASE EnvironmentStep \/ UNCHANGED vars
  <2>1. runner' \in {"idle", "starts", "ends", "decide", "act"} /\ queue' \subseteq FreezeIds
    BY <1>1, <1>4 DEF EnvironmentStep, RunnerFails, Rested, EnforcementLost, EnforcementRecovered,
       Reconciled, ClockMoves, Background, vars
  <2>2. ops' = ops /\ (faults' = faults \/ faults' = faults + 1)
    BY <1>4 DEF EnvironmentStep, RunnerFails, EnforcementLost, EnforcementRecovered,
       Reconciled, ClockMoves, Users, Faulty, vars
  <2>3. /\ enforced' = enforced \/ enforced' = TRUE \/ enforced' = FALSE
        /\ asked' = asked \/ asked' = FALSE
    BY <1>4 DEF EnvironmentStep, RunnerFails, EnforcementLost, EnforcementRecovered,
       Reconciled, ClockMoves, vars
  <2>4. enforced' \in BOOLEAN /\ asked' \in BOOLEAN
    BY <1>1, <2>3
  <2>5. ops' \in Nat /\ faults' \in Nat
    BY <1>1, <2>2
  <2>6. QED BY <2>1, <2>4, <2>5, Zenon
<1>5. QED BY <1>2, <1>3, <1>4 DEF Next

LEMMA StepInvariant == IInv /\ [Next]_vars => IInv'
<1> SUFFICES ASSUME IInv, [Next]_vars PROVE IInv'
  OBVIOUS
<1>1. TypeOK'
  BY RowChanges, RowsInvariant, SessionChanges, ReadingInvariant, DecisionsInvariant,
     SchedulesTyped, RestTyped
  DEF TypeOK
<1>2. OneActiveFreeze' /\ OriginsFit'
  BY RowChanges, RowsInvariant
<1>3. QED
  BY <1>1, <1>2, OwnedInvariant, SessionsInvariant, DecisionsInvariant DEF IInv

(* The inductive invariant of the branch's freezes. *)
THEOREM AlwaysIInv == Spec => []IInv
BY InitInvariant, StepInvariant, PTL DEF Spec

(* Every variable keeps its type: no planned end, suppression or schedule  *)
(* id that the code writes leaves its range.                               *)
THEOREM TypeCorrect == Spec => []TypeOK
<1>1. IInv => TypeOK
  BY DEF IInv
<1>2. QED BY <1>1, AlwaysIInv, PTL

(* A branch never has two active freezes (store.go, rejectDuplicateActive). *)
THEOREM OneFreezeAtMost == Spec => []OneActiveFreeze
<1>1. IInv => OneActiveFreeze
  BY DEF IInv
<1>2. QED BY <1>1, AlwaysIInv, PTL

(* A freeze made by a schedule never outlives it (service.go, Delete). *)
THEOREM NoOrphanFreeze == Spec => []OwnedFreezes
<1>1. IInv => OwnedFreezes
  BY DEF IInv
<1>2. QED BY <1>1, AlwaysIInv, PTL

(* The route End chose from a row it read earlier is still the right one   *)
(* when its transaction runs (freeze_recompute.go, End).                   *)
THEOREM RoutesAreRight == Spec => []EndsTakeTheRightRoute
<1>1. IInv => EndsTakeTheRightRoute
  BY DEF IInv
<1>2. QED BY <1>1, AlwaysIInv, PTL
-----------------------------------------------------------------------------
(* What a step may do *)

(* RowChanges, seen from one row. *)
LEMMA OneRowChanges ==
  ASSUME IInv, [Next]_vars, NEW i \in FreezeIds
  PROVE  freezes'[i] = freezes[i] \/ RowStep(i, freezes'[i])
<1>1. CASE freezes' = freezes
  BY <1>1
<1>2. ASSUME NEW k \in FreezeIds, NEW row \in Freeze,
             freezes' = [freezes EXCEPT ![k] = row], RowStep(k, row)
      PROVE  freezes'[i] = freezes[i] \/ RowStep(i, freezes'[i])
  BY <1>2 DEF IInv, TypeOK
<1>3. QED BY <1>1, <1>2, RowChanges DEF RowsStep

(* A closed freeze is never reopened, whatever the runner had listed       *)
(* (store.go, ActivateScheduled).                                          *)
THEOREM OverStaysOver == Spec => OverIsOver
<1>1. IInv /\ [Next]_vars =>
        [\A i \in FreezeIds : freezes[i].status \in {"ended", "cancelled"} =>
           freezes'[i].status = freezes[i].status]_vars
  BY OneRowChanges DEF RowStep, Closes, Plans, Inserts, Edits, Activates, Relabels
<1>2. QED BY <1>1, AlwaysIInv, PTL DEF Spec, OverIsOver

(* No change of the branch's state forgets to ask for its publication      *)
(* (service.go, CloseActiveTx; store.go).                                  *)
THEOREM EveryChangeIsAskedFor == Spec => ChangesAreReconciled
<1>1. IInv /\ [Next]_vars => [(Active' = {}) # (Active = {}) => asked']_vars
  <2> SUFFICES ASSUME IInv, [Next]_vars, (Active' = {}) # (Active = {}) PROVE asked'
    OBVIOUS
  <2>1. PICK i \in FreezeIds : (freezes'[i].status = "active") # (freezes[i].status = "active")
    BY DEF Active
  <2>2. RowStep(i, freezes'[i])
    BY <2>1, OneRowChanges
  <2>3. QED BY <2>1, <2>2
        DEF RowStep, Closes, Plans, Inserts, Edits, Activates, Relabels
<1>2. QED BY <1>1, AlwaysIInv, PTL DEF Spec, ChangesAreReconciled

(* Of two overlapping edits the second is refused: updated_at has moved    *)
(* (store.go, editScheduled).                                              *)
THEOREM EditsNeverMix == Spec => EditsApplyToTheRowSeen
<1>1. IInv /\ [Next]_vars =>
        [\A i \in FreezeIds :
           /\ freezes[i].status = "scheduled" /\ freezes'[i].status = "scheduled"
           /\ freezes'[i] # freezes[i]
           => \E o \in Operators : /\ session[o].kind = "edit" /\ session[o].id = i
                                   /\ session[o].row = freezes[i] /\ session'[o] = NoSession]_vars
  <2> SUFFICES ASSUME IInv, [Next]_vars, NEW i \in FreezeIds,
                      freezes[i].status = "scheduled", freezes'[i].status = "scheduled",
                      freezes'[i] # freezes[i]
               PROVE  \E o \in Operators :
                        /\ session[o].kind = "edit" /\ session[o].id = i
                        /\ session[o].row = freezes[i] /\ session'[o] = NoSession
    OBVIOUS
  <2>1. Edits(i, freezes'[i])
    BY OneRowChanges DEF RowStep, Closes, Plans, Inserts, Activates, Relabels
  <2>2. QED BY <2>1 DEF Edits, IInv, RequestsHoldTheirRow
<1>2. QED BY <1>1, AlwaysIInv, PTL DEF Spec, EditsApplyToTheRowSeen

(* The scheduler leaves operators' freezes alone (decide.go, Decide). *)
THEOREM OperatorsKeepTheirFreezes == Spec => OperatorsFreezesAreKept
<1>1. IInv /\ [Next]_vars =>
        [\A i \in Active : freezes[i].origin \in {"manual", "planned"} =>
           \/ freezes'[i].status = "active"
           \/ freezes[i].planned # 0 /\ freezes[i].planned <= now
           \/ ops' # ops \/ session' # session]_vars
  <2> SUFFICES ASSUME IInv, [Next]_vars, NEW i \in Active,
                      freezes[i].origin \in {"manual", "planned"},
                      freezes'[i].status # "active"
               PROVE  \/ freezes[i].planned # 0 /\ freezes[i].planned <= now
                      \/ ops' # ops \/ session' # session
    OBVIOUS
  <2>1. i \in FreezeIds /\ freezes[i].sched = 0 /\ freezes \in [FreezeIds -> Freeze]
        /\ freezes[i].status = "active"
    BY DEF Active, IInv, TypeOK, OriginsFit
  <2>2. CASE OperatorStep
    <3>1. ops \in Nat
      BY DEF IInv, TypeOK
    <3>2. CASE ops' = ops + 1
      BY <3>1, <3>2
    <3>3. ASSUME NEW o \in Operators, Answered(o), session[o].kind # "none"
          PROVE  session' # session
      BY <3>3 DEF Answered, NoSession, IInv, TypeOK
    <3>4. QED
      BY <2>2, <3>2, <3>3
      DEF OperatorStep, FreezeNow, ScheduleFreeze, EditScheduled, CancelScheduled, StartNow,
          EndFreeze, CancelActive, Load, CreateSchedule, DeleteSchedule, ActivateSchedule,
          PauseSchedule, AddWindow, RemoveWindow, ScheduleChange, Counted
  <2>3. CASE ActOnBranch
    <3>1. decision.action \in {"none", "create", "end", "update"}
      BY DEF IInv, TypeOK, Decision
    <3>2. CASE decision.action = "create"
      BY <2>1, <2>3, <3>2 DEF ActOnBranch, Materialize, InsertActive
    <3>3. CASE decision.action = "end"
      BY <2>1, <2>3, <3>3
      DEF ActOnBranch, Dematerialize, Close, IInv, DecisionsAreAboutSchedulesRows
    <3>4. CASE decision.action = "update"
      BY <2>1, <2>3, <3>4 DEF ActOnBranch, Relabel
    <3>5. CASE decision.action = "none"
      BY <2>1, <2>3, <3>5 DEF ActOnBranch
    <3>6. QED BY <3>1, <3>2, <3>3, <3>4, <3>5
  <2>4. CASE RunnerStep
    <3>1. CASE ActivateScheduled
      BY <2>1, <3>1 DEF ActivateScheduled, Startable
    <3>2. CASE ExecutePlannedUnfreeze
      BY <2>1, <3>2 DEF ExecutePlannedUnfreeze, Close, Due
    <3>3. CASE ListDueScheduled \/ ListDuePlannedUnfreezes \/ ReadCoverage \/ DecideBranch
      BY <2>1, <3>3 DEF ListDueScheduled, ListDuePlannedUnfreezes, ReadCoverage, DecideBranch
    <3>4. QED BY <2>3, <2>4, <3>1, <3>2, <3>3 DEF RunnerStep
  <2>5. CASE EnvironmentStep \/ UNCHANGED vars
    BY <2>1, <2>5 DEF EnvironmentStep, RunnerFails, EnforcementLost, EnforcementRecovered,
       Reconciled, ClockMoves, vars
  <2>6. QED BY <2>2, <2>4, <2>5 DEF Next
<1>2. QED BY <1>1, AlwaysIInv, PTL DEF Spec, OperatorsFreezesAreKept

(* The materializer never freezes the branch inside a window an operator   *)
(* ended before it read the coverage (decide.go, eligibleSegments).        *)
THEOREM EndedWindowsAreLeft == Spec => EndedWindowsStayEnded
<1>1. IInv /\ [Next]_vars =>
        [\A i \in Active' \ Active : freezes'[i].origin = "schedule" =>
           LET s == freezes'[i].sched IN
             schedules[s].until > now => read.schedules[s] # schedules[s]]_vars
  <2> SUFFICES ASSUME IInv, [Next]_vars, NEW i \in Active' \ Active,
                      freezes'[i].origin = "schedule",
                      schedules[freezes'[i].sched].until > now,
                      read.schedules[freezes'[i].sched] = schedules[freezes'[i].sched]
               PROVE  FALSE
    OBVIOUS
  <2> DEFINE s == freezes'[i].sched
  <2>1. i \in FreezeIds /\ freezes'[i].status = "active" /\ freezes[i].status # "active"
    BY DEF Active
  <2>2. freezes[i].status # "scheduled" \/ freezes[i].origin # "schedule"
    BY <2>1 DEF IInv, OriginsFit
  <2>3. Inserts(i, freezes'[i])
    BY <2>1, <2>2, OneRowChanges DEF RowStep, Closes, Plans, Edits, Activates, Relabels
  <2>4. s \in ScheduleIds /\ read.at \in Eligible(schedules[s])
    BY <2>3 DEF Inserts, Exists, IInv, DecisionsFitTheReading
  <2>5. schedules[s] \in Schedule /\ read.at <= now
    BY <2>4 DEF IInv, TypeOK, DecisionsFitTheReading
  <2>6. schedules[s].until <= read.at
    BY <2>4, <2>5, EligibleHours
  <2>7. schedules[s].until \in Nat /\ read.at \in Nat /\ now \in Nat
    BY <2>5, TimeAssumption DEF IInv, TypeOK, Schedule, Times
  <2>8. QED BY <2>5, <2>6, <2>7
<1>2. QED BY <1>1, AlwaysIInv, PTL DEF Spec, EndedWindowsStayEnded

(* What operators did is not undone behind their backs, nor mixed up by    *)
(* another operator's edit (decide.go; store.go, editScheduled).           *)
THEOREM OperatorsStayHeeded == Spec => OperatorsAreHeeded
BY OperatorsKeepTheirFreezes, EditsNeverMix, PTL DEF OperatorsAreHeeded

(* No listing, decision or transaction that started earlier brings back a  *)
(* row that is over or a window that was ended.                            *)
THEOREM EndingsStayFinal == Spec => EndingsAreFinal
BY OverStaysOver, EndedWindowsAreLeft, PTL DEF EndingsAreFinal
-----------------------------------------------------------------------------
(* Least and greatest elements *)

(* A set of integers with a lower bound has a least element.               *)
LEMMA EarliestIsLeast ==
  ASSUME NEW T \in SUBSET Int, T # {}, NEW low \in Int, \A x \in T : low <= x
  PROVE  Earliest(T) \in T /\ \A y \in T : Earliest(T) <= y
<1> DEFINE shifted == {x - low : x \in T}
<1>1. shifted \subseteq Nat /\ shifted # {}
  <2>1. \A x \in T : x - low \in Nat
    OBVIOUS
  <2>2. PICK x \in T : TRUE
    OBVIOUS
  <2>3. x - low \in shifted
    OBVIOUS
  <2> QED BY <2>1, <2>3
<1>2. PICK n \in shifted : \A m \in shifted : n <= m
  <2> HIDE DEF shifted
  <2> QED BY <1>1, Least
<1>3. PICK x \in T : n = x - low
  OBVIOUS
<1>4. ASSUME NEW y \in T PROVE x <= y
  <2>1. y - low \in shifted /\ y - low \in Nat /\ n \in Nat
    BY <1>1
  <2>2. n <= y - low
    BY <1>2, <2>1
  <2> QED BY <1>3, <2>1, <2>2
<1> QED BY <1>4 DEF Earliest

(* A set of integers with an upper bound has a greatest one.               *)
LEMMA LatestIsGreatest ==
  ASSUME NEW T \in SUBSET Int, T # {}, NEW high \in Int, \A x \in T : x <= high
  PROVE  Latest(T) \in T /\ \A y \in T : y <= Latest(T)
<1> DEFINE negated == {-x : x \in T}
<1>1. negated \in SUBSET Int /\ negated # {} /\ -high \in Int /\ \A x \in negated : -high <= x
  <2>1. \A x \in T : -x \in Int /\ -high <= -x
    OBVIOUS
  <2>2. PICK x \in T : TRUE
    OBVIOUS
  <2>3. -x \in negated
    OBVIOUS
  <2> QED BY <2>1, <2>3
<1>2. Earliest(negated) \in negated /\ \A y \in negated : Earliest(negated) <= y
  <2> HIDE DEF negated
  <2> QED BY <1>1, EarliestIsLeast
<1>3. PICK x \in T : Earliest(negated) = -x
  BY <1>2
<1>4. \A y \in T : y <= x
  BY <1>2, <1>3
<1> QED BY <1>4 DEF Latest

(* What a function makes of a finite set is finite.                        *)
LEMMA FiniteImage ==
  ASSUME NEW S, IsFiniteSet(S), NEW f
  PROVE  IsFiniteSet({f[x] : x \in S})
<1> DEFINE T == {f[x] : x \in S}
           g == [x \in S |-> f[x]]
<1>1. g \in Surjection(S, T)
  BY DEF Surjection
<1> HIDE DEF T, g
<1> QED BY <1>1, FS_Surjection DEF T

(* Days are of equal length, and every wall is on one date.                *)
LEMMA Scale ==
  /\ DayTicks \in Int /\ DayTicks > 0 /\ WeekDays \in Int /\ WeekDays > 0
  /\ Probe \in Int /\ Probe > DayTicks /\ ScanTicks \in Int /\ ScanTicks >= 1 /\ ScanTicks <= DayTicks
  /\ PreviewDays \in Int /\ PreviewDays > 0
BY ScaleAssumption

LEMMA DaysAreApart ==
  ASSUME NEW d \in Int, NEW e \in Int, d < e
  PROVE  d * DayTicks \in Int /\ e * DayTicks \in Int /\ d * DayTicks + DayTicks <= e * DayTicks
<1>1. (e - d - 1) * DayTicks >= 0
  BY Scale
<1>2. (e - d - 1) * DayTicks = e * DayTicks - d * DayTicks - DayTicks
  BY Scale
<1>3. d * DayTicks \in Int /\ e * DayTicks \in Int
  BY Scale
<1> QED BY <1>1, <1>2, <1>3, Scale

LEMMA DateBounds ==
  ASSUME NEW w \in Int
  PROVE  /\ DateOf(w) \in Int
         /\ DateOf(w) * DayTicks <= w /\ w < DateOf(w) * DayTicks + DayTicks
BY Scale DEF DateOf

LEMMA DateIs ==
  ASSUME NEW w \in Int, NEW d \in Int
  PROVE  /\ d * DayTicks <= w <=> d <= DateOf(w)
         /\ w < d * DayTicks + DayTicks <=> DateOf(w) <= d
<1>1. DateOf(w) \in Int /\ DateOf(w) * DayTicks <= w /\ w < DateOf(w) * DayTicks + DayTicks
  BY DateBounds
<1>2. d < DateOf(w) => d * DayTicks + DayTicks <= DateOf(w) * DayTicks
  BY <1>1, DaysAreApart
<1>3. DateOf(w) < d => DateOf(w) * DayTicks + DayTicks <= d * DayTicks
  BY <1>1, DaysAreApart
<1>4. d * DayTicks \in Int /\ DateOf(w) * DayTicks \in Int
  BY <1>1, Scale
<1>5. CASE d = DateOf(w)
  BY <1>1, <1>4, <1>5
<1>6. CASE d < DateOf(w)
  BY <1>1, <1>2, <1>4, <1>6, Scale
<1>7. CASE DateOf(w) < d
  BY <1>1, <1>3, <1>4, <1>7, Scale
<1> QED BY <1>1, <1>5, <1>6, <1>7
-----------------------------------------------------------------------------
(* Walls *)

(* Where an occurrence that starts, or ends, at a wall really does.        *)
StartOf(z, w) == IF w < z.at + z.base THEN w - z.base
                 ELSE IF w >= z.at + z.base + z.shift THEN w - z.base - z.shift ELSE z.at
EndOf(z, w) == IF w >= z.at + z.base + z.shift THEN w - z.base - z.shift
               ELSE IF w < z.at + z.base THEN w - z.base ELSE z.at

(* What is assumed of a zone, as numbers.                                  *)
LEMMA ZoneBounds ==
  ASSUME NEW z, IsZone(z)
  PROVE  /\ z.base \in Int /\ z.at \in Int /\ z.shift \in Int
         /\ -DayTicks <= z.base /\ z.base <= DayTicks
         /\ -DayTicks <= z.base + z.shift /\ z.base + z.shift <= DayTicks
         /\ z.shift <= DayTicks /\ z.shift <= ScanTicks
         /\ \A t \in Int : Offset(z, t) = IF t < z.at THEN z.base ELSE z.base + z.shift
         /\ \A t \in Int : Offset(z, t) \in Int /\ Local(z, t) = t + Offset(z, t)
<1>1. /\ z.base \in Int /\ z.at \in Int /\ z.shift \in Int
      /\ z.base \in (-DayTicks)..DayTicks /\ z.base + z.shift \in (-DayTicks)..DayTicks
      /\ z.shift <= ScanTicks
  BY DEF IsZone
<1> QED BY <1>1, Scale DEF Offset, Local

(* Clocks are not put back by more than a day: that would repeat a date.   *)
LEMMA ShiftIsShort ==
  ASSUME NEW z, IsZone(z)
  PROVE  -DayTicks <= z.shift
<1>1. z.base \in Int /\ z.at \in Int /\ z.shift \in Int
  BY ZoneBounds
<1>2. CASE z.shift >= 0
  BY <1>1, <1>2, Scale
<1>3. CASE DateOf(z.at + z.base - 1) = DateOf(z.at + z.base + z.shift)
  <2> DEFINE before == z.at + z.base - 1
             after == z.at + z.base + z.shift
  <2>1. before \in Int /\ after \in Int
    BY <1>1
  <2>2. before < DateOf(before) * DayTicks + DayTicks /\ DateOf(after) * DayTicks <= after
    BY <2>1, DateBounds
  <2>3. DateOf(before) * DayTicks \in Int /\ DateOf(before) = DateOf(after)
    BY <2>1, <1>3, DateBounds, Scale
  <2>4. before < after + DayTicks
    <3> HIDE DEF before, after
    <3> QED BY <2>1, <2>2, <2>3, Scale
  <2> QED BY <1>1, <2>4, Scale
<1> QED BY <1>2, <1>3 DEF IsZone

(* The probes find both offsets wherever both are possible.                *)
LEMMA WallInstantsAre ==
  ASSUME NEW z, IsZone(z), NEW w \in Int
  PROVE  \A t : t \in wallInstants(z, w) <=>
           \/ t = w - z.base /\ (t < z.at \/ z.shift = 0)
           \/ t = w - z.base - z.shift /\ t >= z.at
<1> DEFINE probes == {-Probe, 0, Probe}
<1>1. \A t : t \in wallInstants(z, w) <=>
        (\E p \in probes : t = w - Offset(z, w + p)) /\ Local(z, t) = w
  BY DEF wallInstants
<1>2. /\ z.base \in Int /\ z.at \in Int /\ z.shift \in Int
      /\ -DayTicks <= z.base /\ z.base <= DayTicks
      /\ -DayTicks <= z.base + z.shift /\ z.base + z.shift <= DayTicks
      /\ \A t \in Int : Offset(z, t) = IF t < z.at THEN z.base ELSE z.base + z.shift
      /\ \A t \in Int : Offset(z, t) \in Int /\ Local(z, t) = t + Offset(z, t)
  BY ZoneBounds
<1>3. \A p \in probes : w + p \in Int
  BY Scale
<1>4. ASSUME NEW t, t \in wallInstants(z, w)
      PROVE  \/ t = w - z.base /\ (t < z.at \/ z.shift = 0)
             \/ t = w - z.base - z.shift /\ t >= z.at
  <2>1. PICK p \in probes : t = w - Offset(z, w + p) /\ Local(z, t) = w
    BY <1>1, <1>4
  <2>2. t \in Int /\ (t = w - z.base \/ t = w - z.base - z.shift)
    BY <1>2, <1>3, <2>1
  <2> QED BY <1>2, <2>1, <2>2
<1>5. ASSUME NEW t, t = w - z.base, t < z.at \/ z.shift = 0
      PROVE  t \in wallInstants(z, w)
  <2>1. t \in Int /\ Local(z, t) = w
    BY <1>2, <1>5
  <2>2. Offset(z, w + (-Probe)) = z.base
    BY <1>2, <1>3, <1>5, Scale
  <2> QED BY <1>1, <1>5, <2>1, <2>2
<1>6. ASSUME NEW t, t = w - z.base - z.shift, t >= z.at
      PROVE  t \in wallInstants(z, w)
  <2>1. t \in Int /\ Local(z, t) = w
    BY <1>2, <1>6
  <2>2. Offset(z, w + Probe) = z.base + z.shift
    BY <1>2, <1>3, <1>6, Scale
  <2>3. t = w - Offset(z, w + Probe)
    BY <1>2, <1>6, <2>2
  <2> QED BY <1>1, <2>1, <2>3
<1> QED BY <1>4, <1>5, <1>6

(* A gap ends where the clock is put forward, and the scan gets there.     *)
LEMMA FirstValidIs ==
  ASSUME NEW z, IsZone(z), NEW w \in Int,
         z.at + z.base <= w, w < z.at + z.base + z.shift
  PROVE  firstValidWallAfter(z, w) = z.at
<1> DEFINE valid == {k \in 1..ScanTicks : wallInstants(z, w + k) # {}}
           gap == z.at + z.base + z.shift - w
<1>1. /\ z.base \in Int /\ z.at \in Int /\ z.shift \in Int /\ z.shift <= ScanTicks
      /\ ScanTicks \in Int
  BY ZoneBounds, Scale
<1>2. gap \in 1..ScanTicks /\ w + gap = z.at + z.base + z.shift
  BY <1>1
<1>3. wallInstants(z, w + gap) = {z.at}
  <2>1. \A t : t \in wallInstants(z, w + gap) <=>
           \/ t = w + gap - z.base /\ (t < z.at \/ z.shift = 0)
           \/ t = w + gap - z.base - z.shift /\ t >= z.at
    BY <1>1, <1>2, WallInstantsAre
  <2>2. /\ w + gap - z.base - z.shift = z.at /\ z.shift > 0
        /\ w + gap - z.base = z.at + z.shift
    BY <1>1, <1>2
  <2> HIDE DEF gap
  <2>3. \A t : t \in wallInstants(z, w + gap) <=> t = z.at
    BY <1>1, <2>1, <2>2
  <2> QED BY <2>3
<1>4. ASSUME NEW k \in valid PROVE gap <= k
  <2> DEFINE v == w + k
  <2>1. v \in Int /\ k \in Int /\ k >= 1 /\ wallInstants(z, v) # {}
    BY <1>1
  <2>2. k = v - w
    BY <2>1
  <2> HIDE DEF v, valid
  <2>3. PICK t : t \in wallInstants(z, v)
    BY <2>1
  <2>4. \/ t = v - z.base /\ (t < z.at \/ z.shift = 0)
        \/ t = v - z.base - z.shift /\ t >= z.at
    BY <2>1, <2>3, WallInstantsAre
  <2> QED BY <1>1, <2>1, <2>2, <2>4
<1>5. Earliest(valid) = gap
  <2>1. gap \in valid /\ valid \in SUBSET Int /\ 1 \in Int /\ \A x \in valid : 1 <= x
    BY <1>1, <1>2, <1>3
  <2> HIDE DEF valid, gap
  <2>2. Earliest(valid) \in valid /\ \A y \in valid : Earliest(valid) <= y
    BY <2>1, EarliestIsLeast
  <2>3. Earliest(valid) \in Int /\ gap \in Int
    BY <2>1, <2>2
  <2> QED BY <1>4, <2>1, <2>2, <2>3
<1>6. Earliest({z.at}) = z.at
  BY <1>1 DEF Earliest
<1> HIDE DEF gap
<1> QED BY <1>3, <1>5, <1>6 DEF firstValidWallAfter

(* The two readings of a wall: the first and the last instant it may mean. *)
LEMMA ResolveWallIs ==
  ASSUME NEW z, IsZone(z), NEW w \in Int
  PROVE  /\ resolveWall(z, w, "start") = StartOf(z, w)
         /\ resolveWall(z, w, "end") = EndOf(z, w)
<1> DEFINE instants == wallInstants(z, w)
           early == w - z.base
           late == w - z.base - z.shift
<1>1. z.base \in Int /\ z.at \in Int /\ z.shift \in Int /\ early \in Int /\ late \in Int
  BY ZoneBounds
<1>2. \A t : t \in instants <=>
        \/ t = early /\ (early < z.at \/ z.shift = 0)
        \/ t = late /\ late >= z.at
  BY WallInstantsAre
<1>3. CASE z.at + z.base <= w /\ w < z.at + z.base + z.shift
  <2>1. instants = {}
    <3>1. ~(early < z.at) /\ z.shift # 0 /\ ~(late >= z.at)
      BY <1>1, <1>3
    <3> QED BY <1>2, <3>1
  <2>2. StartOf(z, w) = z.at /\ EndOf(z, w) = z.at
    BY <1>1, <1>3 DEF StartOf, EndOf
  <2> QED BY <1>3, <2>1, <2>2, FirstValidIs DEF resolveWall
<1>4. CASE ~(z.at + z.base <= w /\ w < z.at + z.base + z.shift)
  <2> HIDE DEF early, late, instants
  <2>1. StartOf(z, w) \in instants /\ \A t \in instants : t \in Int /\ StartOf(z, w) <= t
    BY <1>1, <1>2, <1>4 DEF StartOf, early, late
  <2>2. EndOf(z, w) \in instants /\ \A t \in instants : t <= EndOf(z, w)
    BY <1>1, <1>2, <1>4 DEF EndOf, early, late
  <2>3. Earliest(instants) = StartOf(z, w)
    BY <2>1 DEF Earliest
  <2>4. Latest(instants) = EndOf(z, w)
    BY <2>1, <2>2 DEF Latest
  <2> QED BY <2>1, <2>3, <2>4 DEF resolveWall, instants
<1> QED BY <1>3, <1>4

(* An instant is within an occurrence exactly from the one to the other.   *)
LEMMA WithinIs ==
  ASSUME NEW z, IsZone(z), NEW t \in Int, NEW a \in Int, NEW b \in Int
  PROVE  /\ Within(z, t, a, b) <=> StartOf(z, a) <= t /\ t < EndOf(z, b)
         /\ StartOf(z, a) \in Int /\ a - DayTicks <= StartOf(z, a) /\ StartOf(z, a) <= a + DayTicks
         /\ EndOf(z, b) \in Int /\ b - DayTicks <= EndOf(z, b) /\ EndOf(z, b) <= b + DayTicks
<1>1. /\ z.base \in Int /\ z.at \in Int /\ z.shift \in Int
      /\ -DayTicks <= z.base /\ z.base <= DayTicks
      /\ -DayTicks <= z.base + z.shift /\ z.base + z.shift <= DayTicks
      /\ \A u \in Int : Offset(z, u) = IF u < z.at THEN z.base ELSE z.base + z.shift
      /\ \A u \in Int : Offset(z, u) \in Int /\ Local(z, u) = u + Offset(z, u)
      /\ DayTicks \in Int
  BY ZoneBounds, Scale
<1>2. StartOf(z, a) \in Int /\ a - DayTicks <= StartOf(z, a) /\ StartOf(z, a) <= a + DayTicks
  BY <1>1 DEF StartOf
<1>3. EndOf(z, b) \in Int /\ b - DayTicks <= EndOf(z, b) /\ EndOf(z, b) <= b + DayTicks
  BY <1>1 DEF EndOf
<1>4. (\E u \in (a - DayTicks)..t : Local(z, u) >= a) <=> StartOf(z, a) <= t
  <2>1. Local(z, StartOf(z, a)) >= a
    BY <1>1, <1>2 DEF StartOf
  <2>2. ASSUME NEW u \in Int, Local(z, u) >= a PROVE StartOf(z, a) <= u
    BY <1>1, <2>2 DEF StartOf
  <2> QED BY <1>1, <1>2, <2>1, <2>2
<1>5. (\E v \in t..(b + DayTicks) : Local(z, v) < b \/ (v > t /\ Local(z, v) = b)) <=> t < EndOf(z, b)
  <2>1. ASSUME NEW v \in Int, v >= t, Local(z, v) < b \/ (v > t /\ Local(z, v) = b)
        PROVE  t < EndOf(z, b)
    BY <1>1, <2>1 DEF EndOf
  <2>2. ASSUME t < EndOf(z, b)
        PROVE  \E v \in t..(b + DayTicks) : Local(z, v) < b \/ (v > t /\ Local(z, v) = b)
    <3>1. CASE Local(z, EndOf(z, b)) = b
      BY <1>1, <1>3, <2>2, <3>1
    <3>2. CASE Local(z, EndOf(z, b)) # b
      <4>1. EndOf(z, b) = z.at /\ b >= z.at + z.base /\ b < z.at + z.base + z.shift
        BY <1>1, <1>3, <3>2 DEF EndOf
      <4>2. z.at - 1 \in t..(b + DayTicks) /\ Local(z, z.at - 1) < b
        BY <1>1, <1>3, <2>2, <4>1
      <4> QED BY <4>2
    <3> QED BY <3>1, <3>2
  <2> QED BY <1>1, <2>1, <2>2
<1> QED BY <1>2, <1>3, <1>4, <1>5 DEF Within
-----------------------------------------------------------------------------
(* Rules *)

(* What a rule lasts, by its place in the week: a whole week at most.      *)
Length(rule) == RuleWrapDays(rule) * DayTicks + rule.end - rule.start

LEMMA RuleTypes ==
  ASSUME NEW rule \in Rule
  PROVE  /\ rule.startDay \in Int /\ 0 <= rule.startDay /\ rule.startDay < WeekDays
         /\ rule.endDay \in Int /\ 0 <= rule.endDay /\ rule.endDay < WeekDays
         /\ rule.start \in Int /\ 0 <= rule.start /\ rule.start < DayTicks
         /\ rule.end \in Int /\ 0 <= rule.end /\ rule.end < DayTicks
BY Scale DEF Rule

LEMMA PlaceInWeek ==
  ASSUME NEW day \in Int, 0 <= day, day < WeekDays,
         NEW tick \in Int, 0 <= tick, tick < DayTicks
  PROVE  weekTicks(day, tick) \in Int /\ 0 <= weekTicks(day, tick)
         /\ weekTicks(day, tick) < WeekDays * DayTicks
<1>1. day * DayTicks + DayTicks <= WeekDays * DayTicks /\ day * DayTicks \in Int
      /\ WeekDays * DayTicks \in Int
  BY DaysAreApart, Scale
<1>2. day * DayTicks >= 0
  BY Scale
<1> QED BY <1>1, <1>2, Scale DEF weekTicks

LEMMA LengthIs ==
  ASSUME NEW rule \in Rule
  PROVE  LET starts == weekTicks(rule.startDay, rule.start)
             ends == weekTicks(rule.endDay, rule.end)
         IN  /\ RuleWrapDays(rule) \in Int /\ starts \in Int /\ ends \in Int
             /\ WeekDays * DayTicks \in Int
             /\ Length(rule) = ends - starts + (IF ends <= starts THEN WeekDays * DayTicks ELSE 0)
             /\ Length(rule) \in Int /\ 1 <= Length(rule) /\ Length(rule) <= WeekDays * DayTicks
             /\ starts # ends => Length(rule) < WeekDays * DayTicks
<1> DEFINE starts == weekTicks(rule.startDay, rule.start)
           ends == weekTicks(rule.endDay, rule.end)
           wraps == IF ends <= starts THEN WeekDays ELSE 0
<1>1. /\ starts \in Int /\ 0 <= starts /\ starts < WeekDays * DayTicks
      /\ ends \in Int /\ 0 <= ends /\ ends < WeekDays * DayTicks
  BY PlaceInWeek, RuleTypes
<1>2. WeekDays * DayTicks \in Int /\ wraps \in Int /\ wraps * DayTicks \in Int
      /\ wraps * DayTicks = IF ends <= starts THEN WeekDays * DayTicks ELSE 0
  BY Scale
<1>3. RuleWrapDays(rule) = (rule.endDay - rule.startDay) + wraps
  BY DEF RuleWrapDays
<1>4. /\ starts = rule.startDay * DayTicks + rule.start
      /\ ends = rule.endDay * DayTicks + rule.end
  BY DEF weekTicks
<1> HIDE DEF wraps, starts, ends
<1>5. RuleWrapDays(rule) * DayTicks
        = rule.endDay * DayTicks - rule.startDay * DayTicks + wraps * DayTicks
  BY <1>2, <1>3, RuleTypes, Scale
<1>6. rule.endDay * DayTicks \in Int /\ rule.startDay * DayTicks \in Int
  BY RuleTypes, Scale
<1>7. Length(rule) = ends - starts + wraps * DayTicks
  BY <1>1, <1>2, <1>4, <1>5, <1>6, RuleTypes DEF Length
<1>8. RuleWrapDays(rule) \in Int
  BY <1>2, <1>3, RuleTypes
<1> QED BY <1>1, <1>2, <1>7, <1>8 DEF starts, ends

LEMMA RuleWraps ==
  ASSUME NEW rule \in Rule
  PROVE  RuleWrapDays(rule) \in Int /\ 0 <= RuleWrapDays(rule) /\ RuleWrapDays(rule) <= WeekDays
<1> DEFINE wrap == RuleWrapDays(rule)
<1>1. wrap \in Int /\ Length(rule) \in Int /\ 1 <= Length(rule)
      /\ Length(rule) <= WeekDays * DayTicks /\ WeekDays * DayTicks \in Int
  BY LengthIs
<1> HIDE DEF wrap
<1>2. wrap * DayTicks \in Int /\ Length(rule) = wrap * DayTicks + rule.end - rule.start
  BY <1>1, Scale DEF Length, wrap
<1>3. 0 * DayTicks = 0
  BY Scale
<1>4. wrap < 0 => wrap * DayTicks + DayTicks <= 0
  BY <1>1, <1>3, DaysAreApart
<1>5. WeekDays < wrap => WeekDays * DayTicks + DayTicks <= wrap * DayTicks
  BY <1>1, DaysAreApart, Scale
<1>6. 0 <= wrap /\ wrap <= WeekDays
  BY <1>1, <1>2, <1>4, <1>5, RuleTypes, Scale
<1> QED BY <1>1, <1>6 DEF wrap

(* The walls between which the occurrence of a rule on a date lies.        *)
OpensOn(rule, d) == d * DayTicks + rule.start
ClosesOn(rule, d) == (d + RuleWrapDays(rule)) * DayTicks + rule.end
Occurrence(z, id, rule, d) ==
  Segment(id, StartOf(z, OpensOn(rule, d)), EndOf(z, ClosesOn(rule, d)))

LEMMA WallsOfRule ==
  ASSUME NEW rule \in Rule, NEW d \in Int
  PROVE  /\ OpensOn(rule, d) \in Int /\ ClosesOn(rule, d) \in Int /\ OpensOn(rule, d) < ClosesOn(rule, d)
         /\ d * DayTicks \in Int
         /\ d * DayTicks <= OpensOn(rule, d) /\ OpensOn(rule, d) < d * DayTicks + DayTicks
         /\ LET e == d + RuleWrapDays(rule) IN
            /\ e \in Int /\ e * DayTicks \in Int
            /\ e * DayTicks <= ClosesOn(rule, d) /\ ClosesOn(rule, d) < e * DayTicks + DayTicks
<1> DEFINE wrap == RuleWrapDays(rule)
           e == d + wrap
<1>1. wrap \in Int /\ e \in Int /\ d * DayTicks \in Int /\ wrap * DayTicks \in Int
      /\ e * DayTicks = d * DayTicks + wrap * DayTicks
  BY RuleWraps, Scale
<1>2. 1 <= wrap * DayTicks + rule.end - rule.start
  BY LengthIs DEF Length
<1>3. OpensOn(rule, d) = d * DayTicks + rule.start /\ ClosesOn(rule, d) = e * DayTicks + rule.end
  BY DEF OpensOn, ClosesOn
<1>4. /\ rule.start \in Int /\ 0 <= rule.start /\ rule.start < DayTicks
      /\ rule.end \in Int /\ 0 <= rule.end /\ rule.end < DayTicks
  BY RuleTypes
<1>5. e = d + RuleWrapDays(rule)
  OBVIOUS
<1> HIDE DEF wrap, e
<1>6. e * DayTicks \in Int
  BY <1>1, Scale
<1> QED BY <1>1, <1>2, <1>3, <1>4, <1>5, <1>6, Scale

(* What opens before it closes starts before it ends, or is swallowed.     *)
LEMMA StartsBeforeItEnds ==
  ASSUME NEW z, IsZone(z), NEW a \in Int, NEW b \in Int, a <= b
  PROVE  StartOf(z, a) <= EndOf(z, b)
BY ZoneBounds DEF StartOf, EndOf

(* A rule covers an instant within one of its occurrences; the dates that  *)
(* the definition looks at are enough.                                     *)
LEMMA CoversIs ==
  ASSUME NEW z, IsZone(z), NEW rule \in Rule, NEW t \in Int
  PROVE  Covers(z, rule, t) <=>
           \E d \in Int : /\ Weekday(d) = rule.startDay
                          /\ StartOf(z, OpensOn(rule, d)) <= t
                          /\ t < EndOf(z, ClosesOn(rule, d))
<1> DEFINE Dates == (DateOf(t) - WeekDays - 2)..(DateOf(t) + 2)
           In(d) == StartOf(z, OpensOn(rule, d)) <= t /\ t < EndOf(z, ClosesOn(rule, d))
<1>1. DateOf(t) \in Int /\ \A d \in Dates : d \in Int
  BY DateBounds, Scale
<1>2. ASSUME NEW d \in Int
      PROVE  Within(z, t, d * DayTicks + rule.start, (d + RuleWrapDays(rule)) * DayTicks + rule.end)
               <=> In(d)
  BY WithinIs, WallsOfRule DEF OpensOn, ClosesOn
<1>3. ASSUME NEW d \in Int, In(d) PROVE d \in Dates
  <2> DEFINE wrap == RuleWrapDays(rule)
             e == d + wrap
  <2>1. /\ OpensOn(rule, d) \in Int /\ d * DayTicks \in Int /\ d * DayTicks <= OpensOn(rule, d)
        /\ ClosesOn(rule, d) \in Int /\ e \in Int /\ e * DayTicks \in Int
        /\ ClosesOn(rule, d) < e * DayTicks + DayTicks
    BY WallsOfRule
  <2>2. /\ StartOf(z, OpensOn(rule, d)) \in Int /\ OpensOn(rule, d) - DayTicks <= StartOf(z, OpensOn(rule, d))
        /\ EndOf(z, ClosesOn(rule, d)) \in Int /\ EndOf(z, ClosesOn(rule, d)) <= ClosesOn(rule, d) + DayTicks
    BY <2>1, WithinIs
  <2>3. wrap \in Int /\ wrap <= WeekDays
    BY RuleWraps
  <2> HIDE DEF e
  <2>4. d * DayTicks - DayTicks <= t /\ t < e * DayTicks + DayTicks + DayTicks
    BY <1>3, <2>1, <2>2, Scale
  <2>5. (d - 1) * DayTicks = d * DayTicks - DayTicks
        /\ (e + 1) * DayTicks = e * DayTicks + DayTicks
    BY <2>1, Scale
  <2>6. d - 1 <= DateOf(t) /\ DateOf(t) <= e + 1
    BY <2>1, <2>4, <2>5, DateIs
  <2> HIDE DEF wrap
  <2> QED BY <1>1, <2>3, <2>6, Scale DEF e
<1>4. Covers(z, rule, t) <=> \E d \in Dates : Weekday(d) = rule.startDay /\ In(d)
  BY <1>1, <1>2 DEF Covers
<1> HIDE DEF Dates
<1> QED BY <1>1, <1>3, <1>4
-----------------------------------------------------------------------------
(* Expansion *)

LEMMA LaterDate ==
  ASSUME NEW a \in Int, NEW b \in Int, a <= b
  PROVE  DateOf(a) <= DateOf(b)
<1>1. DateOf(a) \in Int /\ DateOf(a) * DayTicks <= a /\ DateOf(a) * DayTicks \in Int
  BY DateBounds, Scale
<1>2. DateOf(a) * DayTicks <= b
  BY <1>1
<1> QED BY <1>1, <1>2, DateIs

(* What an expansion reads of the clock at its two ends.                   *)
LEMMA LocalOfEnds ==
  ASSUME NEW z, IsZone(z), NEW w \in Int, NEW t \in Int
  PROVE  /\ Local(z, t) \in Int
         /\ t < EndOf(z, w) => Local(z, t) <= w + DayTicks
         /\ StartOf(z, w) < t => DateOf(w) <= DateOf(Local(z, t))
<1>1. /\ z.base \in Int /\ z.at \in Int /\ z.shift \in Int /\ -DayTicks <= z.shift
      /\ Local(z, t) = t + (IF t < z.at THEN z.base ELSE z.base + z.shift)
  BY ZoneBounds, ShiftIsShort
<1>2. Local(z, t) \in Int
  BY <1>1
<1>3. ASSUME t < EndOf(z, w) PROVE Local(z, t) <= w + DayTicks
  BY <1>1, <1>3, Scale DEF EndOf
<1>4. ASSUME StartOf(z, w) < t PROVE DateOf(w) <= DateOf(Local(z, t))
  <2>1. CASE w <= Local(z, t)
    BY <1>2, <2>1, LaterDate
  <2>2. CASE ~(w <= Local(z, t))
    <3>1. z.shift < 0 /\ t >= z.at /\ w <= z.at + z.base - 1
      BY <1>1, <1>4, <2>2 DEF StartOf
    <3>2. DateOf(z.at + z.base - 1) = DateOf(z.at + z.base + z.shift)
      BY <1>1, <3>1 DEF IsZone
    <3>3. z.at + z.base - 1 \in Int /\ z.at + z.base + z.shift \in Int
          /\ z.at + z.base + z.shift <= Local(z, t)
      BY <1>1, <3>1
    <3>4. DateOf(w) <= DateOf(z.at + z.base - 1)
      BY <3>1, <3>3, LaterDate
    <3>5. DateOf(z.at + z.base + z.shift) <= DateOf(Local(z, t))
      BY <1>2, <3>3, LaterDate
    <3>6. DateOf(w) \in Int /\ DateOf(z.at + z.base - 1) \in Int /\ DateOf(Local(z, t)) \in Int
      BY <1>2, <3>3, DateBounds
    <3> QED BY <3>2, <3>4, <3>5, <3>6
  <2> QED BY <2>1, <2>2
<1> QED BY <1>2, <1>3, <1>4

(* The dates that are walked are those whose occurrences reach the window. *)
LEMMA DatesReach ==
  ASSUME NEW z, IsZone(z), NEW rule \in Rule, NEW from \in Int, NEW to \in Int
  PROVE  /\ IsFiniteSet(ruleDates(z, rule, from, to)) /\ ruleDates(z, rule, from, to) \subseteq Int
         /\ \A d \in ruleDates(z, rule, from, to) : Weekday(d) = rule.startDay
         /\ \A d \in Int :
              /\ Weekday(d) = rule.startDay
              /\ StartOf(z, OpensOn(rule, d)) < to /\ from < EndOf(z, ClosesOn(rule, d))
              => d \in ruleDates(z, rule, from, to)
<1> DEFINE wrap == RuleWrapDays(rule)
           first == DateOf(Local(z, from)) - (wrap + 1)
           last == DateOf(Local(z, to))
<1>1. wrap \in Int /\ Local(z, from) \in Int /\ Local(z, to) \in Int
  BY RuleWraps, LocalOfEnds
<1>2. first \in Int /\ last \in Int /\ DateOf(Local(z, from)) \in Int
  BY <1>1, DateBounds
<1>3. ruleDates(z, rule, from, to) = {d \in first..last : Weekday(d) = rule.startDay}
  BY DEF ruleDates
<1>4. IsFiniteSet(first..last) /\ first..last \subseteq Int
  <2> HIDE DEF first, last
  <2> QED BY <1>2, FS_Interval
<1>5. ASSUME NEW d \in Int, StartOf(z, OpensOn(rule, d)) < to, from < EndOf(z, ClosesOn(rule, d))
      PROVE  d \in first..last
  <2> DEFINE e == d + wrap
  <2>1. /\ OpensOn(rule, d) \in Int /\ d * DayTicks \in Int /\ d * DayTicks <= OpensOn(rule, d)
        /\ ClosesOn(rule, d) \in Int /\ e \in Int /\ e * DayTicks \in Int
        /\ ClosesOn(rule, d) < e * DayTicks + DayTicks
    BY WallsOfRule
  <2>2. e + 1 \in Int /\ (e + 1) * DayTicks = e * DayTicks + DayTicks
    <3> HIDE DEF e
    <3> QED BY <2>1, Scale
  <2>3. Local(z, from) < (e + 1) * DayTicks + DayTicks
    <3> HIDE DEF e
    <3>1. Local(z, from) <= ClosesOn(rule, d) + DayTicks
      BY <1>5, <2>1, LocalOfEnds
    <3> QED BY <1>1, <2>1, <2>2, <3>1, Scale
  <2>4. DateOf(Local(z, from)) <= e + 1
    <3> HIDE DEF e
    <3> QED BY <1>1, <2>2, <2>3, DateIs
  <2>5. d <= DateOf(OpensOn(rule, d)) /\ DateOf(OpensOn(rule, d)) \in Int
    BY <2>1, DateIs, DateBounds
  <2>6. DateOf(OpensOn(rule, d)) <= last
    BY <1>5, <2>1, LocalOfEnds
  <2> HIDE DEF last, wrap
  <2> QED BY <1>1, <1>2, <2>4, <2>5, <2>6
<1> HIDE DEF first, last
<1>6. IsFiniteSet(ruleDates(z, rule, from, to)) /\ ruleDates(z, rule, from, to) \subseteq Int
  BY <1>3, <1>4, FS_Subset
<1> QED BY <1>3, <1>5, <1>6

(* The segments of a schedule never end before they start.                 *)
Segments(id) == {x \in [id : {id}, start : Int, end : Int] : x.start <= x.end}

LEMMA SegmentIs ==
  ASSUME NEW id, NEW a \in Int, NEW b \in Int, a <= b
  PROVE  /\ Segment(id, a, b) \in Segments(id)
         /\ Segment(id, a, b).start = a /\ Segment(id, a, b).end = b /\ Segment(id, a, b).id = id
BY DEF Segment, Segments

In(x, t) == x.start <= t /\ t < x.end

(* A rule expands to its occurrences that reach the window.                *)
LEMMA RuleExpands ==
  ASSUME NEW z, IsZone(z), NEW id, NEW rule \in Rule, NEW from \in Int, NEW to \in Int
  PROVE  LET expanded == expandRule(z, id, rule, from, to) IN
         /\ IsFiniteSet(expanded) /\ expanded \subseteq Segments(id)
         /\ \A x \in expanded : /\ x.start < to /\ from < x.end
                                /\ \A t \in Int : In(x, t) => Covers(z, rule, t)
         /\ \A t \in Int : from <= t /\ t < to /\ Covers(z, rule, t) =>
              \E x \in expanded : In(x, t)
<1> DEFINE dates == ruleDates(z, rule, from, to)
           f == [d \in dates |-> Occurrence(z, id, rule, d)]
           all == {f[d] : d \in dates}
           expanded == {x \in all : Overlaps(x, from, to)}
<1>1. dates \subseteq Int /\ IsFiniteSet(dates)
  BY DatesReach
<1>2. ASSUME NEW d \in Int
      PROVE  /\ OpensOn(rule, d) \in Int /\ ClosesOn(rule, d) \in Int
             /\ StartOf(z, OpensOn(rule, d)) \in Int /\ EndOf(z, ClosesOn(rule, d)) \in Int
             /\ StartOf(z, OpensOn(rule, d)) <= EndOf(z, ClosesOn(rule, d))
             /\ Occurrence(z, id, rule, d) \in Segments(id)
             /\ Occurrence(z, id, rule, d).start = StartOf(z, OpensOn(rule, d))
             /\ Occurrence(z, id, rule, d).end = EndOf(z, ClosesOn(rule, d))
  <2>1. OpensOn(rule, d) \in Int /\ ClosesOn(rule, d) \in Int /\ OpensOn(rule, d) <= ClosesOn(rule, d)
    BY WallsOfRule
  <2>2. /\ StartOf(z, OpensOn(rule, d)) \in Int /\ EndOf(z, ClosesOn(rule, d)) \in Int
        /\ StartOf(z, OpensOn(rule, d)) <= EndOf(z, ClosesOn(rule, d))
    BY <2>1, WithinIs, StartsBeforeItEnds
  <2> QED BY <2>1, <2>2, SegmentIs DEF Occurrence
<1>3. expandRule(z, id, rule, from, to) = expanded
  <2>1. \A d \in dates : Occurrence(z, id, rule, d) =
          Segment(id, resolveWall(z, d * DayTicks + rule.start, "start"),
                      resolveWall(z, (d + RuleWrapDays(rule)) * DayTicks + rule.end, "end"))
    <3> SUFFICES ASSUME NEW d \in dates
                 PROVE  /\ resolveWall(z, OpensOn(rule, d), "start") = StartOf(z, OpensOn(rule, d))
                        /\ resolveWall(z, ClosesOn(rule, d), "end") = EndOf(z, ClosesOn(rule, d))
      BY DEF Occurrence, OpensOn, ClosesOn
    <3> QED BY <1>1, <1>2, ResolveWallIs
  <2> QED BY <2>1 DEF expandRule
<1>4. IsFiniteSet(expanded)
  <2>1. IsFiniteSet(all)
    <3> HIDE DEF dates, f
    <3> QED BY <1>1, FiniteImage
  <2> HIDE DEF all
  <2> QED BY <2>1, FS_Subset
<1>5. ASSUME NEW x \in expanded
      PROVE  /\ x \in Segments(id) /\ x.start < to /\ from < x.end
             /\ \A t \in Int : In(x, t) => Covers(z, rule, t)
  <2>1. PICK d \in dates : x = Occurrence(z, id, rule, d)
    OBVIOUS
  <2>2. d \in Int /\ Weekday(d) = rule.startDay /\ Overlaps(x, from, to)
    BY <1>1, DatesReach
  <2>3. x \in Segments(id) /\ x.start < to /\ from < x.end
    BY <1>2, <2>1, <2>2 DEF Overlaps
  <2>4. ASSUME NEW t \in Int, In(x, t) PROVE Covers(z, rule, t)
    <3>1. StartOf(z, OpensOn(rule, d)) <= t /\ t < EndOf(z, ClosesOn(rule, d))
      BY <1>2, <2>1, <2>2, <2>4 DEF In
    <3> QED BY <2>2, <3>1, CoversIs
  <2> QED BY <2>3, <2>4
<1>6. ASSUME NEW t \in Int, from <= t, t < to, Covers(z, rule, t)
      PROVE  \E x \in expanded : In(x, t)
  <2>1. PICK d \in Int : /\ Weekday(d) = rule.startDay
                         /\ StartOf(z, OpensOn(rule, d)) <= t /\ t < EndOf(z, ClosesOn(rule, d))
    BY <1>6, CoversIs
  <2> DEFINE a == StartOf(z, OpensOn(rule, d))
             b == EndOf(z, ClosesOn(rule, d))
  <2>2. a < to /\ from < b
    <3>1. a \in Int /\ b \in Int /\ a <= t /\ t < b
      BY <1>2, <2>1
    <3> HIDE DEF a, b
    <3> QED BY <1>6, <3>1
  <2>3. d \in dates
    BY <2>1, <2>2, DatesReach
  <2>4. Occurrence(z, id, rule, d) \in expanded /\ In(Occurrence(z, id, rule, d), t)
    BY <1>2, <2>1, <2>2, <2>3 DEF In, Overlaps
  <2> QED BY <2>4
<1> HIDE DEF expanded
<1> QED BY <1>3, <1>4, <1>5, <1>6

(* A schedule as the store hands it over.                                  *)
IsSchedule(s) ==
  /\ s \in [id : Int, kind : {"weekly", "dated"}, rules : SUBSET Rule, windows : SUBSET Window]
  /\ IsFiniteSet(s.rules) /\ IsFiniteSet(s.windows)
  /\ \A w \in s.windows : WindowValid(w)

Expanded(z, s, from, to) ==
  IF s.kind = "weekly" THEN expandWeekly(z, s, from, to) ELSE expandDated(z, s, from, to)

(* Segments that reach the window, of what is covered and of all of it.    *)
Expands(z, s, from, to, E) ==
  /\ IsFiniteSet(E) /\ E \subseteq Segments(s.id)
  /\ \A x \in E : /\ x.start < to /\ from < x.end
                  /\ \A t \in Int : In(x, t) => ScheduleCovers(z, s, t)
  /\ \A t \in Int : from <= t /\ t < to /\ ScheduleCovers(z, s, t) => \E x \in E : In(x, t)

(* A weekly schedule expands to the occurrences of its rules.              *)
LEMMA WeeklyExpands ==
  ASSUME NEW z, IsZone(z), NEW s, IsSchedule(s), s.kind = "weekly", NEW from \in Int, NEW to \in Int
  PROVE  Expands(z, s, from, to, expandWeekly(z, s, from, to))
<1> DEFINE Of(rule) == expandRule(z, s.id, rule, from, to)
           f == [rule \in s.rules |-> Of(rule)]
           sets == {f[rule] : rule \in s.rules}
           E == UNION sets
<1>1. s.rules \subseteq Rule /\ IsFiniteSet(s.rules)
  BY DEF IsSchedule
<1>2. ASSUME NEW rule \in s.rules
      PROVE  /\ IsFiniteSet(Of(rule)) /\ Of(rule) \subseteq Segments(s.id)
             /\ \A x \in Of(rule) : /\ x.start < to /\ from < x.end
                                    /\ \A t \in Int : In(x, t) => Covers(z, rule, t)
             /\ \A t \in Int : from <= t /\ t < to /\ Covers(z, rule, t) =>
                  \E x \in Of(rule) : In(x, t)
  BY <1>1, RuleExpands
<1>3. \A t : ScheduleCovers(z, s, t) <=> \E rule \in s.rules : Covers(z, rule, t)
  BY DEF ScheduleCovers
<1>4. sets = {Of(rule) : rule \in s.rules}
  OBVIOUS
<1> HIDE DEF Of
<1>5. IsFiniteSet(sets) /\ \A F \in sets : IsFiniteSet(F)
  <2>1. \A F \in sets : IsFiniteSet(F)
    BY <1>2, <1>4
  <2>2. IsFiniteSet(sets)
    <3> HIDE DEF f
    <3> QED BY <1>1, FiniteImage
  <2> QED BY <2>1, <2>2
<1> HIDE DEF sets
<1>6. IsFiniteSet(E)
  BY <1>5, FS_UNION
<1>7. ASSUME NEW x \in E PROVE \E rule \in s.rules : x \in Of(rule)
  BY <1>4
<1>8. ASSUME NEW rule \in s.rules, NEW x \in Of(rule) PROVE x \in E
  BY <1>4
<1>9. expandWeekly(z, s, from, to) = E
  BY <1>4 DEF expandWeekly, Of
<1> HIDE DEF E
<1>10. E \subseteq Segments(s.id)
  BY <1>2, <1>7
<1>11. ASSUME NEW x \in E
       PROVE /\ x.start < to /\ from < x.end
             /\ \A t \in Int : In(x, t) => ScheduleCovers(z, s, t)
  <2>1. PICK rule \in s.rules : x \in Of(rule)
    BY <1>7
  <2> QED BY <1>2, <1>3, <2>1
<1>12. ASSUME NEW t \in Int, from <= t, t < to, ScheduleCovers(z, s, t)
       PROVE \E x \in E : In(x, t)
  <2>1. PICK rule \in s.rules : Covers(z, rule, t)
    BY <1>3, <1>12
  <2>2. PICK x \in Of(rule) : In(x, t)
    BY <1>2, <1>12, <2>1
  <2> QED BY <1>8, <2>2
<1> QED BY <1>6, <1>9, <1>10, <1>11, <1>12 DEF Expands

(* A date window covers what lies between its two bounds.                  *)
LEMMA WindowIs ==
  ASSUME NEW z, IsZone(z), NEW id, NEW w \in Window
  PROVE  LET b == resolveWindowBounds(z, id, w) IN
         /\ w.start \in Int /\ w.end \in Int /\ b = Segment(id, StartOf(z, w.start), EndOf(z, w.end))
         /\ b.id = id /\ b.start = StartOf(z, w.start) /\ b.end = EndOf(z, w.end)
         /\ b.start \in Int /\ b.end \in Int /\ b.end <= w.end + DayTicks
         /\ \A t \in Int : Within(z, t, w.start, w.end) <=> In(b, t)
<1>1. w.start \in Int /\ w.end \in Int
  BY DEF Window
<1>2. resolveWindowBounds(z, id, w) = Segment(id, StartOf(z, w.start), EndOf(z, w.end))
  BY <1>1, ResolveWallIs DEF resolveWindowBounds
<1>3. /\ StartOf(z, w.start) \in Int /\ EndOf(z, w.end) \in Int /\ EndOf(z, w.end) <= w.end + DayTicks
      /\ \A t \in Int : Within(z, t, w.start, w.end) <=> StartOf(z, w.start) <= t /\ t < EndOf(z, w.end)
  BY <1>1, WithinIs
<1> QED BY <1>1, <1>2, <1>3 DEF Segment, In

(* A dated schedule expands to those of its windows that were not skipped. *)
LEMMA DatedExpands ==
  ASSUME NEW z, IsZone(z), NEW s, IsSchedule(s), s.kind # "weekly", NEW from \in Int, NEW to \in Int
  PROVE  Expands(z, s, from, to, expandDated(z, s, from, to))
<1> DEFINE Of(w) == resolveWindowBounds(z, s.id, w)
           f == [w \in s.windows |-> Of(w)]
           all == {f[w] : w \in s.windows}
           E == {x \in all : x.end > x.start /\ Overlaps(x, from, to)}
<1>1. s.windows \subseteq Window /\ IsFiniteSet(s.windows)
  BY DEF IsSchedule
<1>2. ASSUME NEW w \in s.windows
      PROVE  /\ Of(w).id = s.id /\ Of(w).start \in Int /\ Of(w).end \in Int
             /\ Of(w) = Segment(s.id, Of(w).start, Of(w).end)
             /\ \A t \in Int : Within(z, t, w.start, w.end) <=> In(Of(w), t)
  BY <1>1, WindowIs
<1>3. \A t : ScheduleCovers(z, s, t) <=> \E w \in s.windows : Within(z, t, w.start, w.end)
  BY DEF ScheduleCovers
<1>4. all = {Of(w) : w \in s.windows}
  OBVIOUS
<1>5. expandDated(z, s, from, to) = E
  BY <1>4 DEF expandDated
<1>6. IsFiniteSet(E)
  <2>1. IsFiniteSet(all)
    <3> HIDE DEF f
    <3> QED BY <1>1, FiniteImage
  <2> HIDE DEF all
  <2> QED BY <2>1, FS_Subset
<1> HIDE DEF Of
<1>7. ASSUME NEW x \in E
      PROVE  \E w \in s.windows : x = Of(w) /\ x.end > x.start /\ Overlaps(x, from, to)
  BY <1>4
<1>8. ASSUME NEW w \in s.windows, Of(w).end > Of(w).start, Overlaps(Of(w), from, to)
      PROVE  Of(w) \in E
  BY <1>4, <1>8
<1> HIDE DEF E
<1>9. ASSUME NEW x \in E
      PROVE  /\ x \in Segments(s.id) /\ x.start < to /\ from < x.end
             /\ \A t \in Int : In(x, t) => ScheduleCovers(z, s, t)
  <2>1. PICK w \in s.windows : x = Of(w) /\ x.end > x.start /\ Overlaps(x, from, to)
    BY <1>7
  <2>2. x.start \in Int /\ x.end \in Int /\ x = Segment(s.id, x.start, x.end)
    BY <1>2, <2>1
  <2>3. x \in Segments(s.id) /\ x.start < to /\ from < x.end
    BY <2>1, <2>2, SegmentIs DEF Overlaps
  <2> QED BY <1>2, <1>3, <2>1, <2>3
<1>10. ASSUME NEW t \in Int, from <= t, t < to, ScheduleCovers(z, s, t)
       PROVE \E x \in E : In(x, t)
  <2>1. PICK w \in s.windows : In(Of(w), t)
    BY <1>2, <1>3, <1>10
  <2>2. Of(w).end > Of(w).start /\ Overlaps(Of(w), from, to)
    BY <1>2, <1>10, <2>1 DEF In, Overlaps
  <2> QED BY <1>8, <2>1, <2>2
<1> QED BY <1>5, <1>6, <1>9, <1>10 DEF Expands

LEMMA ScheduleExpands ==
  ASSUME NEW z, IsZone(z), NEW s, IsSchedule(s), NEW from \in Int, NEW to \in Int
  PROVE  Expands(z, s, from, to, Expanded(z, s, from, to))
BY WeeklyExpands, DatedExpands DEF Expanded
-----------------------------------------------------------------------------
(* Merging *)

(* A finite set of integers has a greatest and a least element.            *)
LEMMA FiniteHasLatest ==
  ASSUME NEW T \in SUBSET Int, T # {}, IsFiniteSet(T)
  PROVE  Latest(T) \in T /\ \A y \in T : y <= Latest(T)
<1>1. PICK x \in T : x \in Int /\ \A y \in T : y <= x
  BY Greatest
<1> QED BY <1>1, LatestIsGreatest

LEMMA FiniteHasEarliest ==
  ASSUME NEW T \in SUBSET Int, T # {}, IsFiniteSet(T)
  PROVE  Earliest(T) \in T /\ \A y \in T : Earliest(T) <= y
<1> DEFINE f == [x \in T |-> -x]
           negated == {f[x] : x \in T}
<1>1. IsFiniteSet(negated)
  <2> HIDE DEF f
  <2> QED BY FiniteImage
<1>2. negated \in SUBSET Int /\ negated # {} /\ \A x \in T : -x \in negated
  <2>1. \A x \in T : -x \in Int /\ f[x] = -x
    OBVIOUS
  <2> HIDE DEF f
  <2> QED BY <2>1
<1> HIDE DEF negated
<1>3. Latest(negated) \in negated /\ \A y \in negated : y <= Latest(negated)
  BY <1>1, <1>2, FiniteHasLatest
<1>4. -Latest(negated) \in Int /\ \A x \in T : -Latest(negated) <= x
  <2>1. Latest(negated) \in Int
    BY <1>2, <1>3
  <2> QED BY <1>2, <1>3, <2>1
<1> QED BY <1>4, EarliestIsLeast

(* A block starts where a segment does, and takes in every segment from    *)
(* there to where the next block starts; it ends with the last to end.     *)
LEMMA BlockIs ==
  ASSUME NEW id, NEW S \in SUBSET Segments(id), IsFiniteSet(S), NEW b \in blockStarts(S)
  PROVE  LET ends == {y.end : y \in blockFrom(S, b)} IN
         /\ b \in Int
         /\ \E x \in blockFrom(S, b) : x.start = b
         /\ Latest(ends) \in Int /\ b <= Latest(ends)
         /\ \E y \in blockFrom(S, b) : y.end = Latest(ends)
         /\ \A y \in blockFrom(S, b) : y \in S /\ b <= y.start /\ y.end <= Latest(ends)
<1> DEFINE from == blockFrom(S, b)
           f == [y \in from |-> y.end]
           ends == {f[y] : y \in from}
<1>1. PICK x \in S : x.start = b
  BY DEF blockStarts
<1>2. \A y \in S : y.start \in Int /\ y.end \in Int /\ y.start <= y.end
  BY DEF Segments
<1>3. \A c \in blockStarts(S) : c \in Int
  BY <1>2 DEF blockStarts
<1>4. x \in from /\ from \subseteq S
  BY <1>1, <1>2, <1>3 DEF blockFrom
<1>5. ends = {y.end : y \in from}
  OBVIOUS
<1>6. IsFiniteSet(from)
  BY <1>4, FS_Subset
<1>7. IsFiniteSet(ends)
  <2> HIDE DEF f, from
  <2> QED BY <1>6, FiniteImage
<1>8. \A y \in from : b <= y.start
  BY DEF blockFrom
<1> HIDE DEF from, f
<1>9. ends \in SUBSET Int /\ ends # {}
  BY <1>2, <1>4, <1>5
<1>10. \A y \in from : y.end \in ends
  BY <1>5
<1>11. \A e \in ends : \E y \in from : y.end = e
  BY <1>5
<1> HIDE DEF ends
<1>12. Latest(ends) \in ends /\ \A e \in ends : e <= Latest(ends)
  BY <1>7, <1>9, FiniteHasLatest
<1>13. Latest(ends) \in Int /\ b \in Int /\ x.end \in Int /\ b <= x.end /\ x.end <= Latest(ends)
  BY <1>1, <1>2, <1>4, <1>9, <1>10, <1>12
<1>14. b <= Latest(ends)
  BY <1>13
<1> QED BY <1>1, <1>4, <1>5, <1>8, <1>10, <1>11, <1>12, <1>13, <1>14 DEF from

BlockAt(id, S, b) == Segment(id, b, Latest({y.end : y \in blockFrom(S, b)}))

(* The blocks, one for each start.                                         *)
LEMMA BlocksAre ==
  ASSUME NEW id, NEW S \in SUBSET Segments(id), IsFiniteSet(S)
  PROVE  /\ IsFiniteSet(mergeSegments(S))
         /\ \A m : m \in mergeSegments(S) <=> \E b \in blockStarts(S) : m = BlockAt(id, S, b)
<1> DEFINE X == {s \in S : s.start \in blockStarts(S)}
           f == [x \in X |-> BlockAt(id, S, x.start)]
<1>1. \A x \in X : x.id = id
  BY DEF Segments
<1>2. mergeSegments(S) = {f[x] : x \in X}
  <2>1. \A x \in X : f[x] = Segment(x.id, x.start, Latest({y.end : y \in blockFrom(S, x.start)}))
    BY <1>1 DEF BlockAt
  <2> HIDE DEF f
  <2> QED BY <2>1 DEF mergeSegments
<1>3. IsFiniteSet(X)
  BY FS_Subset
<1>4. IsFiniteSet(mergeSegments(S))
  <2> HIDE DEF X, f
  <2> QED BY <1>2, <1>3, FiniteImage
<1>5. \A b \in blockStarts(S) : \E x \in X : x.start = b
  BY DEF blockStarts
<1>6. \A m : m \in mergeSegments(S) <=> \E x \in X : m = BlockAt(id, S, x.start)
  BY <1>2
<1>7. \A x \in X : x.start \in blockStarts(S)
  OBVIOUS
<1> HIDE DEF X
<1> QED BY <1>4, <1>5, <1>6, <1>7

(* Every segment is taken in by a block.                                   *)
LEMMA BlockTakesIn ==
  ASSUME NEW id, NEW S \in SUBSET Segments(id), IsFiniteSet(S), NEW s \in S
  PROVE  \E b \in blockStarts(S) : s \in blockFrom(S, b)
<1> DEFINE f == [x \in S |-> x.start]
           starts == {f[x] : x \in S}
           earlier == {b \in blockStarts(S) : b <= s.start}
<1>1. \A y \in S : y.start \in Int /\ y.end \in Int
  BY DEF Segments
<1>2. IsFiniteSet(starts)
  <2> HIDE DEF f
  <2> QED BY FiniteImage
<1>3. starts \in SUBSET Int /\ starts # {} /\ (\A y \in S : y.start \in starts)
      /\ \A c \in starts : \E x \in S : x.start = c
  BY <1>1
<1> HIDE DEF starts
<1>4. Earliest(starts) \in starts /\ \A c \in starts : Earliest(starts) <= c
  BY <1>2, <1>3, FiniteHasEarliest
<1>5. PICK x \in S : x.start = Earliest(starts)
  BY <1>3, <1>4
<1>6. x.start \in blockStarts(S) /\ x.start <= s.start
  <2>1. \A y \in S : x.start <= y.start
    BY <1>3, <1>4, <1>5
  <2>2. \A y \in S : ~(y.start < x.start)
    BY <1>1, <2>1
  <2> QED BY <2>1, <2>2 DEF blockStarts
<1>7. earlier # {} /\ earlier \subseteq starts
  BY <1>3, <1>6 DEF blockStarts
<1>8. earlier \in SUBSET Int /\ IsFiniteSet(earlier)
  BY <1>2, <1>3, <1>7, FS_Subset
<1>9. Latest(earlier) \in earlier /\ \A b \in earlier : b <= Latest(earlier)
  <2> HIDE DEF earlier
  <2> QED BY <1>7, <1>8, FiniteHasLatest
<1>10. s \in blockFrom(S, Latest(earlier))
  BY <1>9 DEF blockFrom
<1> QED BY <1>9, <1>10

(* Blocks cover what the segments do, and neither overlap nor touch.       *)
LEMMA MergeIsUnion ==
  ASSUME NEW id, NEW S \in SUBSET Segments(id), IsFiniteSet(S)
  PROVE  LET M == mergeSegments(S) IN
         /\ IsFiniteSet(M) /\ M \subseteq Segments(id)
         /\ \A m \in M : (\E x \in S : m.start = x.start) /\ (\E y \in S : m.end = y.end)
         /\ \A t \in Int : (\E m \in M : In(m, t)) <=> \E s \in S : In(s, t)
         /\ \A m, n \in M : m # n => m.end < n.start \/ n.end < m.start
<1> DEFINE M == mergeSegments(S)
           B == blockStarts(S)
           last(b) == Latest({y.end : y \in blockFrom(S, b)})
<1>1. \A y \in S : y.start \in Int /\ y.end \in Int /\ y.start <= y.end
  BY DEF Segments
<1>2. ASSUME NEW b \in B
      PROVE  /\ b \in Int /\ last(b) \in Int /\ b <= last(b)
             /\ \E x \in S : x.start = b
             /\ \E y \in blockFrom(S, b) : y.end = last(b)
             /\ \A y \in blockFrom(S, b) : y \in S /\ b <= y.start /\ y.end <= last(b)
             /\ BlockAt(id, S, b) \in Segments(id)
             /\ BlockAt(id, S, b).start = b /\ BlockAt(id, S, b).end = last(b)
  <2>1. /\ b \in Int /\ last(b) \in Int /\ b <= last(b)
        /\ \E x \in blockFrom(S, b) : x.start = b
        /\ \E y \in blockFrom(S, b) : y.end = last(b)
        /\ \A y \in blockFrom(S, b) : y \in S /\ b <= y.start /\ y.end <= last(b)
    BY BlockIs
  <2>2. BlockAt(id, S, b) = Segment(id, b, last(b))
    BY DEF BlockAt
  <2> HIDE DEF last
  <2> QED BY <2>1, <2>2, SegmentIs
<1>3. IsFiniteSet(M) /\ \A m : m \in M <=> \E b \in B : m = BlockAt(id, S, b)
  BY BlocksAre
<1>4. ASSUME NEW c \in B, NEW y \in S, y.start < c PROVE y.end < c
  BY <1>4 DEF blockStarts
<1> HIDE DEF M, last
<1>5. \A m \in M : m \in Segments(id) /\ (\E x \in S : m.start = x.start) /\ (\E y \in S : m.end = y.end)
  <2> SUFFICES ASSUME NEW m \in M
               PROVE  m \in Segments(id) /\ (\E x \in S : m.start = x.start) /\ (\E y \in S : m.end = y.end)
    OBVIOUS
  <2>1. PICK b \in B : m = BlockAt(id, S, b)
    BY <1>3
  <2> HIDE DEF B
  <2>2. PICK x \in S : x.start = b
    BY <1>2
  <2>3. PICK y \in blockFrom(S, b) : y.end = last(b)
    BY <1>2
  <2>4. y \in S
    BY <1>2
  <2> QED BY <1>2, <2>1, <2>2, <2>3, <2>4
<1>6. ASSUME NEW t \in Int, NEW s \in S, In(s, t) PROVE \E m \in M : In(m, t)
  <2>1. PICK b \in B : s \in blockFrom(S, b)
    BY BlockTakesIn
  <2>2. /\ b \in Int /\ last(b) \in Int /\ b <= s.start /\ s.end <= last(b)
        /\ BlockAt(id, S, b).start = b /\ BlockAt(id, S, b).end = last(b)
    BY <1>2, <2>1
  <2>3. In(BlockAt(id, S, b), t)
    BY <1>1, <1>6, <2>2 DEF In
  <2> QED BY <1>3, <2>3
<1>7. ASSUME NEW t \in Int, NEW m \in M, In(m, t) PROVE \E s \in S : In(s, t)
  <2> SUFFICES ASSUME \A s \in S : ~In(s, t) PROVE FALSE
    OBVIOUS
  <2>1. PICK b \in B : m = BlockAt(id, S, b)
    BY <1>3
  <2>2. b \in Int /\ last(b) \in Int /\ b <= t /\ t < last(b)
    BY <1>2, <1>7, <2>1 DEF In
  <2>3. PICK y \in blockFrom(S, b) : y.end = last(b)
    BY <1>2
  <2>4. y \in S /\ t < y.start
    <3>1. y \in S
      BY <1>2
    <3> QED BY <1>1, <2>2, <2>3, <3>1 DEF In
  <2> DEFINE later == {x \in S : t < x.start}
             f == [x \in later |-> x.start]
             U == {f[x] : x \in later}
  <2>5. IsFiniteSet(U)
    <3>1. IsFiniteSet(later)
      BY FS_Subset
    <3> HIDE DEF later, f
    <3> QED BY <3>1, FiniteImage
  <2>6. U \in SUBSET Int /\ y.start \in U /\ (\A x \in S : t < x.start => x.start \in U)
        /\ \A c \in U : \E x \in S : x.start = c /\ t < c
    BY <1>1, <2>4
  <2> HIDE DEF U
  <2> DEFINE c == Earliest(U)
  <2>7. c \in U /\ \A u \in U : c <= u
    BY <2>5, <2>6, FiniteHasEarliest
  <2> HIDE DEF c
  <2>8. PICK x \in S : x.start = c /\ t < c
    BY <2>6, <2>7
  <2>9. \A z \in S : z.start < c => z.end < c
    <3> SUFFICES ASSUME NEW z \in S, z.start < c PROVE z.end < c
      OBVIOUS
    <3>1. c \in Int /\ z.start \in Int /\ z.end \in Int
      BY <1>1, <2>8
    <3>2. ~(t < z.start)
      BY <2>6, <2>7, <3>1
    <3>3. z.end <= t
      BY <3>1, <3>2 DEF In
    <3> QED BY <2>8, <3>1, <3>3
  <2>10. c \in B
    BY <2>8, <2>9 DEF blockStarts
  <2>11. c <= y.start => c <= b
    BY <2>10 DEF blockFrom
  <2> HIDE DEF B
  <2>12. c \in Int
    BY <1>1, <2>8
  <2>13. c <= y.start
    BY <2>6, <2>7
  <2>14. c <= b /\ t < c
    BY <2>8, <2>11, <2>13
  <2> QED BY <2>2, <2>12, <2>14
<1>8. ASSUME NEW b \in B, NEW c \in B, b < c PROVE last(b) < c
  <2>1. PICK y \in blockFrom(S, b) : y.end = last(b)
    BY <1>2
  <2>2. y \in S /\ y.start \in Int /\ b \in Int /\ c \in Int
    BY <1>1, <1>2, <2>1
  <2>3. c <= y.start => c <= b
    BY DEF blockFrom
  <2>4. y.start < c
    BY <1>8, <2>2, <2>3
  <2> QED BY <1>4, <2>1, <2>2, <2>4
<1>9. ASSUME NEW m \in M, NEW n \in M, m # n PROVE m.end < n.start \/ n.end < m.start
  <2>1. PICK b \in B : m = BlockAt(id, S, b)
    BY <1>3
  <2>2. PICK c \in B : n = BlockAt(id, S, c)
    BY <1>3
  <2>3. b # c /\ b \in Int /\ c \in Int
    BY <1>2, <1>9, <2>1, <2>2
  <2> HIDE DEF B
  <2>4. b < c \/ c < b
    BY <2>3
  <2> QED BY <1>2, <1>8, <2>1, <2>2, <2>4
<1> QED BY <1>3, <1>5, <1>6, <1>7, <1>9 DEF M
-----------------------------------------------------------------------------
(* Coverage *)

LEMMA SchedulesOf ==
  ASSUME NEW scheds, IsCalendar(scheds), NEW s \in scheds
  PROVE  IsSchedule(s) /\ IsCalendar({s})
<1>1. s \in [id : Int, kind : {"weekly", "dated"}, rules : SUBSET Rule, windows : SUBSET Window]
  BY DEF IsCalendar
<1>2. IsFiniteSet(s.rules) /\ IsFiniteSet(s.windows) /\ \A w \in s.windows : WindowValid(w)
  BY DEF IsCalendar
<1>3. IsFiniteSet({s})
  BY FS_Singleton
<1> QED BY <1>1, <1>2, <1>3 DEF IsCalendar, IsSchedule

(* What the expansion of a calendar is, schedule by schedule.              *)
Coverage(z, scheds, from, to, C) ==
  /\ IsFiniteSet(C)
  /\ \A x \in C : /\ x.start \in Int /\ x.end \in Int /\ x.start <= x.end
                  /\ x.start < to /\ from < x.end
                  /\ x = Segment(x.id, x.start, x.end)
                  /\ \E s \in scheds : x.id = s.id
  /\ \A s \in scheds :
       /\ \A x \in C : x.id = s.id => \A t \in Int : In(x, t) => ScheduleCovers(z, s, t)
       /\ \A t \in Int : from <= t /\ t < to /\ ScheduleCovers(z, s, t) =>
            \E x \in C : x.id = s.id /\ In(x, t)
       /\ \A x, y \in C : x.id = s.id /\ y.id = s.id /\ x # y =>
            x.end < y.start \/ y.end < x.start

LEMMA CoverageIs ==
  ASSUME NEW z, IsZone(z), NEW scheds, IsCalendar(scheds), NEW from \in Int, NEW to \in Int
  PROVE  Coverage(z, scheds, from, to, ExpandCoverage(z, scheds, from, to))
<1> DEFINE C == ExpandCoverage(z, scheds, from, to)
           E(s) == Expanded(z, s, from, to)
           f == [s \in scheds |-> mergeSegments(E(s))]
           sets == {f[s] : s \in scheds}
<1>1. C = UNION {mergeSegments(E(s)) : s \in scheds}
  BY DEF ExpandCoverage, Expanded
<1>2. sets = {mergeSegments(E(s)) : s \in scheds}
  OBVIOUS
<1> HIDE DEF E, C
<1>3. ASSUME NEW s \in scheds
      PROVE  LET M == mergeSegments(E(s)) IN
             /\ IsFiniteSet(M) /\ M \subseteq Segments(s.id)
             /\ \A m \in M : (\E x \in E(s) : m.start = x.start) /\ (\E y \in E(s) : m.end = y.end)
             /\ \A t \in Int : (\E m \in M : In(m, t)) <=> \E x \in E(s) : In(x, t)
             /\ \A m, n \in M : m # n => m.end < n.start \/ n.end < m.start
             /\ \A x \in E(s) : /\ x.start < to /\ from < x.end
                                /\ \A t \in Int : In(x, t) => ScheduleCovers(z, s, t)
             /\ \A t \in Int : from <= t /\ t < to /\ ScheduleCovers(z, s, t) =>
                  \E x \in E(s) : In(x, t)
  <2>1. Expands(z, s, from, to, E(s))
    BY SchedulesOf, ScheduleExpands DEF E
  <2>2. IsFiniteSet(E(s)) /\ E(s) \in SUBSET Segments(s.id)
    BY <2>1 DEF Expands
  <2> QED BY <2>1, <2>2, MergeIsUnion DEF Expands
<1>4. \A r, s \in scheds : r.id = s.id => r = s
  BY DEF IsCalendar
<1>5. ASSUME NEW s \in scheds, NEW x
      PROVE  x \in mergeSegments(E(s)) <=> x \in C /\ x.id = s.id
  <2>1. \A r \in scheds : \A y \in mergeSegments(E(r)) : y.id = r.id
    BY <1>3 DEF Segments
  <2>2. x \in C <=> \E r \in scheds : x \in mergeSegments(E(r))
    BY <1>1
  <2> QED BY <1>4, <2>1, <2>2
<1>6. ASSUME NEW x \in C
      PROVE  \E s \in scheds : x \in mergeSegments(E(s)) /\ x.id = s.id
  <2>1. PICK s \in scheds : x \in mergeSegments(E(s))
    BY <1>1
  <2> QED BY <1>5, <2>1
<1>7. IsFiniteSet(C)
  <2>1. IsFiniteSet(scheds)
    BY DEF IsCalendar
  <2>2. IsFiniteSet(sets)
    <3> HIDE DEF f
    <3> QED BY <2>1, FiniteImage
  <2>3. \A F \in sets : IsFiniteSet(F)
    BY <1>2, <1>3
  <2>4. C = UNION sets
    BY <1>1, <1>2
  <2> HIDE DEF sets
  <2> QED BY <2>2, <2>3, <2>4, FS_UNION
<1>8. ASSUME NEW x \in C
      PROVE  /\ x.start \in Int /\ x.end \in Int /\ x.start <= x.end
             /\ x.start < to /\ from < x.end
             /\ x = Segment(x.id, x.start, x.end)
             /\ \E s \in scheds : x.id = s.id
  <2>1. PICK s \in scheds : x \in mergeSegments(E(s)) /\ x.id = s.id
    BY <1>6
  <2>2. x \in Segments(s.id)
    BY <1>3, <2>1
  <2>3. x.start < to /\ from < x.end
    BY <1>3, <2>1
  <2>4. x = Segment(x.id, x.start, x.end)
    BY <2>2 DEF Segments, Segment
  <2> QED BY <2>1, <2>2, <2>3, <2>4 DEF Segments
<1>9. ASSUME NEW s \in scheds, NEW x \in C, x.id = s.id, NEW t \in Int, In(x, t)
      PROVE  ScheduleCovers(z, s, t)
  <2>1. x \in mergeSegments(E(s))
    BY <1>5, <1>9
  <2>2. PICK y \in E(s) : In(y, t)
    BY <1>3, <1>9, <2>1
  <2> QED BY <1>3, <2>2
<1>10. ASSUME NEW s \in scheds, NEW t \in Int, from <= t, t < to, ScheduleCovers(z, s, t)
       PROVE  \E x \in C : x.id = s.id /\ In(x, t)
  <2>1. PICK y \in E(s) : In(y, t)
    BY <1>3, <1>10
  <2>2. PICK x \in mergeSegments(E(s)) : In(x, t)
    BY <1>3, <2>1
  <2> QED BY <1>5, <2>2
<1>11. ASSUME NEW s \in scheds, NEW x \in C, NEW y \in C, x.id = s.id, y.id = s.id, x # y
       PROVE  x.end < y.start \/ y.end < x.start
  BY <1>3, <1>5, <1>11
<1> QED BY <1>7, <1>8, <1>9, <1>10, <1>11 DEF Coverage, C

LEMMA TicksAre ==
  ASSUME NEW S, \A x \in S : x.start \in Int /\ x.end \in Int
  PROVE  \A t : t \in Ticks(S) <=> t \in Int /\ \E x \in S : In(x, t)
<1>1. \A t : t \in Ticks(S) <=> \E x \in S : t \in x.start..(x.end - 1)
  BY DEF Ticks
<1>2. \A x \in S : \A t : t \in x.start..(x.end - 1) <=> t \in Int /\ In(x, t)
  BY DEF In
<1> QED BY <1>1, <1>2

(* The expansion of any calendar over any span covers, schedule by         *)
(* schedule, exactly the instants of the span that its rules or windows    *)
(* do, in blocks that neither overlap nor touch (ExpandCoverage).          *)
THEOREM ExpansionsAreExact ==
  ASSUME NEW z, IsZone(z), NEW scheds, IsCalendar(scheds), NEW from \in Int, NEW to \in Int
  PROVE  ExpansionIsExact(z, scheds, from, to)
<1> DEFINE C == ExpandCoverage(z, scheds, from, to)
<1>1. Coverage(z, scheds, from, to, C)
  BY CoverageIs
<1> HIDE DEF C
<1> SUFFICES ASSUME NEW s \in scheds
             PROVE  LET segments == {x \in C : x.id = s.id}
                    IN  /\ Ticks(segments) \cap from..(to - 1)
                             = {t \in from..(to - 1) : ScheduleCovers(z, s, t)}
                        /\ \A x, y \in segments : x # y => (x.end < y.start \/ y.end < x.start)
                        /\ \A x \in segments : x.start < x.end /\ x.end < to =>
                              ~ScheduleCovers(z, s, x.end) /\ ScheduleCovers(z, s, x.end - 1)
  BY DEF ExpansionIsExact, C
<1> DEFINE segments == {x \in C : x.id = s.id}
<1>2. \A x \in segments : x \in C /\ x.id = s.id /\ x.start \in Int /\ x.end \in Int /\ from < x.end
  BY <1>1 DEF Coverage
<1>3. \A x, y \in segments : x # y => (x.end < y.start \/ y.end < x.start)
  BY <1>1 DEF Coverage
<1>4. \A x \in segments : \A t \in Int : In(x, t) => ScheduleCovers(z, s, t)
  BY <1>1 DEF Coverage
<1>5. \A t \in Int : from <= t /\ t < to /\ ScheduleCovers(z, s, t) => \E x \in segments : In(x, t)
  BY <1>1 DEF Coverage
<1> HIDE DEF segments
<1>6. ASSUME NEW t \in Int, from <= t, t < to
      PROVE  t \in Ticks(segments) <=> ScheduleCovers(z, s, t)
  <2>1. t \in Ticks(segments) <=> \E x \in segments : In(x, t)
    BY <1>2, TicksAre
  <2> QED BY <1>4, <1>5, <1>6, <2>1
<1>7. Ticks(segments) \cap from..(to - 1) = {t \in from..(to - 1) : ScheduleCovers(z, s, t)}
  <2>1. \A t \in from..(to - 1) : t \in Int /\ from <= t /\ t < to
    OBVIOUS
  <2> QED BY <1>6, <2>1
<1>8. ASSUME NEW x \in segments, x.start < x.end, x.end < to
      PROVE  ~ScheduleCovers(z, s, x.end) /\ ScheduleCovers(z, s, x.end - 1)
  <2>1. In(x, x.end - 1) /\ x.end - 1 \in Int
    BY <1>2, <1>8 DEF In
  <2>2. ASSUME ScheduleCovers(z, s, x.end) PROVE FALSE
    <3>1. PICK y \in segments : In(y, x.end)
      BY <1>2, <1>5, <1>8, <2>2
    <3>2. x.start \in Int /\ x.end \in Int /\ y.start \in Int /\ y.end \in Int
          /\ y.start <= x.end /\ x.end < y.end
      BY <1>2, <3>1 DEF In
    <3>3. x # y
      BY <3>2
    <3>4. x.end < y.start \/ y.end < x.start
      BY <1>3, <3>3
    <3> QED BY <1>8, <3>2, <3>4
  <2> QED BY <1>4, <2>1, <2>2
<1> QED BY <1>3, <1>7, <1>8 DEF segments

-----------------------------------------------------------------------------
(* What is made of the segments *)

(* A date window is accepted when an instant to come is within it.         *)
LEMMA WindowsCover ==
  ASSUME NEW z, IsZone(z), NEW w \in Window, NEW at \in Int
  PROVE  AcceptedWindowsCover(z, w, at)
<1> DEFINE b == resolveWindowBounds(z, 0, w)
           last == w.end + DayTicks
<1>1. /\ w.start \in Int /\ w.end \in Int /\ b.start \in Int /\ b.end \in Int /\ b.end <= last
      /\ \A t \in Int : Within(z, t, w.start, w.end) <=> In(b, t)
  BY WindowIs
<1>2. last \in Int
  BY <1>1, Scale
<1>3. WindowAccepted(z, w, at) <=> w.end > w.start /\ b.end > b.start /\ b.end > at
  BY DEF WindowAccepted, WindowValid
<1> HIDE DEF b, last
<1>4. ASSUME b.end > b.start, b.end > at
      PROVE  \E t \in at..last : Within(z, t, w.start, w.end)
  <2>1. CASE b.start <= at
    <3>1. In(b, at) /\ at \in at..last
      BY <1>1, <1>2, <1>4, <2>1 DEF In
    <3> QED BY <1>1, <3>1
  <2>2. CASE at < b.start
    <3>1. In(b, b.start) /\ b.start \in at..last
      BY <1>1, <1>2, <1>4, <2>2 DEF In
    <3> QED BY <1>1, <3>1
  <2> QED BY <1>1, <2>1, <2>2
<1>5. ASSUME NEW t \in at..last, Within(z, t, w.start, w.end)
      PROVE  b.end > b.start /\ b.end > at
  <2>1. t \in Int /\ at <= t
    BY <1>2
  <2>2. In(b, t)
    BY <1>1, <1>5, <2>1
  <2> QED BY <1>1, <2>1, <2>2 DEF In
<1> QED BY <1>3, <1>4, <1>5 DEF AcceptedWindowsCover, last

(* The next start of a schedule is the first instant it is to cover.       *)
LEMMA NextsAreNext ==
  ASSUME NEW z, IsZone(z), NEW scheds, IsCalendar(scheds), NEW s \in scheds, NEW at \in Int
  PROVE  NextIsNext(z, s, at)
<1> DEFINE to == at + PreviewDays * DayTicks
           C == ExpandCoverage(z, {s}, at, to)
           starts == scheduleNextStarts(z, s, at)
           coming == {t \in at..(to - 1) : ScheduleCovers(z, s, t)}
           Bounds(w) == resolveWindowBounds(z, s.id, w)
<1>1. to \in Int
  BY Scale
<1>2. NextIsNext(z, s, at) <=>
        (NothingSwallowed(z, s, at, to) /\ coming # {} =>
           IF at \in coming THEN Earliest(starts) <= at ELSE Earliest(starts) = Earliest(coming))
  BY DEF NextIsNext
<1>3. Coverage(z, {s}, at, to, C)
  <2> HIDE DEF to
  <2> QED BY <1>1, SchedulesOf, CoverageIs
<1>4. IsSchedule(s)
  BY SchedulesOf
<1>5. NothingSwallowed(z, s, at, to) =>
        /\ \A x \in C : x.start < x.end
        /\ \A w \in s.windows : Bounds(w).start < Bounds(w).end
  BY DEF NothingSwallowed
<1>6. coming \subseteq Int /\ \A t : t \in coming <=> t \in Int /\ at <= t /\ t < to /\ ScheduleCovers(z, s, t)
  <2> HIDE DEF to
  <2> QED BY <1>1
<1>7. s.kind = "weekly" => starts = {x.start : x \in C}
  BY DEF scheduleNextStarts
<1>8. s.kind # "weekly" => starts = {Bounds(w).start : w \in {v \in s.windows : Bounds(v).end > at}}
  BY DEF scheduleNextStarts, upcomingScheduleWindows
<1> HIDE DEF to, C, starts, coming, Bounds
<1> SUFFICES ASSUME NothingSwallowed(z, s, at, to), coming # {}
             PROVE  IF at \in coming THEN Earliest(starts) <= at
                    ELSE Earliest(starts) = Earliest(coming)
  BY <1>2
(* Whatever the kind: a start is covered unless it is past, and nothing    *)
(* that comes is covered before one.                                       *)
<1>9. /\ IsFiniteSet(starts) /\ starts \subseteq Int
      /\ \A t \in coming : \E u \in starts : u <= t
      /\ \A u \in starts : at \in coming \/ (at <= u /\ (u < to => u \in coming))
  <2>1. CASE s.kind = "weekly"
    <3> DEFINE f == [x \in C |-> x.start]
    <3>1. \A x \in C : /\ x.start \in Int /\ x.end \in Int /\ x.start < to /\ at < x.end /\ x.id = s.id
                       /\ \A t \in Int : In(x, t) => ScheduleCovers(z, s, t)
      BY <1>3 DEF Coverage
    <3>2. IsFiniteSet(starts)
      <4>1. IsFiniteSet(C)
        BY <1>3 DEF Coverage
      <4>2. starts = {f[x] : x \in C}
        BY <1>7, <2>1
      <4> HIDE DEF f
      <4> QED BY <4>1, <4>2, FiniteImage
    <3>3. \A u : u \in starts <=> \E x \in C : u = x.start
      BY <1>7, <2>1
    <3>4. ASSUME NEW t \in coming PROVE \E u \in starts : u <= t
      <4>1. PICK x \in C : In(x, t)
        BY <1>3, <1>6 DEF Coverage
      <4> QED BY <3>3, <4>1 DEF In
    <3>5. ASSUME NEW u \in starts, at \notin coming PROVE at <= u /\ (u < to => u \in coming)
      <4>1. PICK x \in C : u = x.start
        BY <3>3
      <4>2. x.start \in Int /\ x.end \in Int /\ x.start < x.end /\ x.start < to /\ at < x.end
        BY <1>5, <3>1, <4>1
      <4>3. ~In(x, at)
        <5>1. at < to
          BY <1>1, <1>6
        <5> QED BY <1>6, <3>1, <3>5, <5>1
      <4>4. at <= u /\ In(x, u)
        BY <4>1, <4>2, <4>3 DEF In
      <4> QED BY <1>6, <3>1, <4>1, <4>2, <4>4
    <3> QED BY <3>1, <3>2, <3>3, <3>4, <3>5
  <2>2. CASE s.kind # "weekly"
    <3> DEFINE W == {v \in s.windows : Bounds(v).end > at}
               f == [w \in W |-> Bounds(w).start]
    <3>1. \A w \in s.windows : /\ Bounds(w).start \in Int /\ Bounds(w).end \in Int
                               /\ \A t \in Int : Within(z, t, w.start, w.end) <=> In(Bounds(w), t)
      BY <1>4, WindowIs DEF IsSchedule, Bounds
    <3>2. IsFiniteSet(starts)
      <4>1. IsFiniteSet(W)
        BY <1>4, FS_Subset DEF IsSchedule
      <4>2. starts = {f[w] : w \in W}
        BY <1>8, <2>2
      <4> HIDE DEF f, W
      <4> QED BY <4>1, <4>2, FiniteImage
    <3>3. \A u : u \in starts <=> \E w \in s.windows : u = Bounds(w).start /\ Bounds(w).end > at
      BY <1>8, <2>2
    <3> HIDE DEF W, f
    <3>4. \A t \in Int : ScheduleCovers(z, s, t) <=> \E w \in s.windows : In(Bounds(w), t)
      BY <2>2, <3>1 DEF ScheduleCovers
    <3>5. ASSUME NEW t \in coming PROVE \E u \in starts : u <= t
      <4>1. t \in Int /\ at <= t
        BY <1>6
      <4>2. PICK w \in s.windows : In(Bounds(w), t)
        BY <1>6, <3>4
      <4>3. Bounds(w).end > at /\ Bounds(w).start <= t
        BY <3>1, <4>1, <4>2 DEF In
      <4> QED BY <3>3, <4>3
    <3>6. ASSUME NEW u \in starts, at \notin coming PROVE at <= u /\ (u < to => u \in coming)
      <4>1. PICK w \in s.windows : u = Bounds(w).start /\ Bounds(w).end > at
        BY <3>3
      <4>2. Bounds(w).start \in Int /\ Bounds(w).end \in Int /\ Bounds(w).start < Bounds(w).end
        BY <1>5, <3>1
      <4>3. ~In(Bounds(w), at)
        <5>1. PICK t \in coming : t \in Int /\ at <= t /\ t < to
          BY <1>6
        <5>2. at < to
          BY <1>1, <5>1
        <5> QED BY <1>6, <3>4, <3>6, <5>2
      <4>4. at <= u /\ In(Bounds(w), u) /\ u \in Int
        BY <4>1, <4>2, <4>3 DEF In
      <4> QED BY <1>6, <3>4, <4>4
    <3>7. starts \subseteq Int
      BY <3>1, <3>3
    <3> QED BY <3>2, <3>5, <3>6, <3>7
  <2> QED BY <2>1, <2>2
<1>10. PICK t \in coming : TRUE
  OBVIOUS
<1>11. PICK u \in starts : u <= t
  BY <1>9
<1> DEFINE next == Earliest(starts)
<1>12. next \in starts /\ \A v \in starts : next <= v
  BY <1>9, <1>11, FiniteHasEarliest
<1> HIDE DEF next
<1>13. next \in Int
  BY <1>9, <1>12
<1>14. \A c \in coming : next <= c
  <2> SUFFICES ASSUME NEW c \in coming PROVE next <= c
    OBVIOUS
  <2>1. PICK v \in starts : v <= c
    BY <1>9
  <2>2. v \in Int /\ c \in Int /\ next <= v
    BY <1>6, <1>9, <1>12
  <2> QED BY <1>13, <2>1, <2>2
<1>15. CASE at \in coming
  BY <1>14, <1>15 DEF next
<1>16. CASE at \notin coming
  <2>1. next < to
    BY <1>1, <1>6, <1>10, <1>13, <1>14
  <2>2. next \in coming
    BY <1>9, <1>12, <1>16, <2>1
  <2>3. Earliest(coming) \in coming /\ \A c \in coming : Earliest(coming) <= c
    BY <1>6, <1>13, <1>14, <2>2, EarliestIsLeast
  <2>4. Earliest(coming) <= next /\ next <= Earliest(coming) /\ Earliest(coming) \in Int
    BY <1>6, <1>14, <2>2, <2>3
  <2>5. next = Earliest(coming)
    BY <1>13, <2>4
  <2> QED BY <1>16, <2>5 DEF next
<1> QED BY <1>15, <1>16

(* What is suppressed is covered now; it resumes when coverage does.       *)
LEMMA SuppressionsAreOfNow ==
  ASSUME NEW z, IsZone(z), NEW scheds, IsCalendar(scheds), NEW s \in scheds,
         NEW from \in Int, NEW to \in Int, NEW at \in Int
  PROVE  SuppressionIsOfNow(z, s, from, to, at)
<1> DEFINE C == ExpandCoverage(z, {s}, from, to)
<1>1. Coverage(z, {s}, from, to, C)
  BY SchedulesOf, CoverageIs
<1>2. NothingSwallowed(z, s, from, to) => \A x \in C : x.start < x.end
  BY DEF NothingSwallowed
<1> SUFFICES ASSUME NothingSwallowed(z, s, from, to),
                    NEW current \in containingSegment(C, s.id, at)
             PROVE  LET resumes == nextSegmentStart(C, s.id, current.end)
                        coming == {t \in current.end..(to - 1) : ScheduleCovers(z, s, t)}
                    IN  /\ \A t \in at..(current.end - 1) : ScheduleCovers(z, s, t)
                        /\ coming # {} => resumes # {} /\ Earliest(resumes) = Earliest(coming)
  BY DEF SuppressionIsOfNow
<1> DEFINE resumes == nextSegmentStart(C, s.id, current.end)
           coming == {t \in current.end..(to - 1) : ScheduleCovers(z, s, t)}
<1> HIDE DEF C
<1>3. current \in C /\ current.start <= at /\ current.end > at
  BY DEF containingSegment
<1>4. \A x \in C : /\ x.start \in Int /\ x.end \in Int /\ x.start < to /\ from < x.end /\ x.id = s.id
                   /\ \A t \in Int : In(x, t) => ScheduleCovers(z, s, t)
  BY <1>1 DEF Coverage
<1>5. \A t \in Int : from <= t /\ t < to /\ ScheduleCovers(z, s, t) => \E x \in C : In(x, t)
  BY <1>1 DEF Coverage
<1>6. \A x, y \in C : x # y => x.end < y.start \/ y.end < x.start
  BY <1>1, <1>4 DEF Coverage
<1>7. \A u : u \in resumes <=> \E x \in C : u = x.start /\ x.start >= current.end
  BY <1>4 DEF nextSegmentStart
<1>8. current.start \in Int /\ current.end \in Int /\ from < current.end
  BY <1>3, <1>4
<1>9. \A t : t \in coming <=> t \in Int /\ current.end <= t /\ t < to /\ ScheduleCovers(z, s, t)
  BY <1>8
<1> HIDE DEF resumes, coming
<1>10. \A t \in at..(current.end - 1) : ScheduleCovers(z, s, t)
  <2> SUFFICES ASSUME NEW t \in at..(current.end - 1) PROVE ScheduleCovers(z, s, t)
    OBVIOUS
  <2>1. t \in Int /\ In(current, t)
    BY <1>3, <1>8 DEF In
  <2> QED BY <1>3, <1>4, <2>1
<1>11. ASSUME NEW t \in coming PROVE \E u \in resumes : u <= t
  <2>1. t \in Int /\ current.end <= t /\ from <= t /\ t < to
    BY <1>8, <1>9
  <2>2. PICK x \in C : In(x, t)
    BY <1>5, <1>9, <2>1
  <2>3. x.start \in Int /\ x.end \in Int /\ x.start <= t /\ t < x.end
    BY <1>4, <2>2 DEF In
  <2>4. x # current
    BY <1>8, <2>1, <2>3
  <2>5. x.end < current.start \/ current.end < x.start
    BY <1>3, <1>6, <2>4
  <2>6. current.end < x.start
    BY <1>3, <1>8, <2>1, <2>3, <2>5
  <2> QED BY <1>7, <1>8, <2>3, <2>6
<1>12. ASSUME NEW u \in resumes PROVE u \in Int /\ u \in coming
  <2>1. PICK x \in C : u = x.start /\ x.start >= current.end
    BY <1>7
  <2>2. x.start \in Int /\ x.end \in Int /\ x.start < x.end /\ x.start < to
    BY <1>2, <1>4
  <2>3. In(x, u) /\ u \in Int /\ current.end <= u
    BY <1>8, <2>1, <2>2 DEF In
  <2>4. ScheduleCovers(z, s, u)
    BY <1>4, <2>3
  <2> QED BY <1>9, <2>1, <2>2, <2>3, <2>4
<1>13. ASSUME coming # {} PROVE resumes # {} /\ Earliest(resumes) = Earliest(coming)
  <2>1. coming \in SUBSET Int /\ \A t \in coming : current.end <= t
    BY <1>9
  <2>2. resumes \in SUBSET Int /\ resumes # {} /\ \A u \in resumes : current.end <= u
    BY <1>11, <1>12, <1>13, <2>1
  <2>3. Earliest(coming) \in coming /\ \A t \in coming : Earliest(coming) <= t
    BY <1>8, <1>13, <2>1, EarliestIsLeast
  <2>4. Earliest(resumes) \in resumes /\ \A u \in resumes : Earliest(resumes) <= u
    BY <1>8, <2>2, EarliestIsLeast
  <2>5. PICK u \in resumes : u <= Earliest(coming)
    BY <1>11, <2>3
  <2> DEFINE e == Earliest(coming)
             r == Earliest(resumes)
  <2>6. e \in Int /\ r \in Int /\ u \in Int /\ r <= u /\ u <= e /\ e <= r
    BY <1>12, <2>1, <2>3, <2>4, <2>5
  <2>7. e = r
    <3> HIDE DEF e, r
    <3> QED BY <2>6
  <2> QED BY <2>2, <2>7
<1> QED BY <1>10, <1>13 DEF resumes, coming

(* The schedules that cover an instant, as names are given to it.          *)
LEMMA NamedByCovering ==
  ASSUME NEW scheds, NEW C, NEW g \in Int, NEW t \in Int, g <= t,
         \A x \in C : x.start \in Int /\ x.end \in Int,
         \A x \in C : ~(g < x.start /\ x.start <= t) /\ ~(g < x.end /\ x.end <= t)
  PROVE  AttributedTo(scheds, C, g) = AttributedTo(scheds, C, t)
<1>1. \A x \in C : (x.start <= g /\ x.end > g) <=> (x.start <= t /\ x.end > t)
  OBVIOUS
<1>2. \A id : containingSegment(C, id, g) = containingSegment(C, id, t)
  BY <1>1 DEF containingSegment
<1>3. {s \in scheds : containingSegment(C, s.id, g) # {}}
        = {s \in scheds : containingSegment(C, s.id, t) # {}}
  BY <1>2
<1> HIDE DEF containingSegment
<1> QED BY <1>3 DEF AttributedTo

(* A block is cut at finitely many instants, its own ends among them.      *)
LEMMA CutsAre ==
  ASSUME NEW C, IsFiniteSet(C), \A x \in C : x.start \in Int /\ x.end \in Int,
         NEW b, b.start \in Int, b.end \in Int, b.start < b.end
  PROVE  /\ IsFiniteSet(cuts(b, C)) /\ cuts(b, C) \in SUBSET Int
         /\ b.start \in cuts(b, C) /\ b.end \in cuts(b, C)
         /\ \A c \in cuts(b, C) : b.start <= c /\ c <= b.end
         /\ \A x \in C : /\ b.start < x.start /\ x.start < b.end => x.start \in cuts(b, C)
                         /\ b.start < x.end /\ x.end < b.end => x.end \in cuts(b, C)
<1> DEFINE f == [x \in C |-> x.start]
           g == [x \in C |-> x.end]
           starts == {f[x] : x \in C}
           ends == {g[x] : x \in C}
           inner == {c \in starts \cup ends : c > b.start /\ c < b.end}
<1>1. IsFiniteSet(starts) /\ IsFiniteSet(ends)
  <2> HIDE DEF f, g
  <2> QED BY FiniteImage
<1>2. starts = {x.start : x \in C} /\ ends = {x.end : x \in C}
  OBVIOUS
<1>3. starts \subseteq Int /\ ends \subseteq Int
  BY <1>2
<1>4. \A x \in C : x.start \in starts /\ x.end \in ends
  OBVIOUS
<1> HIDE DEF starts, ends
<1>5. IsFiniteSet(starts \cup ends)
  BY <1>1, FS_Union
<1>6. IsFiniteSet(inner)
  BY <1>5, FS_Subset
<1>7. cuts(b, C) = {b.start, b.end} \cup inner
  BY <1>2 DEF cuts
<1>8. IsFiniteSet(cuts(b, C))
  <2>1. IsFiniteSet({b.start, b.end})
    <3>1. {b.start, b.end} = {b.start} \cup {b.end}
      OBVIOUS
    <3>2. IsFiniteSet({b.start}) /\ IsFiniteSet({b.end})
      BY FS_Singleton
    <3> QED BY <3>1, <3>2, FS_Union
  <2> HIDE DEF inner
  <2> QED BY <1>6, <1>7, <2>1, FS_Union
<1>9. ASSUME NEW c \in inner PROVE c \in Int /\ b.start <= c /\ c <= b.end
  <2>1. c \in Int /\ c > b.start /\ c < b.end
    BY <1>3
  <2> QED BY <2>1
<1>10. \A x \in C : /\ b.start < x.start /\ x.start < b.end => x.start \in inner
                    /\ b.start < x.end /\ x.end < b.end => x.end \in inner
  BY <1>4
<1> HIDE DEF inner
<1>11. b.start <= b.start /\ b.start <= b.end /\ b.end <= b.end
  OBVIOUS
<1>12. ASSUME NEW c \in cuts(b, C) PROVE c \in Int /\ b.start <= c /\ c <= b.end
  <2>1. c = b.start \/ c = b.end \/ c \in inner
    BY <1>7
  <2> QED BY <1>9, <1>11, <2>1
<1>13. b.start \in cuts(b, C) /\ b.end \in cuts(b, C) /\ inner \subseteq cuts(b, C)
  BY <1>7
<1>14. cuts(b, C) \in SUBSET Int
  BY <1>12
<1> QED BY <1>8, <1>10, <1>12, <1>13, <1>14

(* A block's slices: at every instant of it the name of the slice is the   *)
(* name of the instant.                                                    *)
LEMMA SlicesAreNamed ==
  ASSUME NEW scheds, NEW C, IsFiniteSet(C), \A x \in C : x.start \in Int /\ x.end \in Int,
         NEW b, b.start \in Int, b.end \in Int, NEW t \in Int, In(b, t)
  PROVE  {n.id : n \in {x \in contextNameSpans(b, scheds, C) : x.start <= t /\ t < x.end}}
           = {AttributedTo(scheds, C, t).id}
<1> DEFINE D == cuts(b, C)
           NameAt(c) == AttributedTo(scheds, C, c).id
           Renamed == {c \in D \ {b.start, b.end} :
                         NameAt(c) # NameAt(Latest({d \in D : d < c}))}
           Kept == Renamed \cup {b.start, b.end}
           EndsAt(c) == Earliest({d \in Kept : d > c})
           Slice(c) == [id |-> NameAt(c), start |-> c, end |-> EndsAt(c)]
<1>1. contextNameSpans(b, scheds, C) = {Slice(c) : c \in Kept \ {b.end}}
  BY DEF contextNameSpans
<1>2. b.start <= t /\ t < b.end /\ b.start < b.end
  BY DEF In
<1>3. /\ IsFiniteSet(D) /\ D \in SUBSET Int /\ b.start \in D /\ b.end \in D
      /\ \A c \in D : b.start <= c /\ c <= b.end
      /\ \A x \in C : /\ b.start < x.start /\ x.start < b.end => x.start \in D
                      /\ b.start < x.end /\ x.end < b.end => x.end \in D
  BY <1>2, CutsAre
<1> HIDE DEF D
<1>4. \A c \in D : c \in Renamed <=>
        c # b.start /\ c # b.end /\ NameAt(c) # NameAt(Latest({d \in D : d < c}))
  OBVIOUS
<1>5. /\ Kept \subseteq D /\ b.start \in Kept /\ b.end \in Kept
      /\ \A c \in D : c \in Renamed => c \in Kept
  BY <1>3
<1>6. IsFiniteSet(Kept) /\ Kept \in SUBSET Int
  <2> HIDE DEF Kept
  <2> QED BY <1>3, <1>5, FS_Subset
<1> HIDE DEF Renamed, Kept, NameAt
<1>7. ASSUME NEW c \in Kept, c < b.end
      PROVE  EndsAt(c) \in Kept /\ EndsAt(c) > c /\ EndsAt(c) \in Int /\ \A d \in Kept : d > c => EndsAt(c) <= d
  <2> DEFINE later == {d \in Kept : d > c}
  <2>1. later # {} /\ later \in SUBSET Int
    BY <1>5, <1>6, <1>7
  <2>2. IsFiniteSet(later)
    BY <1>6, FS_Subset
  <2>3. Earliest(later) \in later /\ \A d \in later : Earliest(later) <= d
    <3> HIDE DEF later
    <3> QED BY <2>1, <2>2, FiniteHasEarliest
  <2> QED BY <1>6, <2>3
<1> DEFINE before == {d \in Kept : d <= t}
           k == Latest(before)
<1>8. k \in before /\ \A d \in before : d <= k
  <2>1. before \in SUBSET Int /\ before # {} /\ IsFiniteSet(before)
    BY <1>2, <1>5, <1>6, FS_Subset
  <2> HIDE DEF before
  <2> QED BY <2>1, FiniteHasLatest
<1>9. k \in Kept /\ k <= t /\ \A d \in Kept : d <= t => d <= k
  BY <1>8
<1> HIDE DEF k, before
<1>10. k \in Int /\ k \in D /\ b.start <= k /\ k < b.end /\ k # b.end
  BY <1>2, <1>3, <1>5, <1>6, <1>9
<1>11. t < EndsAt(k)
  <2>1. EndsAt(k) \in Kept /\ EndsAt(k) \in Int /\ EndsAt(k) > k
    BY <1>7, <1>9, <1>10
  <2>2. EndsAt(k) <= t => EndsAt(k) <= k
    BY <1>9, <2>1
  <2> HIDE DEF EndsAt
  <2> QED BY <1>10, <2>1, <2>2
<1>12. ASSUME NEW c \in Kept \ {b.end}, c <= t, t < EndsAt(c) PROVE c = k
  <2>1. c \in Int /\ c <= k
    BY <1>6, <1>9, <1>12
  <2>2. c < b.end
    BY <1>2, <1>12, <2>1
  <2>3. k > c => EndsAt(c) <= k
    BY <1>7, <1>9, <2>2
  <2>4. EndsAt(c) \in Int
    BY <1>7, <2>2
  <2> HIDE DEF EndsAt
  <2> QED BY <1>9, <1>10, <1>12, <2>1, <2>3, <2>4
(* Up to the instant no cut changes the name.                              *)
<1>13. ASSUME NEW c0 \in D, k <= c0, c0 <= t, NameAt(c0) # NameAt(k) PROVE FALSE
  <2> DEFINE changed == {c \in D : k <= c /\ c <= t /\ NameAt(c) # NameAt(k)}
             c == Earliest(changed)
  <2>1. changed \in SUBSET Int /\ changed # {} /\ IsFiniteSet(changed)
    BY <1>3, <1>13, FS_Subset
  <2>2. c \in changed /\ \A d \in changed : c <= d
    <3> HIDE DEF changed
    <3> QED BY <2>1, FiniteHasEarliest
  <2> HIDE DEF c
  <2>3. c \in D /\ c \in Int /\ k <= c /\ c <= t /\ NameAt(c) # NameAt(k)
    BY <1>3, <2>2
  <2>4. k < c
    <3>1. c # k
      BY <2>3
    <3> QED BY <1>10, <2>3, <3>1
  <2> DEFINE lower == {d \in D : d < c}
             p == Latest(lower)
  <2>5. lower \in SUBSET Int /\ lower # {} /\ IsFiniteSet(lower)
    BY <1>3, <1>10, <2>4, FS_Subset
  <2>6. p \in lower /\ \A d \in lower : d <= p
    <3> HIDE DEF lower
    <3> QED BY <2>5, FiniteHasLatest
  <2>7. p \in D /\ p \in Int /\ p < c /\ k <= p
    BY <1>3, <1>10, <2>4, <2>6
  <2>8. NameAt(p) = NameAt(k)
    <3>1. p <= t
      BY <2>3, <2>7
    <3>2. ~(c <= p)
      BY <2>3, <2>7
    <3>3. p \notin changed
      BY <2>2, <3>2
    <3> QED BY <2>7, <3>1, <3>3
  <2>9. c # b.start /\ c # b.end
    BY <1>2, <1>10, <2>3, <2>4
  <2>10. c \in Renamed
    <3>1. NameAt(c) # NameAt(Latest({d \in D : d < c}))
      BY <2>3, <2>8
    <3> QED BY <1>4, <2>3, <2>9, <3>1
  <2>11. c <= k
    BY <1>5, <1>9, <2>3, <2>10
  <2> QED BY <1>10, <2>3, <2>4, <2>11
<1>14. NameAt(t) = NameAt(k)
  <2> DEFINE lower == {d \in D : d <= t}
             g == Latest(lower)
  <2>1. lower \in SUBSET Int /\ k \in lower /\ IsFiniteSet(lower)
    BY <1>3, <1>9, <1>10, FS_Subset
  <2>2. g \in lower /\ \A d \in lower : d <= g
    <3> HIDE DEF lower
    <3> QED BY <2>1, FiniteHasLatest
  <2>3. g \in D /\ g \in Int /\ g <= t /\ k <= g /\ b.start <= g
    BY <1>3, <2>1, <2>2
  <2>4. \A d \in D : d <= t => d <= g
    BY <2>2
  <2> HIDE DEF g, lower
  <2>5. ASSUME NEW x \in C
        PROVE  ~(g < x.start /\ x.start <= t) /\ ~(g < x.end /\ x.end <= t)
    <3>1. x.start \in Int /\ x.end \in Int
      OBVIOUS
    <3>2. g < x.start /\ x.start <= t => x.start \in D
      BY <1>2, <1>3, <2>3, <3>1
    <3>3. g < x.end /\ x.end <= t => x.end \in D
      BY <1>2, <1>3, <2>3, <3>1
    <3> QED BY <2>3, <2>4, <3>1, <3>2, <3>3
  <2>6. AttributedTo(scheds, C, g) = AttributedTo(scheds, C, t)
    BY <2>3, <2>5, NamedByCovering
  <2>7. NameAt(g) = NameAt(k)
    BY <1>13, <2>3
  <2> QED BY <2>6, <2>7 DEF NameAt
<1>15. \A n : n \in {x \in contextNameSpans(b, scheds, C) : x.start <= t /\ t < x.end} <=> n = Slice(k)
  <2>1. \A c : Slice(c).start = c /\ Slice(c).end = EndsAt(c)
    OBVIOUS
  <2>2. Slice(k) \in contextNameSpans(b, scheds, C) /\ Slice(k).start <= t /\ t < Slice(k).end
    <3>1. k \in Kept \ {b.end}
      BY <1>9, <1>10
    <3>2. Slice(k) \in contextNameSpans(b, scheds, C)
      BY <1>1, <3>1
    <3> QED BY <1>9, <1>11, <2>1, <3>2
  <2>3. ASSUME NEW n \in contextNameSpans(b, scheds, C), n.start <= t, t < n.end
        PROVE  n = Slice(k)
    <3>1. PICK c \in Kept \ {b.end} : n = Slice(c)
      BY <1>1
    <3>2. c <= t /\ t < EndsAt(c)
      BY <2>1, <2>3, <3>1
    <3> QED BY <1>12, <3>1, <3>2
  <2> HIDE DEF Slice
  <2> QED BY <2>2, <2>3
<1>16. Slice(k).id = AttributedTo(scheds, C, t).id
  BY <1>14 DEF NameAt
<1> HIDE DEF Slice
<1> QED BY <1>15, <1>16

(* The blocks of all schedules' segments: they cover what the segments do, *)
(* and neither overlap nor touch.                                          *)
LEMMA UnionBlocksAre ==
  ASSUME NEW C, IsFiniteSet(C),
         \A x \in C : x.start \in Int /\ x.end \in Int /\ x.start <= x.end
  PROVE  LET M == contextUnionBlocks(C) IN
         /\ M \subseteq Segments(0)
         /\ \A m, n \in M : m # n => m.end < n.start \/ n.end < m.start
         /\ \A t : t \in Ticks(C) <=> t \in Int /\ \E m \in M : In(m, t)
         /\ \A t \in Int : \A m : m \in unionBlockContaining(C, t) <=> m \in M /\ In(m, t)
<1> DEFINE f == [x \in C |-> Segment(0, x.start, x.end)]
           S == {f[x] : x \in C}
           M == mergeSegments(S)
<1>1. S = {Segment(0, x.start, x.end) : x \in C}
  OBVIOUS
<1>2. IsFiniteSet(S)
  <2> HIDE DEF f
  <2> QED BY FiniteImage
<1>3. \A x \in C : LET y == Segment(0, x.start, x.end) IN
        y \in Segments(0) /\ y \in S /\ \A u \in Int : In(x, u) <=> In(y, u)
  <2> SUFFICES ASSUME NEW x \in C
               PROVE  LET y == Segment(0, x.start, x.end) IN
                      y \in Segments(0) /\ y \in S /\ \A u \in Int : In(x, u) <=> In(y, u)
    OBVIOUS
  <2>1. x.start \in Int /\ x.end \in Int /\ x.start <= x.end
    OBVIOUS
  <2>2. Segment(0, x.start, x.end) \in S
    BY <1>1
  <2> HIDE DEF S, f
  <2> QED BY <2>1, <2>2, SegmentIs DEF In
<1>4. \A y \in S : \E x \in C : y = Segment(0, x.start, x.end)
  BY <1>1
<1> HIDE DEF S, f
<1>5. S \in SUBSET Segments(0)
  BY <1>3, <1>4
<1>6. contextUnionBlocks(C) = M
  BY <1>1 DEF contextUnionBlocks
<1>7. /\ M \subseteq Segments(0)
      /\ \A u \in Int : (\E m \in M : In(m, u)) <=> \E y \in S : In(y, u)
      /\ \A m, n \in M : m # n => m.end < n.start \/ n.end < m.start
  BY <1>2, <1>5, MergeIsUnion
<1> HIDE DEF M
<1>8. \A t \in Int : (\E x \in C : In(x, t)) <=> \E y \in S : In(y, t)
  BY <1>3, <1>4
<1>9. \A t : t \in Ticks(C) <=> t \in Int /\ \E m \in M : In(m, t)
  BY <1>7, <1>8, TicksAre
<1>10. \A m \in M : m.start \in Int /\ m.end \in Int
  BY <1>7 DEF Segments
<1>11. \A t \in Int : \A m : m \in unionBlockContaining(C, t) <=> m \in M /\ In(m, t)
  BY <1>6, <1>10 DEF unionBlockContaining, In
<1> QED BY <1>6, <1>7, <1>9, <1>11

(* At every instant the pages show one name, that of the schedule which    *)
(* the scheduler attributes the freeze to, or none (contextNameSpans).     *)
THEOREM NamesAlwaysAgree ==
  ASSUME NEW z, IsZone(z), NEW scheds, IsCalendar(scheds), NEW from \in Int, NEW to \in Int
  PROVE  NamesAgree(z, scheds, from, to)
<1> DEFINE C == ExpandCoverage(z, scheds, from, to)
<1>1. Coverage(z, scheds, from, to, C)
  BY CoverageIs
<1>2. IsFiniteSet(C) /\ \A x \in C : x.start \in Int /\ x.end \in Int /\ x.start <= x.end
  <2> HIDE DEF C
  <2> QED BY <1>1 DEF Coverage
<1> SUFFICES ASSUME NEW t \in from..(to - 1)
             PROVE  UNION {{n.id : n \in {x \in contextNameSpans(b, scheds, C) :
                                            x.start <= t /\ t < x.end}} :
                            b \in unionBlockContaining(C, t)}
                      = IF t \in Ticks(C) THEN {AttributedTo(scheds, C, t).id} ELSE {}
  BY DEF NamesAgree
<1> HIDE DEF C
<1> DEFINE M == contextUnionBlocks(C)
<1>3. /\ M \subseteq Segments(0)
      /\ \A m, n \in M : m # n => m.end < n.start \/ n.end < m.start
      /\ \A u : u \in Ticks(C) <=> u \in Int /\ \E m \in M : In(m, u)
      /\ \A u \in Int : \A m : m \in unionBlockContaining(C, u) <=> m \in M /\ In(m, u)
  BY <1>2, UnionBlocksAre
<1> HIDE DEF M
<1>4. t \in Int
  OBVIOUS
<1>5. \A m \in M : m.start \in Int /\ m.end \in Int
  BY <1>3 DEF Segments
<1>6. \A m : m \in unionBlockContaining(C, t) <=> m \in M /\ In(m, t)
  BY <1>3, <1>4
<1>7. t \in Ticks(C) <=> \E m \in M : In(m, t)
  BY <1>3, <1>4
<1> DEFINE Names(b) == {n.id : n \in {x \in contextNameSpans(b, scheds, C) : x.start <= t /\ t < x.end}}
<1>8. CASE t \in Ticks(C)
  <2>1. PICK b \in M : In(b, t)
    BY <1>7, <1>8
  <2>2. \A m \in unionBlockContaining(C, t) : m = b
    <3> SUFFICES ASSUME NEW m \in unionBlockContaining(C, t), m # b PROVE FALSE
      OBVIOUS
    <3>1. m \in M /\ In(m, t)
      BY <1>6
    <3>2. m.end < b.start \/ b.end < m.start
      BY <1>3, <3>1
    <3> QED BY <1>4, <1>5, <2>1, <3>1, <3>2 DEF In
  <2>3. unionBlockContaining(C, t) = {b}
    BY <1>6, <2>1, <2>2
  <2>4. Names(b) = {AttributedTo(scheds, C, t).id}
    BY <1>2, <1>4, <1>5, <2>1, SlicesAreNamed
  <2> HIDE DEF Names
  <2>5. UNION {Names(c) : c \in unionBlockContaining(C, t)} = Names(b)
    BY <2>3
  <2> QED BY <1>8, <2>4, <2>5 DEF Names
<1>9. CASE t \notin Ticks(C)
  <2>1. unionBlockContaining(C, t) = {}
    BY <1>6, <1>7, <1>9
  <2> HIDE DEF Names
  <2>2. UNION {Names(c) : c \in unionBlockContaining(C, t)} = {}
    BY <2>1
  <2> QED BY <1>9, <2>2 DEF Names
<1> QED BY <1>8, <1>9

(* What time.Date makes of a wall: one of its two readings, never a day    *)
(* out of order, and what it reads back as itself.                         *)
LEMMA DateReads ==
  ASSUME NEW z, IsZone(z), NEW w \in Int
  PROVE  /\ Date(z, w) \in Int
         /\ Date(z, w) = w - z.base \/ Date(z, w) = w - z.base - z.shift
         /\ Date(z, Local(z, Date(z, w))) = Date(z, w)
<1>1. /\ z.base \in Int /\ z.at \in Int /\ z.shift \in Int
      /\ \A t \in Int : Offset(z, t) = IF t < z.at THEN z.base ELSE z.base + z.shift
      /\ \A t \in Int : Offset(z, t) \in Int /\ Local(z, t) = t + Offset(z, t)
  BY ZoneBounds
<1>2. Date(z, w) \in Int /\ (Date(z, w) = w - z.base \/ Date(z, w) = w - z.base - z.shift)
  <2>1. w - Offset(z, w) \in Int
    BY <1>1
  <2>2. Date(z, w) = w - Offset(z, w) \/ Date(z, w) = w - Offset(z, w - Offset(z, w))
    BY DEF Date
  <2>3. Offset(z, w) \in {z.base, z.base + z.shift}
        /\ Offset(z, w - Offset(z, w)) \in {z.base, z.base + z.shift}
    BY <1>1, <2>1
  <2> QED BY <1>1, <2>2, <2>3
<1>3. ASSUME NEW v \in Int
      PROVE  /\ v - z.base < z.at /\ v - z.base - z.shift < z.at => Date(z, v) = v - z.base
             /\ v - z.base >= z.at /\ v - z.base - z.shift >= z.at => Date(z, v) = v - z.base - z.shift
  BY <1>1 DEF Date
<1> DEFINE p == Date(z, w)
           l == Local(z, p)
<1>4. p \in Int /\ (p = w - z.base \/ p = w - z.base - z.shift)
  BY <1>2
<1>5. l \in Int /\ l = IF p < z.at THEN p + z.base ELSE p + z.base + z.shift
  BY <1>1, <1>4
<1>6. Date(z, l) = p
  <2>1. CASE l = w
    BY <2>1
  <2>2. CASE l # w
    <3> HIDE DEF p, l
    <3>1. CASE p < z.at
      <4>1. l = p + z.base /\ p = w - z.base - z.shift
        BY <1>1, <1>4, <1>5, <2>2, <3>1
      <4>2. CASE z.shift >= 0
        BY <1>1, <1>3, <1>4, <1>5, <3>1, <4>1, <4>2
      <4>3. CASE z.shift < 0
        <5>1. p = w - z.base
          BY <1>1, <1>3, <3>1, <4>1, <4>3 DEF p
        <5> QED BY <1>1, <4>1, <4>3, <5>1
      <4> QED BY <1>1, <4>2, <4>3
    <3>2. CASE ~(p < z.at)
      <4>1. l = p + z.base + z.shift /\ p = w - z.base
        BY <1>1, <1>4, <1>5, <2>2, <3>2
      <4>2. CASE z.shift >= 0
        <5>1. p \in Int /\ p >= z.at
          BY <1>1, <1>4, <3>2
        <5>2. l - z.base = p + z.shift /\ l - z.base - z.shift = p
          BY <1>1, <4>1, <5>1
        <5>3. l - z.base >= z.at /\ l - z.base - z.shift >= z.at
          BY <1>1, <4>2, <5>1, <5>2
        <5> QED BY <1>3, <1>5, <5>2, <5>3
      <4>3. CASE z.shift < 0
        <5>1. w - z.base >= z.at /\ w - z.base - z.shift >= z.at
          BY <1>1, <1>4, <3>2, <4>1, <4>3
        <5>2. p = w - z.base - z.shift
          BY <1>3, <5>1 DEF p
        <5> QED BY <1>1, <4>1, <4>3, <5>2
      <4> QED BY <1>1, <4>2, <4>3
    <3> QED BY <3>1, <3>2
  <2> QED BY <2>1, <2>2
<1> QED BY <1>4, <1>6

(* A day later on the clock is not earlier in time.                        *)
LEMMA LaterDayLater ==
  ASSUME NEW z, IsZone(z), NEW v \in Int, NEW w \in Int, v + DayTicks <= w
  PROVE  Date(z, v) <= Date(z, w)
<1>1. z.base \in Int /\ z.shift \in Int /\ -DayTicks <= z.shift /\ z.shift <= DayTicks
  BY ZoneBounds, ShiftIsShort
<1>2. /\ Date(z, v) \in Int /\ (Date(z, v) = v - z.base \/ Date(z, v) = v - z.base - z.shift)
      /\ Date(z, w) \in Int /\ (Date(z, w) = w - z.base \/ Date(z, w) = w - z.base - z.shift)
  BY DateReads
<1> QED BY <1>1, <1>2, Scale

(* The days of a strip follow one another, from its start to its end.      *)
LEMMA DaysFollow ==
  ASSUME NEW z, IsZone(z), NEW at \in Int
  PROVE  /\ \A i \in Int : previewDay(z, at, i) \in Int
         /\ previewDay(z, at, 0) = previewStart(z, at)
         /\ \A i, j \in Int : i < j => previewDay(z, at, i) <= previewDay(z, at, j)
<1> DEFINE p == previewStart(z, at)
           l == Local(z, p)
<1>1. p \in Int /\ Date(z, l) = p
  <2>1. Local(z, at) \in Int
    BY LocalOfEnds
  <2>2. DateOf(Local(z, at)) * DayTicks \in Int
    BY <2>1, DateBounds, Scale
  <2> QED BY <2>2, DateReads DEF previewStart
<1>2. l \in Int
  BY <1>1, LocalOfEnds
<1>3. \A i : previewDay(z, at, i) = Date(z, l + i * DayTicks)
  BY DEF previewDay
<1> HIDE DEF p, l
<1>4. \A i \in Int : l + i * DayTicks \in Int
  BY <1>2, Scale
<1>5. \A i \in Int : previewDay(z, at, i) \in Int
  BY <1>3, <1>4, DateReads
<1>6. previewDay(z, at, 0) = p
  <2>1. l + 0 * DayTicks = l
    BY <1>2, Scale
  <2> QED BY <1>1, <1>3, <2>1
<1>7. ASSUME NEW i \in Int, NEW j \in Int, i < j
      PROVE  previewDay(z, at, i) <= previewDay(z, at, j)
  <2> DEFINE x == i * DayTicks
             y == j * DayTicks
  <2>1. x \in Int /\ y \in Int /\ x + DayTicks <= y
    BY <1>7, DaysAreApart
  <2>2. l + x + DayTicks <= l + y
    <3> HIDE DEF x, y
    <3> QED BY <1>2, <2>1, Scale
  <2>3. l + x \in Int /\ l + y \in Int
    BY <1>4
  <2>4. Date(z, l + x) <= Date(z, l + y)
    <3> HIDE DEF x, y
    <3> QED BY <2>2, <2>3, LaterDayLater
  <2> QED BY <1>3, <2>4
<1> QED BY <1>5, <1>6, <1>7 DEF p

(* The strip of days shows what is covered, each instant on one day.       *)
LEMMA PreviewsAreExact ==
  ASSUME NEW z, IsZone(z), NEW scheds, IsCalendar(scheds), NEW s \in scheds, NEW at \in Int
  PROVE  PreviewIsExact(z, s, at)
<1> DEFINE Day(i) == previewDay(z, at, i)
           from == previewStart(z, at)
           to == Day(PreviewDays)
           C == ExpandCoverage(z, {s}, from, to)
           Shown(i) == Ticks(PreviewBlocks(z, at, C, i))
           Strip == 0..(PreviewDays - 1)
<1>1. /\ \A i \in Int : Day(i) \in Int
      /\ Day(0) = from
      /\ \A i, j \in Int : i < j => Day(i) <= Day(j)
  BY DaysFollow
<1>2. PreviewDays \in Int /\ PreviewDays > 0 /\ 0 \in Int
  BY Scale
<1>3. from \in Int /\ to \in Int
  BY <1>1, <1>2
<1>4. Coverage(z, {s}, from, to, C)
  <2> HIDE DEF from, to
  <2> QED BY <1>3, SchedulesOf, CoverageIs
<1>5. PreviewIsExact(z, s, at) <=>
        /\ \A i \in Strip, j \in Strip : i # j => Shown(i) \cap Shown(j) = {}
        /\ UNION {Shown(i) : i \in Strip} = {t \in from..(to - 1) : ScheduleCovers(z, s, t)}
  BY DEF PreviewIsExact
<1> DEFINE Clip(x, i) == [start |-> IF x.start < Day(i) THEN Day(i) ELSE x.start,
                          end |-> IF x.end > Day(i + 1) THEN Day(i + 1) ELSE x.end]
           Seen(i) == {x \in C : Overlaps(x, Day(i), Day(i + 1))}
<1>6. \A i : PreviewBlocks(z, at, C, i) = {Clip(x, i) : x \in Seen(i)}
  BY DEF PreviewBlocks
<1> HIDE DEF Day, from, to, C
<1>7. \A x \in C : /\ x.start \in Int /\ x.end \in Int
                   /\ \A t \in Int : In(x, t) => ScheduleCovers(z, s, t)
  BY <1>4 DEF Coverage
<1>8. \A t \in Int : from <= t /\ t < to /\ ScheduleCovers(z, s, t) => \E x \in C : In(x, t)
  BY <1>4 DEF Coverage
<1>9. \A i \in Strip : i \in Int /\ i + 1 \in Int /\ 0 <= i /\ i < PreviewDays
  BY <1>2
<1>10. ASSUME NEW i \in Strip, NEW t
       PROVE  t \in Shown(i) <=> t \in Int /\ Day(i) <= t /\ t < Day(i + 1) /\ \E x \in C : In(x, t)
  <2> DEFINE a == Day(i)
             b == Day(i + 1)
  <2>1. a \in Int /\ b \in Int
    BY <1>1, <1>9
  <2>2. \A x \in C : /\ Clip(x, i).start = (IF x.start < a THEN a ELSE x.start)
                     /\ Clip(x, i).end = (IF x.end > b THEN b ELSE x.end)
                     /\ x \in Seen(i) <=> x.end > a /\ x.start < b
    BY DEF Overlaps
  <2>3. \A x \in Seen(i) : x \in C
    OBVIOUS
  <2> HIDE DEF a, b, Clip, Seen
  <2>4. \A y \in PreviewBlocks(z, at, C, i) : y.start \in Int /\ y.end \in Int
    <3> SUFFICES ASSUME NEW x \in Seen(i)
                 PROVE  Clip(x, i).start \in Int /\ Clip(x, i).end \in Int
      BY <1>6
    <3> QED BY <1>7, <2>1, <2>2, <2>3
  <2>5. t \in Shown(i) <=> t \in Int /\ \E y \in PreviewBlocks(z, at, C, i) : In(y, t)
    BY <2>4, TicksAre
  <2>6. t \in Shown(i) <=> t \in Int /\ \E x \in Seen(i) : In(Clip(x, i), t)
    BY <1>6, <2>5
  <2>7. ASSUME t \in Int, NEW x \in C
        PROVE  (x \in Seen(i) /\ In(Clip(x, i), t)) <=> a <= t /\ t < b /\ In(x, t)
    <3>1. x.start \in Int /\ x.end \in Int
      BY <1>7
    <3> QED BY <2>1, <2>2, <2>7, <3>1 DEF In
  <2> QED BY <2>3, <2>6, <2>7 DEF a, b
<1> HIDE DEF Shown, Strip
<1>11. ASSUME NEW i \in Strip, NEW j \in Strip, i < j, NEW t \in Shown(i) PROVE t \notin Shown(j)
  <2>1. i \in Int /\ j \in Int /\ i + 1 \in Int /\ (i + 1 = j \/ i + 1 < j)
    BY <1>9, <1>11
  <2>2. Day(i + 1) \in Int /\ Day(j) \in Int /\ Day(i + 1) <= Day(j)
    BY <1>1, <2>1
  <2>3. t \in Int /\ t < Day(i + 1)
    BY <1>10
  <2>4. ~(Day(j) <= t)
    BY <2>2, <2>3
  <2> QED BY <1>10, <2>4
<1>12. \A i \in Strip, j \in Strip : i # j => Shown(i) \cap Shown(j) = {}
  <2> SUFFICES ASSUME NEW i \in Strip, NEW j \in Strip, i # j PROVE Shown(i) \cap Shown(j) = {}
    OBVIOUS
  <2>1. i \in Int /\ j \in Int
    BY <1>9
  <2>2. i < j \/ j < i
    BY <2>1
  <2> QED BY <1>11, <2>2
<1>13. ASSUME NEW i \in Strip, NEW t \in Shown(i)
       PROVE  t \in from..(to - 1) /\ ScheduleCovers(z, s, t)
  <2>1. t \in Int /\ Day(i) <= t /\ t < Day(i + 1)
    BY <1>10
  <2>2. PICK x \in C : In(x, t)
    BY <1>10
  <2>3. i \in Int /\ i + 1 \in Int /\ (i = 0 \/ 0 < i) /\ (i + 1 = PreviewDays \/ i + 1 < PreviewDays)
    BY <1>2, <1>9
  <2>4. from <= Day(i) /\ Day(i + 1) <= to
    <3>1. from <= Day(i)
      BY <1>1, <1>2, <1>3, <2>3
    <3>2. Day(i + 1) <= to
      BY <1>1, <1>2, <1>3, <2>3 DEF to
    <3> QED BY <3>1, <3>2
  <2>5. Day(i) \in Int /\ Day(i + 1) \in Int
    BY <1>1, <2>3
  <2>6. from <= t /\ t < to
    BY <1>3, <2>1, <2>4, <2>5
  <2> QED BY <1>3, <1>7, <2>1, <2>2, <2>6
<1>14. ASSUME NEW t \in from..(to - 1), ScheduleCovers(z, s, t)
       PROVE  \E i \in Strip : t \in Shown(i)
  <2>1. t \in Int /\ from <= t /\ t < to
    BY <1>3
  <2>2. PICK x \in C : In(x, t)
    BY <1>8, <1>14, <2>1
  <2> DEFINE begun == {i \in Strip : Day(i) <= t}
             k == Latest(begun)
  <2>3. begun \in SUBSET Int /\ 0 \in begun /\ PreviewDays \in Int /\ \A i \in begun : i <= PreviewDays
    <3>1. 0 \in Strip /\ Day(0) <= t
      BY <1>1, <1>2, <2>1 DEF Strip
    <3>2. \A i \in Strip : i \in Int /\ i <= PreviewDays
      BY <1>2, <1>9
    <3> QED BY <1>2, <3>1, <3>2
  <2>4. k \in begun /\ \A i \in begun : i <= k
    <3> HIDE DEF begun
    <3> QED BY <2>3, LatestIsGreatest
  <2> HIDE DEF k
  <2>5. k \in Strip /\ k \in Int /\ k + 1 \in Int /\ Day(k) <= t /\ Day(k + 1) \in Int
    BY <1>1, <1>9, <2>4
  <2>6. t < Day(k + 1)
    <3>1. CASE k + 1 = PreviewDays
      BY <2>1, <3>1 DEF to
    <3>2. CASE k + 1 # PreviewDays
      <4>1. 0 <= k /\ k < PreviewDays
        BY <1>9, <2>5
      <4>2. k + 1 \in Strip
        BY <1>2, <2>5, <3>2, <4>1 DEF Strip
      <4>3. ~(k + 1 <= k)
        BY <2>5
      <4>4. k + 1 \notin begun
        BY <2>4, <4>3
      <4> QED BY <2>1, <2>5, <4>2, <4>4
    <3> QED BY <3>1, <3>2
  <2>7. t \in Shown(k)
    BY <1>10, <2>1, <2>2, <2>5, <2>6
  <2> QED BY <2>5, <2>7
<1>15. UNION {Shown(i) : i \in Strip} = {t \in from..(to - 1) : ScheduleCovers(z, s, t)}
  BY <1>13, <1>14
<1> QED BY <1>5, <1>12, <1>15

(* A submission adds a rule for each of its days.                          *)
LEMMA RulesAreAdded ==
  ASSUME NEW params \in Submission
  PROVE  LET added == {RuleFor(day, params) : day \in params.days} IN
         /\ added \subseteq Rule /\ IsFiniteSet(added)
         /\ IsFiniteSet(params.days) /\ Cardinality(added) = Cardinality(params.days)
<1> DEFINE added == {RuleFor(day, params) : day \in params.days}
           f == [day \in params.days |-> RuleFor(day, params)]
<1>1. /\ params.days \subseteq 0..(WeekDays - 1)
      /\ params.start \in 0..(DayTicks - 1) /\ params.end \in 0..(DayTicks - 1)
      /\ params.endDay \in 0..(WeekDays - 1)
  BY DEF Submission
<1>2. IsFiniteSet(params.days)
  <2>1. IsFiniteSet(0..(WeekDays - 1))
    <3>1. WeekDays - 1 \in Int
      BY Scale
    <3> QED BY <3>1, FS_Interval
  <2> QED BY <1>1, <2>1, FS_Subset
<1>3. ASSUME NEW day \in params.days
      PROVE  RuleFor(day, params) \in Rule /\ RuleFor(day, params).startDay = day
  <2>1. day \in 0..(WeekDays - 1)
    BY <1>1
  <2>2. (day + 1) % WeekDays \in 0..(WeekDays - 1)
    BY <2>1, Scale
  <2>3. ruleEndWeekday(day, params) \in 0..(WeekDays - 1)
    BY <1>1, <2>1, <2>2 DEF ruleEndWeekday
  <2> QED BY <1>1, <2>1, <2>3 DEF RuleFor, Rule
<1>4. f \in Bijection(params.days, added)
  <2>1. f \in Injection(params.days, added)
    <3>1. f \in [params.days -> added]
      OBVIOUS
    <3>2. \A a, b \in params.days : f[a] = f[b] => a = b
      BY <1>3
    <3> QED BY <3>1, <3>2 DEF Injection, IsInjective
  <2>2. f \in Surjection(params.days, added)
    BY DEF Surjection
  <2> QED BY <2>1, <2>2 DEF Bijection
<1>5. added \subseteq Rule
  BY <1>3
<1> HIDE DEF f, added
<1>6. IsFiniteSet(added) /\ Cardinality(added) = Cardinality(params.days)
  BY <1>2, <1>4, FS_Bijection DEF ExistsBijection
<1> QED BY <1>2, <1>5, <1>6 DEF added

(* A submission is taken whole or not at all; no rule lasts a whole week.  *)
LEMMA RulesStaySound ==
  ASSUME NEW rules, IsFiniteSet(rules), NEW params \in Submission
  PROVE  RulesAreSound(rules, params)
<1> DEFINE added == {RuleFor(day, params) : day \in params.days}
           after == AddRules(rules, params)
<1>1. /\ added \subseteq Rule /\ IsFiniteSet(added)
      /\ Cardinality(added) = Cardinality(params.days)
  BY RulesAreAdded
<1>2. ASSUME NEW r \in added, RulesValid(params)
      PROVE  Length(r) \in 1..(WeekDays * DayTicks - 1)
  <2>1. PICK day \in params.days : r = RuleFor(day, params)
    OBVIOUS
  <2>2. weekTicks(r.startDay, r.start) # weekTicks(r.endDay, r.end)
    BY <1>2, <2>1 DEF RulesValid, RuleFor
  <2>3. /\ Length(r) \in Int /\ 1 <= Length(r) /\ Length(r) < WeekDays * DayTicks
        /\ WeekDays * DayTicks \in Int
    BY <1>1, <2>2, LengthIs
  <2> DEFINE week == WeekDays * DayTicks
  <2> HIDE DEF week
  <2>4. Length(r) \in Int /\ 1 <= Length(r) /\ Length(r) < week /\ week \in Int
    BY <2>3 DEF week
  <2>5. Length(r) \in 1..(week - 1)
    BY <2>4
  <2> QED BY <2>5 DEF week
<1>3. after = rules \/ (RulesValid(params) /\ added \cap rules = {} /\ after = rules \cup added)
  BY DEF AddRules
<1>4. RulesAreSound(rules, params) <=>
        /\ after = rules \/ Cardinality(after) = Cardinality(rules) + Cardinality(params.days)
        /\ \A r \in after \ rules : Length(r) \in 1..(WeekDays * DayTicks - 1)
  BY DEF RulesAreSound, Length
<1> HIDE DEF added, after
<1>5. CASE after = rules
  BY <1>4, <1>5
<1>6. CASE RulesValid(params) /\ added \cap rules = {} /\ after = rules \cup added
  <2>1. rules \cap added = {} /\ \A r \in after \ rules : r \in added
    BY <1>6
  <2>2. Cardinality(rules \cup added) = Cardinality(rules) + Cardinality(added) - Cardinality(rules \cap added)
    BY <1>1, FS_Union
  <2>3. Cardinality(rules \cap added) = 0
    BY <2>1, FS_EmptySet
  <2>4. Cardinality(rules) \in Nat /\ Cardinality(added) \in Nat
    BY <1>1, FS_CardinalityType
  <2>5. Cardinality(after) = Cardinality(rules) + Cardinality(params.days)
    BY <1>1, <1>6, <2>2, <2>3, <2>4
  <2> QED BY <1>2, <1>4, <1>6, <2>1, <2>5
<1> QED BY <1>3, <1>5, <1>6
-----------------------------------------------------------------------------
(* Every part of it, for the constants.                                    *)
LEMMA AllAreExact == CoverageIsExact
<1>1. ASSUME NEW z \in Zones, NEW scheds \in Calendars, NEW span \in Spans
      PROVE  LET from == span[1]
                 to == span[2]
             IN  /\ ExpansionIsExact(z, scheds, from, to) /\ NamesAgree(z, scheds, from, to)
                 /\ \A s \in scheds :
                      /\ PreviewIsExact(z, s, from) /\ NextIsNext(z, s, from)
                      /\ \A at \in from..to : SuppressionIsOfNow(z, s, from, to, at)
                 /\ \A w \in Proposals : AcceptedWindowsCover(z, w, from)
  <2> DEFINE from == span[1]
             to == span[2]
  <2>1. IsZone(z) /\ IsCalendar(scheds) /\ from \in Int /\ to \in Int /\ Proposals \subseteq Window
    BY InstanceAssumption
  <2> HIDE DEF from, to
  <2>2. ExpansionIsExact(z, scheds, from, to) /\ NamesAgree(z, scheds, from, to)
    BY <2>1, ExpansionsAreExact, NamesAlwaysAgree
  <2>3. ASSUME NEW s \in scheds
        PROVE  /\ PreviewIsExact(z, s, from) /\ NextIsNext(z, s, from)
               /\ \A at \in from..to : SuppressionIsOfNow(z, s, from, to, at)
    <3>1. \A at \in from..to : at \in Int
      BY <2>1
    <3> QED BY <2>1, <3>1, PreviewsAreExact, NextsAreNext, SuppressionsAreOfNow
  <2>4. \A w \in Proposals : AcceptedWindowsCover(z, w, from)
    BY <2>1, WindowsCover
  <2> QED BY <2>2, <2>3, <2>4 DEF from, to
<1>2. ASSUME NEW scheds \in Calendars, NEW params \in Submissions, NEW s \in scheds
      PROVE  RulesAreSound(s.rules, params)
  <2>1. IsFiniteSet(s.rules) /\ params \in Submission
    BY InstanceAssumption, SchedulesOf DEF IsSchedule
  <2> QED BY <2>1, RulesStaySound
<1> QED BY <1>1, <1>2 DEF CoverageIsExact
-----------------------------------------------------------------------------
(* Hours and segments *)

(* Among segments that neither overlap nor touch, the one that has an hour *)
(* is the run of that hour.                                                *)
LEMMA SegmentIsRun ==
  ASSUME NEW M, \A m \in M : m.start \in Int /\ m.end \in Int,
         \A m, n \in M : m # n => m.end < n.start \/ n.end < m.start,
         NEW hours, \A t : t \in hours <=> t \in Int /\ \E m \in M : In(m, t),
         NEW h \in Int, NEW m \in M, In(m, h)
  PROVE  RunStart(hours, h) = m.start /\ RunEnd(hours, h) = m.end
<1> DEFINE a == m.start
           b == m.end
<1>1. a \in Int /\ b \in Int /\ a <= h /\ h < b
  BY DEF In
<1>2. \A t \in Int : a <= t /\ t < b => t \in hours
  BY DEF In
<1>3. ASSUME NEW n \in M, NEW t \in Int, In(n, t), t = a - 1 \/ t = b PROVE FALSE
  <2>1. n.start \in Int /\ n.end \in Int /\ n.start <= t /\ t < n.end
    BY <1>3 DEF In
  <2>2. n # m
    BY <1>1, <1>3, <2>1
  <2>3. n.end < a \/ b < n.start
    BY <2>2
  <2> HIDE DEF a, b
  <2> QED BY <1>1, <1>3, <2>1, <2>3
<1>4. a - 1 \notin hours /\ b \notin hours
  <2>1. a - 1 \in Int /\ b \in Int
    BY <1>1
  <2> QED BY <1>3, <2>1
<1> HIDE DEF a, b
<1>5. RunStart(hours, h) = a
  <2>1. a \in hours /\ a..h \subseteq hours
    <3>1. \A t \in a..h : t \in Int /\ a <= t /\ t < b
      BY <1>1
    <3> QED BY <1>1, <1>2, <3>1
  <2>2. ASSUME NEW c \in hours, c <= h, c..h \subseteq hours, c - 1 \notin hours PROVE c = a
    <3>1. c \in Int
      OBVIOUS
    <3>2. ~(c < a)
      <4>1. c < a => a - 1 \in c..h
        BY <1>1, <3>1
      <4> QED BY <1>4, <2>2, <4>1
    <3>3. ~(a < c)
      <4>1. a < c => c - 1 \in Int /\ a <= c - 1 /\ c - 1 < b
        BY <1>1, <2>2, <3>1
      <4> QED BY <1>2, <2>2, <4>1
    <3> QED BY <1>1, <3>1, <3>2, <3>3
  <2>3. \A c \in hours : (c <= h /\ c..h \subseteq hours /\ c - 1 \notin hours) <=> c = a
    BY <1>1, <1>4, <2>1, <2>2
  <2> QED BY <2>1, <2>3 DEF RunStart
<1>6. RunEnd(hours, h) = b
  <2> DEFINE e == b - 1
  <2>1. e \in Int /\ e + 1 = b /\ h <= e /\ a <= e /\ e < b
    BY <1>1
  <2> HIDE DEF e
  <2>2. e \in hours /\ h..e \subseteq hours
    <3>1. \A t \in h..e : t \in Int /\ a <= t /\ t < b
      BY <1>1, <2>1
    <3> QED BY <1>2, <2>1, <3>1
  <2>3. ASSUME NEW c \in hours, c >= h, h..c \subseteq hours, c + 1 \notin hours PROVE c = e
    <3>1. c \in Int
      OBVIOUS
    <3>2. ~(e < c)
      <4>1. e < c => b \in h..c
        BY <1>1, <2>1, <3>1
      <4> QED BY <1>4, <2>3, <4>1
    <3>3. ~(c < e)
      <4>1. c < e => c + 1 \in Int /\ a <= c + 1 /\ c + 1 < b
        BY <1>1, <2>1, <2>3, <3>1
      <4> QED BY <1>2, <2>3, <4>1
    <3> QED BY <2>1, <3>1, <3>2, <3>3
  <2>4. \A c \in hours : (c >= h /\ h..c \subseteq hours /\ c + 1 \notin hours) <=> c = e
    BY <1>4, <2>1, <2>2, <2>3
  <2>5. (CHOOSE c \in hours : c >= h /\ h..c \subseteq hours /\ c + 1 \notin hours) = e
    BY <2>2, <2>4
  <2>6. RunEnd(hours, h) = 1 + CHOOSE c \in hours : c >= h /\ h..c \subseteq hours /\ c + 1 \notin hours
    BY DEF RunEnd
  <2>7. RunEnd(hours, h) = 1 + e
    BY <2>5, <2>6
  <2> QED BY <1>1, <2>1, <2>7
<1> QED BY <1>5, <1>6 DEF a, b

LEMMA SegmentsRun ==
  ASSUME NEW z, IsZone(z), NEW scheds, IsCalendar(scheds), NEW s \in scheds,
         NEW from \in Int, NEW to \in Int
  PROVE  SegmentsAreRuns(ExpandCoverage(z, scheds, from, to), s.id)
<1> DEFINE C == ExpandCoverage(z, scheds, from, to)
           M == {x \in C : x.id = s.id}
           hours == Ticks(M)
<1>1. Coverage(z, scheds, from, to, C)
  BY CoverageIs
<1> HIDE DEF C
<1>2. /\ \A m \in M : m.start \in Int /\ m.end \in Int /\ m = Segment(s.id, m.start, m.end)
      /\ \A m, n \in M : m # n => m.end < n.start \/ n.end < m.start
  BY <1>1 DEF Coverage
<1>3. \A h : containingSegment(C, s.id, h) = {m \in M : m.start <= h /\ m.end > h}
  BY DEF containingSegment
<1> HIDE DEF M
<1>4. \A t : t \in hours <=> t \in Int /\ \E m \in M : In(m, t)
  BY <1>2, TicksAre
<1>5. ASSUME NEW h \in hours PROVE containingSegment(C, s.id, h) = {RunOf(s.id, hours, h)}
  <2> HIDE DEF hours
  <2>1. PICK m \in M : In(m, h)
    BY <1>4
  <2>2. h \in Int
    BY <1>4
  <2>3. RunStart(hours, h) = m.start /\ RunEnd(hours, h) = m.end
    BY <1>2, <1>4, <2>1, <2>2, SegmentIsRun
  <2>4. m = RunOf(s.id, hours, h)
    BY <1>2, <2>3 DEF RunOf
  <2>5. ASSUME NEW n \in M, n.start <= h, n.end > h PROVE n = m
    <3>1. n.start \in Int /\ n.end \in Int /\ m.start \in Int /\ m.end \in Int
          /\ m.start <= h /\ h < m.end
      BY <1>2, <2>1 DEF In
    <3>2. ~(m.end < n.start) /\ ~(n.end < m.start)
      BY <2>2, <2>5, <3>1
    <3> QED BY <1>2, <3>2
  <2>6. m.start <= h /\ m.end > h
    BY <1>2, <2>1, <2>2 DEF In
  <2>7. containingSegment(C, s.id, h) = {m}
    BY <1>3, <2>5, <2>6
  <2> QED BY <2>4, <2>7
<1> QED BY <1>5 DEF SegmentsAreRuns, C, M

LEMMA BlocksRun ==
  ASSUME NEW C, IsFiniteSet(C),
         \A x \in C : x.start \in Int /\ x.end \in Int /\ x.start <= x.end
  PROVE  BlocksAreRuns(C)
<1> DEFINE M == contextUnionBlocks(C)
           hours == Ticks(C)
<1>1. /\ M \subseteq Segments(0)
      /\ \A m, n \in M : m # n => m.end < n.start \/ n.end < m.start
      /\ \A t : t \in hours <=> t \in Int /\ \E m \in M : In(m, t)
      /\ \A t \in Int : \A m : m \in unionBlockContaining(C, t) <=> m \in M /\ In(m, t)
  BY UnionBlocksAre
<1> HIDE DEF M
<1>2. \A m \in M : m.start \in Int /\ m.end \in Int /\ m = Segment(0, m.start, m.end)
  BY <1>1 DEF Segments, Segment
<1>3. ASSUME NEW h \in hours PROVE unionBlockContaining(C, h) = {RunOf(0, hours, h)}
  <2> HIDE DEF hours
  <2>1. PICK m \in M : In(m, h)
    BY <1>1
  <2>2. h \in Int
    BY <1>1
  <2>3. RunStart(hours, h) = m.start /\ RunEnd(hours, h) = m.end
    BY <1>1, <1>2, <2>1, <2>2, SegmentIsRun
  <2>4. m = RunOf(0, hours, h)
    BY <1>2, <2>3 DEF RunOf
  <2>5. ASSUME NEW n \in M, In(n, h) PROVE n = m
    <3>1. n.start \in Int /\ n.end \in Int /\ m.start \in Int /\ m.end \in Int
          /\ m.start <= h /\ h < m.end /\ n.start <= h /\ h < n.end
      BY <1>2, <2>1, <2>5 DEF In
    <3>2. ~(m.end < n.start) /\ ~(n.end < m.start)
      BY <2>2, <3>1
    <3> QED BY <1>1, <3>2
  <2>6. unionBlockContaining(C, h) = {m}
    BY <1>1, <2>1, <2>2, <2>5
  <2> QED BY <2>4, <2>6
<1> QED BY <1>3 DEF BlocksAreRuns

(* Of a calendar's schedules no two precede one another, so that the name  *)
(* of a freeze is that of the one whose id wins.                           *)
LEMMA WinnersAlwaysAgree ==
  ASSUME NEW z, IsZone(z), NEW scheds, IsCalendar(scheds), NEW from \in Int, NEW to \in Int,
         \A s \in scheds : s.kind = "dated" <=> s.id \in Dated
  PROVE  WinnersAgree(scheds, ExpandCoverage(z, scheds, from, to))
<1> DEFINE C == ExpandCoverage(z, scheds, from, to)
<1>1. Coverage(z, scheds, from, to, C)
  BY CoverageIs
<1> HIDE DEF C
<1>2. /\ IsFiniteSet(scheds) /\ \A s \in scheds : s.id \in Int /\ s.kind \in {"weekly", "dated"}
      /\ \A r, s \in scheds : r.id = s.id => r = s
  BY DEF IsCalendar
<1>3. \A x \in C : /\ x.start \in Int /\ x.end \in Int
                   /\ \E s \in scheds : x.id = s.id
  BY <1>1 DEF Coverage
<1> SUFFICES ASSUME NEW h \in Ticks(C)
             PROVE  AttributedTo(scheds, C, h).id
                      = Winner({s.id : s \in {x \in scheds : containingSegment(C, x.id, h) # {}}})
  BY DEF WinnersAgree, C
<1> DEFINE covering == {x \in scheds : containingSegment(C, x.id, h) # {}}
           f == [s \in covering |-> s.id]
           ids == {f[s] : s \in covering}
           wins == Winner(ids)
<1>4. \A s \in covering : s \in scheds
  OBVIOUS
<1>5. covering # {}
  <2>1. PICK x \in C : In(x, h) /\ h \in Int
    BY <1>3, TicksAre
  <2>2. PICK s \in scheds : x.id = s.id
    BY <1>3
  <2>3. x \in containingSegment(C, s.id, h)
    BY <1>3, <2>1, <2>2 DEF containingSegment, In
  <2> QED BY <2>3
<1>6. IsFiniteSet(covering)
  BY <1>2, FS_Subset
<1>7. AttributedTo(scheds, C, h) = CHOOSE s \in covering : \A r \in covering \ {s} : Precedes(s, r)
  BY DEF AttributedTo
<1> HIDE DEF covering
<1>8. IsFiniteSet(ids)
  <2> HIDE DEF f
  <2> QED BY <1>6, FiniteImage
<1>9. ids = {s.id : s \in covering}
  OBVIOUS
<1> HIDE DEF f, ids
<1>10. ids \in SUBSET Int /\ ids # {}
  BY <1>2, <1>4, <1>5, <1>9
<1>11. wins \in ids /\ \A i \in ids \ {wins} : Outranks(wins, i)
  BY <1>8, <1>10, WinnerWins
<1>12. PICK s \in covering : s.id = wins
  BY <1>9, <1>11
<1> HIDE DEF wins
<1>13. ASSUME NEW r \in covering \ {s} PROVE Precedes(s, r) /\ ~Precedes(r, s)
  <2>1. r \in scheds /\ s \in scheds /\ r # s
    BY <1>4
  <2>2. r.id # s.id /\ r.id \in ids
    BY <1>2, <1>9, <2>1
  <2>3. Outranks(s.id, r.id)
    BY <1>11, <1>12, <2>2
  <2>4. /\ r.id \in Int /\ s.id \in Int
        /\ r.kind \in {"weekly", "dated"} /\ s.kind \in {"weekly", "dated"}
        /\ (s.kind = "dated" <=> s.id \in Dated) /\ (r.kind = "dated" <=> r.id \in Dated)
    BY <1>2, <2>1
  <2>5. CASE s.kind = r.kind
    <3>1. s.id > r.id
      BY <2>3, <2>4, <2>5 DEF Outranks
    <3>2. ~(r.id > s.id)
      BY <2>4, <3>1
    <3> QED BY <2>5, <3>1, <3>2 DEF Precedes
  <2>6. CASE s.kind # r.kind
    <3>1. s.kind = "dated"
      BY <2>3, <2>4, <2>6 DEF Outranks
    <3> QED BY <2>4, <2>6, <3>1 DEF Precedes
  <2> QED BY <2>5, <2>6
<1>14. AttributedTo(scheds, C, h) = s
  <2>1. \A t \in covering : (\A r \in covering \ {t} : Precedes(t, r)) <=> t = s
    BY <1>13
  <2> QED BY <1>7, <2>1
<1> QED BY <1>9, <1>12, <1>14 DEF covering, wins

(* BranchFreezes loses nothing by taking coverage as sets of hours: the    *)
(* segments of ExpandCoverage, the blocks of unionBlockContaining and the  *)
(* name that attributingSchedule gives are those of the hours.             *)
THEOREM HoursAlwaysSuffice == HoursSuffice
<1> SUFFICES ASSUME NEW z \in Zones, NEW scheds \in Calendars, NEW span \in Spans
             PROVE  LET segments == ExpandCoverage(z, scheds, span[1], span[2])
                    IN  /\ \A s \in scheds : SegmentsAreRuns(segments, s.id)
                        /\ BlocksAreRuns(segments)
                        /\ (\A s \in scheds : s.kind = "dated" <=> s.id \in Dated)
                             => WinnersAgree(scheds, segments)
  BY DEF HoursSuffice
<1> DEFINE from == span[1]
           to == span[2]
           C == ExpandCoverage(z, scheds, from, to)
<1>1. IsZone(z) /\ IsCalendar(scheds) /\ from \in Int /\ to \in Int
  BY InstanceAssumption
<1> HIDE DEF from, to
<1>2. \A s \in scheds : SegmentsAreRuns(C, s.id)
  BY <1>1, SegmentsRun
<1>3. (\A s \in scheds : s.kind = "dated" <=> s.id \in Dated) => WinnersAgree(scheds, C)
  BY <1>1, WinnersAlwaysAgree
<1>4. BlocksAreRuns(C)
  <2>1. Coverage(z, scheds, from, to, C)
    BY <1>1, CoverageIs
  <2> HIDE DEF C
  <2>2. IsFiniteSet(C) /\ \A x \in C : x.start \in Int /\ x.end \in Int /\ x.start <= x.end
    BY <2>1 DEF Coverage
  <2> QED BY <2>2, BlocksRun
<1> QED BY <1>2, <1>3, <1>4 DEF from, to

(* Recurring schedules cover what their rules and windows say, whatever    *)
(* the zone, the calendar, and the change of the clocks in between: the    *)
(* expansion (schedule/expand.go), the windows that are accepted, the      *)
(* names and days that the pages show, what a card calls next, what ending *)
(* a freeze early suppresses, the rules that a form adds, and the hours by *)
(* which BranchFreezes decides.                                            *)
THEOREM RecurrencesAreExact == Spec => []RecurrenceIsExact
<1>1. RecurrenceIsExact
  BY AllAreExact, HoursAlwaysSuffice DEF RecurrenceIsExact
<1> QED BY <1>1, PTL
=============================================================================
