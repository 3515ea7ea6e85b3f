------------------------------ MODULE Recurrence ------------------------------
(***************************************************************************)
(* What recurring schedules cover: internal/schedule's expansion of weekly *)
(* rules and date windows into segments of absolute time, and what the     *)
(* scheduler and the pages make of the segments.  Pure functions, compared *)
(* with a definition of coverage that walks no calendar: BranchFreezes     *)
(* takes coverage as sets of hours, and this is where they come from.      *)
(*                                                                         *)
(* Time is an integer, in ticks: absolute time, and "walls", the readings  *)
(* of a clock that is never changed, DayTicks of them to a date.  A zone   *)
(* is an offset that changes once, which is all the fortnight a page or a  *)
(* tick looks ahead can see.  Parsing and labels are left out.             *)
(***************************************************************************)
EXTENDS Integers, FiniteSets

CONSTANTS DayTicks,   \* ticks in a day
          WeekDays,   \* days in a week
          Probe,      \* 26 hours: how far from a wall its offset is looked for
          ScanTicks,  \* maxNonexistentScanMinutes
          PreviewDays, \* 14: days a page shows
          \* The instance that is compared.
          Zones,       \* time zones
          Calendars,   \* the schedules of a branch, each way they may be
          Spans,       \* <<from, to>>: expansions asked for
          Proposals,   \* windows of a form
          Submissions  \* rules of a form

ASSUME ScaleAssumption ==
  /\ DayTicks \in Nat \ {0} /\ WeekDays \in Nat \ {0}
  /\ Probe \in Nat /\ Probe > DayTicks /\ ScanTicks \in 1..DayTicks /\ PreviewDays \in Nat \ {0}

-----------------------------------------------------------------------------
(* Zones *)

Offset(z, t) == IF t < z.at THEN z.base ELSE z.base + z.shift
Local(z, t) == t + Offset(z, t)
DateOf(wall) == wall \div DayTicks
Weekday(date) == date % WeekDays
Earliest(S) == CHOOSE x \in S : \A y \in S : x <= y
Latest(S) == CHOOSE x \in S : \A y \in S : y <= x

\* The instants that read wall: none in a gap, two where the clock is put back.
wallInstants(z, wall) ==
    LET offsets == {Offset(z, wall + p) : p \in {-Probe, 0, Probe}}
    IN  {t \in {wall - o : o \in offsets} : Local(z, t) = wall}

firstValidWallAfter(z, wall) ==
    Earliest(wallInstants(z, wall +
        Earliest({k \in 1..ScanTicks : wallInstants(z, wall + k) # {}})))

\* A repeated wall starts at its first occurrence and ends at its second.
resolveWall(z, wall, boundary) ==
    LET instants == wallInstants(z, wall)
    IN  IF instants = {} THEN firstValidWallAfter(z, wall)
        ELSE IF boundary = "start" THEN Earliest(instants) ELSE Latest(instants)

-----------------------------------------------------------------------------
(* Weekly rules and date windows *)

weekTicks(day, tick) == day * DayTicks + tick

\* Up to a whole week: a rule that ends at or before its start ends the week after.
RuleWrapDays(rule) ==
    (rule.endDay - rule.startDay)
      + IF weekTicks(rule.endDay, rule.end) <= weekTicks(rule.startDay, rule.start)
        THEN WeekDays ELSE 0

Segment(id, start, end) == [id |-> id, start |-> start, end |-> end]
Overlaps(s, from, to) == s.end > from /\ s.start < to

\* The dates from which a rule may reach into [from, to).
ruleDatesOfTheWindow(z, rule, from, to) ==   \* mutant
    {d \in DateOf(Local(z, from))..DateOf(Local(z, to)) : Weekday(d) = rule.startDay}
ruleDates(z, rule, from, to) ==
    {d \in (DateOf(Local(z, from)) - (RuleWrapDays(rule) + 1))..DateOf(Local(z, to)) :
        Weekday(d) = rule.startDay}

expandRule(z, id, rule, from, to) ==
    LET At(d) == Segment(id,
                   resolveWall(z, d * DayTicks + rule.start, "start"),
                   resolveWall(z, (d + RuleWrapDays(rule)) * DayTicks + rule.end, "end"))
    IN  {s \in {At(d) : d \in ruleDates(z, rule, from, to)} : Overlaps(s, from, to)}

expandWeekly(z, sched, from, to) ==
    UNION {expandRule(z, sched.id, rule, from, to) : rule \in sched.rules}

resolveWindowBounds(z, id, window) ==
    Segment(id, resolveWall(z, window.start, "start"), resolveWall(z, window.end, "end"))

\* A window that a transition swallowed covers nothing.
expandDated(z, sched, from, to) ==
    {s \in {resolveWindowBounds(z, sched.id, w) : w \in sched.windows} :
        s.end > s.start /\ Overlaps(s, from, to)}

\* Overlapping or touching segments become one.  In the order of their starts,
\* a block starts where nothing earlier reaches, and takes in what starts before
\* the next block does.
blockStarts(segments) ==
    {x.start : x \in {s \in segments :
                       \A y \in segments : y.start < s.start => y.end < s.start}}
blockFrom(segments, start) ==
    {y \in segments : /\ start <= y.start
                      /\ \A b \in blockStarts(segments) : b <= y.start => b <= start}
mergeSegments(segments) ==
    {Segment(x.id, x.start, Latest({y.end : y \in blockFrom(segments, x.start)})) :
       x \in {s \in segments : s.start \in blockStarts(segments)}}

\* Segments of different schedules never merge.
ExpandCoverage(z, scheds, from, to) ==
    UNION {mergeSegments(IF s.kind = "weekly" THEN expandWeekly(z, s, from, to)
                         ELSE expandDated(z, s, from, to)) : s \in scheds}

-----------------------------------------------------------------------------
(* Adding a rule or a window *)

\* One submission adds a rule for each selected day, which ends the same day,
\* the next, or on one given day.
ruleEndWeekday(day, params) ==
    IF params.mode = "same" THEN day
    ELSE IF params.mode = "next" THEN (day + 1) % WeekDays ELSE params.endDay

RuleFor(day, params) == [startDay |-> day, start |-> params.start,
                         endDay |-> ruleEndWeekday(day, params), end |-> params.end]

\* validateAddRulesParams, once the form is well formed.
RulesValid(params) ==
    /\ params.days # {}
    /\ \A day \in params.days :
         weekTicks(day, params.start) # weekTicks(ruleEndWeekday(day, params), params.end)

\* All of a submission or, when it is invalid or repeats a rule, nothing.
AddRules(rules, params) ==
    LET added == {RuleFor(day, params) : day \in params.days}
    IN  IF RulesValid(params) /\ added \cap rules = {} THEN rules \cup added ELSE rules

\* validateAddWindowParams: the walls compare as the strings do.
WindowValid(window) == window.end > window.start

\* AddWindow: a window is refused that covers nothing, or nothing any more.
WindowAccepted(z, window, at) ==
    LET s == resolveWindowBounds(z, 0, window)
    IN  WindowValid(window) /\ s.end > s.start /\ s.end > at

-----------------------------------------------------------------------------
(* What is made of the segments *)

\* containingSegment, nextSegmentStart, of one schedule's segments.
containingSegment(segments, id, at) ==
    {s \in segments : s.id = id /\ s.start <= at /\ s.end > at}
nextSegmentStart(segments, id, after) ==
    {s.start : s \in {x \in segments : x.id = id /\ x.start >= after}}

\* contextUnionBlocks, and the scheduler's unionBlockContaining: all schedules'.
contextUnionBlocks(segments) ==
    mergeSegments({Segment(0, s.start, s.end) : s \in segments})
unionBlockContaining(segments, at) ==
    {b \in contextUnionBlocks(segments) : b.start <= at /\ b.end > at}

Precedes(a, b) == IF a.kind # b.kind THEN a.kind = "dated" ELSE a.id > b.id
\* attributingSchedule: whose name the freeze carries at an instant.
AttributedTo(scheds, segments, at) ==
    LET covering == {s \in scheds : containingSegment(segments, s.id, at) # {}}
    IN  CHOOSE s \in covering : \A r \in covering \ {s} : Precedes(s, r)

\* contextNameSpans: a block is cut at every boundary inside it, each slice is
\* named by the schedules that cover its start, and a cut between two slices of
\* one name is dropped.
cuts(block, segments) ==
    {block.start, block.end} \cup
      {c \in {s.start : s \in segments} \cup {s.end : s \in segments} :
         c > block.start /\ c < block.end}
contextNameSpans(block, scheds, segments) ==
    LET C == cuts(block, segments)
        Winner(c) == AttributedTo(scheds, segments, c).id
        Renamed == {c \in C \ {block.start, block.end} :
                      Winner(c) # Winner(Latest({d \in C : d < c}))}
        Kept == Renamed \cup {block.start, block.end}
    IN  {[id |-> Winner(c), start |-> c, end |-> Earliest({d \in Kept : d > c})] :
           c \in Kept \ {block.end}}

\* upcomingScheduleWindows and scheduleNextLabel: of the windows that have not
\* ended the page names the one that starts first.
upcomingScheduleWindows(z, sched, at) ==
    {w \in sched.windows : resolveWindowBounds(z, sched.id, w).end > at}
scheduleNextStarts(z, sched, at) ==
    IF sched.kind = "weekly"
    THEN {s.start : s \in ExpandCoverage(z, {sched}, at, at + PreviewDays * DayTicks)}
    ELSE {resolveWindowBounds(z, sched.id, w).start : w \in upcomingScheduleWindows(z, sched, at)}

\* time.Date of the standard library: a wall in a gap is read with one of the
\* two offsets.
Date(z, wall) ==
    LET guess == wall - Offset(z, wall)
    IN  IF (guess < z.at) = (wall < z.at) THEN guess ELSE wall - Offset(z, guess)

\* schedulePreviewFrom: the strip of days, and on each its clipped blocks.
previewStart(z, at) == Date(z, DateOf(Local(z, at)) * DayTicks)
previewDay(z, at, i) == Date(z, Local(z, previewStart(z, at)) + i * DayTicks)
PreviewBlocks(z, at, segments, i) ==
    LET dayStart == previewDay(z, at, i)
        dayEnd == previewDay(z, at, i + 1)
    IN  {[start |-> IF s.start < dayStart THEN dayStart ELSE s.start,
          end |-> IF s.end > dayEnd THEN dayEnd ELSE s.end] :
           s \in {x \in segments : Overlaps(x, dayStart, dayEnd)}}

-----------------------------------------------------------------------------
(* Properties: what coverage is, without a calendar.                        *)

\* t is within an occurrence that starts at wall a and ends at wall b when the
\* clock has shown a, or skipped past it, and has yet to show b for the last time.
Within(z, t, a, b) ==
    /\ \E u \in (a - DayTicks)..t : Local(z, u) >= a
    /\ \E v \in t..(b + DayTicks) : Local(z, v) < b \/ (v > t /\ Local(z, v) = b)

Covers(z, rule, t) ==
    \E d \in (DateOf(t) - WeekDays - 2)..(DateOf(t) + 2) :
        /\ Weekday(d) = rule.startDay
        /\ Within(z, t, d * DayTicks + rule.start,
                        (d + RuleWrapDays(rule)) * DayTicks + rule.end)

ScheduleCovers(z, sched, t) ==
    IF sched.kind = "weekly" THEN \E rule \in sched.rules : Covers(z, rule, t)
    ELSE \E w \in sched.windows : Within(z, t, w.start, w.end)

Ticks(segments) == UNION {s.start..(s.end - 1) : s \in segments}

\* The expansion covers an instant of the window exactly if the rules do: no
\* occurrence that began before it, wraps the week, or meets a transition is
\* lost, shortened or invented.
ExpansionIsExact(z, scheds, from, to) ==
    \A s \in scheds :
      LET segments == {x \in ExpandCoverage(z, scheds, from, to) : x.id = s.id}
      IN  /\ Ticks(segments) \cap from..(to - 1) = {t \in from..(to - 1) : ScheduleCovers(z, s, t)}
          \* Two segments of a schedule neither overlap nor touch; where one
          \* that is seen whole ends, the coverage really ends.
          /\ \A x, y \in segments : x # y => (x.end < y.start \/ y.end < x.start)
          /\ \A x \in segments : x.start < x.end /\ x.end < to =>
                ~ScheduleCovers(z, s, x.end) /\ ScheduleCovers(z, s, x.end - 1)

\* A date window is accepted exactly if it covers some instant that is to come.
AcceptedWindowsCover(z, window, at) ==
    WindowAccepted(z, window, at) <=>
      /\ window.end > window.start
      /\ \E t \in at..(window.end + DayTicks) : Within(z, t, window.start, window.end)

\* The pages show of a covered instant the schedule that the freeze is named
\* after, in one block with it; of an uncovered one, nothing.
NamesAgree(z, scheds, from, to) ==
    LET segments == ExpandCoverage(z, scheds, from, to)
    IN  \A t \in from..(to - 1) :
          LET blocks == unionBlockContaining(segments, t)
              named == UNION {{n.id : n \in {x \in contextNameSpans(b, scheds, segments) :
                                               x.start <= t /\ t < x.end}} : b \in blocks}
          IN  named = IF t \in Ticks(segments)
                      THEN {AttributedTo(scheds, segments, t).id} ELSE {}

\* The strip shows what the schedule covers, each instant on one day.
PreviewIsExact(z, sched, at) ==
    LET from == previewStart(z, at)
        to == previewDay(z, at, PreviewDays)
        segments == ExpandCoverage(z, {sched}, from, to)
        Shown(i) == Ticks(PreviewBlocks(z, at, segments, i))
    IN  /\ \A i \in 0..(PreviewDays - 1), j \in 0..(PreviewDays - 1) :
              i # j => Shown(i) \cap Shown(j) = {}
        /\ UNION {Shown(i) : i \in 0..(PreviewDays - 1)}
             = {t \in from..(to - 1) : ScheduleCovers(z, sched, t)}

\* No transition swallowed an occurrence or a window: a rule whose occurrence
\* lies inside a gap expands to a segment of no length.
NothingSwallowed(z, sched, from, to) ==
    /\ \A s \in ExpandCoverage(z, {sched}, from, to) : s.start < s.end
    /\ \A w \in sched.windows :
         resolveWindowBounds(z, sched.id, w).start < resolveWindowBounds(z, sched.id, w).end

\* What the card calls next is the coverage of now or the first one to come.
NextIsNext(z, sched, at) ==
    LET to == at + PreviewDays * DayTicks
        starts == scheduleNextStarts(z, sched, at)
        coming == {t \in at..(to - 1) : ScheduleCovers(z, sched, t)}
    IN  NothingSwallowed(z, sched, at, to) /\ coming # {} =>
                       LET next == Earliest(starts) IN
                       IF at \in coming THEN next <= at ELSE next = Earliest(coming)

\* What EndMaterializedFreeze suppresses is the coverage of now, up to the
\* instant it stops, and the event names the one at which it comes back.
SuppressionIsOfNow(z, sched, from, to, at) ==
    LET segments == ExpandCoverage(z, {sched}, from, to)
    IN  NothingSwallowed(z, sched, from, to) =>
        \A current \in containingSegment(segments, sched.id, at) :
          LET resumes == nextSegmentStart(segments, sched.id, current.end)
              coming == {t \in current.end..(to - 1) : ScheduleCovers(z, sched, t)}
          IN  /\ \A t \in at..(current.end - 1) : ScheduleCovers(z, sched, t)
              /\ coming # {} => resumes # {} /\ Earliest(resumes) = Earliest(coming)

\* A submission is taken whole or not at all, and never leaves a rule of no
\* length: every one of the week's ticks tells start from end.
RulesAreSound(rules, params) ==
    LET after == AddRules(rules, params)
    IN  /\ after = rules \/ Cardinality(after) = Cardinality(rules) + Cardinality(params.days)
        /\ \A r \in after \ rules :
             LET length == RuleWrapDays(r) * DayTicks + r.end - r.start
             IN  length \in 1..(WeekDays * DayTicks - 1)

-----------------------------------------------------------------------------
(* The instance, and what is checked of it *)

Rule == [startDay : 0..(WeekDays - 1), start : 0..(DayTicks - 1),
         endDay : 0..(WeekDays - 1), end : 0..(DayTicks - 1)]
Window == [start : Int, end : Int]
Submission == [days : SUBSET (0..(WeekDays - 1)), start : 0..(DayTicks - 1),
               mode : {"same", "next", "specific"}, endDay : 0..(WeekDays - 1),
               end : 0..(DayTicks - 1)]

\* Clocks are within a day of Greenwich, put forward by no more than is scanned,
\* and put back without showing two dates over again.
IsZone(z) ==
    /\ z \in [base : Int, at : Int, shift : Int]
    /\ z.base \in (-DayTicks)..DayTicks /\ z.base + z.shift \in (-DayTicks)..DayTicks
    /\ z.shift <= ScanTicks
    /\ z.shift >= 0 \/ DateOf(z.at + z.base - 1) = DateOf(z.at + z.base + z.shift)

IsCalendar(scheds) ==
    /\ IsFiniteSet(scheds)
    /\ scheds \subseteq [id : Int, kind : {"weekly", "dated"},
                         rules : SUBSET Rule, windows : SUBSET Window]
    /\ \A s \in scheds : /\ IsFiniteSet(s.rules) /\ IsFiniteSet(s.windows)
                         /\ \A w \in s.windows : WindowValid(w)
    /\ \A r, s \in scheds : r.id = s.id => r = s

ASSUME InstanceAssumption ==
  /\ \A z \in Zones : IsZone(z)
  /\ \A scheds \in Calendars : IsCalendar(scheds)
  /\ Spans \subseteq Int \X Int /\ Proposals \subseteq Window /\ Submissions \subseteq Submission

\* All of the above, for every zone, calendar and span.
CoverageIsExact ==
  /\ \A z \in Zones, scheds \in Calendars, span \in Spans :
       LET from == span[1]
           to == span[2]
       IN  /\ ExpansionIsExact(z, scheds, from, to) /\ NamesAgree(z, scheds, from, to)
           /\ \A s \in scheds :
                /\ PreviewIsExact(z, s, from) /\ NextIsNext(z, s, from)
                /\ \A at \in from..to : SuppressionIsOfNow(z, s, from, to, at)
           /\ \A w \in Proposals : AcceptedWindowsCover(z, w, from)
  /\ \A scheds \in Calendars, params \in Submissions :
       \A s \in scheds : RulesAreSound(s.rules, params)
=============================================================================
