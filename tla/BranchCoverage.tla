---------------------------- MODULE BranchCoverage ----------------------------
(***************************************************************************)
(* BranchFreezes and Recurrence together.  BranchFreezes has of coverage   *)
(* only hours: a schedule's segments are the runs of its set of hours, a   *)
(* block is a run of everybody's, and the winner is one of those whose set *)
(* has the hour.  Recurrence has the segments themselves.                  *)
(***************************************************************************)
EXTENDS BranchFreezes, Recurrence

RunOf(id, hours, h) == Segment(id, RunStart(hours, h), RunEnd(hours, h))

\* Each schedule's segments are the runs of the hours that they cover.
SegmentsAreRuns(segments, id) ==
    LET hours == Ticks({x \in segments : x.id = id})
    IN  \A h \in hours : containingSegment(segments, id, h) = {RunOf(id, hours, h)}

\* The blocks of all schedules' segments are the runs of all the hours.
BlocksAreRuns(segments) ==
    LET hours == Ticks(segments)
    IN  \A h \in hours : unionBlockContaining(segments, h) = {RunOf(0, hours, h)}

\* The schedule that wins among the ids is the one the freeze is named after.
WinnersAgree(scheds, segments) ==
    \A h \in Ticks(segments) :
        AttributedTo(scheds, segments, h).id
          = Winner({s.id : s \in {x \in scheds : containingSegment(segments, x.id, h) # {}}})

\* Hours are all that BranchFreezes has to know of segments.
HoursSuffice ==
    \A z \in Zones, scheds \in Calendars, span \in Spans :
        LET segments == ExpandCoverage(z, scheds, span[1], span[2])
        IN  /\ \A s \in scheds : SegmentsAreRuns(segments, s.id)
            /\ BlocksAreRuns(segments)
            /\ (\A s \in scheds : s.kind = "dated" <=> s.id \in Dated)
                 => WinnersAgree(scheds, segments)

\* Recurring schedules cover what their rules and windows say, over any change
\* of the clocks (schedule/expand.go), accept what covers something to come, and
\* are shown and named by the pages as the scheduler has them; the scheduler
\* decides by the hours what it would by the segments (scheduler/decide.go).
\* No state changes what the functions return: they are compared at the start.
RecurrenceIsExact == now = 0 => CoverageIsExact /\ HoursSuffice
=============================================================================
