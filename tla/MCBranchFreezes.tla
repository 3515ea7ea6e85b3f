--------------------------- MODULE MCBranchFreezes ---------------------------
EXTENDS BranchCoverage

(* Two touching windows, so that one schedule's coverage may merge, between *)
(* two hours that nothing covers.                                           *)
TwoWindows == {{1}, {2}}

(* A weekly schedule in force and a newer dated one that is paused. *)
WeeklyInForce ==
  <<[status |-> "active", windows |-> {{1}, {2}}, until |-> 0],
    [status |-> "paused", windows |-> {{2}}, until |-> 0]>>

(* A one-time freeze is planned for the second hour. *)
OnePlanned ==
  [i \in FreezeIds |->
     IF i = 1 THEN [status |-> "scheduled", origin |-> "planned", sched |-> 0,
                    start |-> 1, planned |-> 0, version |-> 0]
              ELSE NoFreeze]

NoRows == [i \in FreezeIds |-> NoFreeze]

(* A dated schedule covers the second hour. *)
DatedInForce == <<[status |-> "active", windows |-> {{1}}, until |-> 0]>>

-----------------------------------------------------------------------------
(* Recurrence, on a week of two days of four ticks.                         *)

(* Zones west and east of Greenwich, put forward and back by one or two     *)
(* ticks at an instant of a day; none repeats a midnight.                   *)
SomeZones == {z \in [base : {-1, 1}, at : 8..13, shift : {-2, -1, 1, 2}] : IsZone(z)}
Weekly(rules) == [id |-> 1, kind |-> "weekly", rules |-> rules, windows |-> {}]
DatedSchedule(windows) == [id |-> 2, kind |-> "dated", rules |-> {}, windows |-> windows]
DateWindows == {w \in [start : 10..13, end : 11..15] : w.start < w.end /\ w.end < w.start + 4}

(* Each rule alone, some with a second rule or a date window; two windows.  *)
SomeCalendars ==
  LET Others == {r \in Rule : r.startDay = 1 /\ r.start = 3 /\ r.end = 0}
      Paired == {r \in Rule : r.startDay = 0 /\ r.start \in {1, 3}}
  IN  {{Weekly({r})} : r \in Rule}
        \cup {{Weekly({r, o})} : r \in Paired, o \in Others}
        \cup {{DatedSchedule({v, [start |-> 14, end |-> 15]})} : v \in DateWindows}
        \cup {{Weekly({r}), DatedSchedule({w})} :
                 r \in Paired, w \in {v \in DateWindows : v.start = 11}}

SomeSpans == {<<9, 17>>, <<11, 16>>}
SomeProposals == [start : 8..14, end : 8..17]
(* A form on which rules may be equal, repeated or of no length.            *)
SomeSubmissions == {p \in Submission : p.start = 1}
=============================================================================
