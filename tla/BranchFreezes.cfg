SPECIFICATION FairSpec
CONSTANTS
  FreezeIds = {1, 2, 3}
  ScheduleIds = {1, 2}
  Dated = {2}
  Windows <- TwoWindows
  StartFreezes <- OnePlanned
  StartSchedules <- WeeklyInForce
  Operators = {o1, o2}
  MaxTime = 3
  Horizon = 2
  MaxOps = 2
  MaxFaults = 1
  DayTicks = 4
  WeekDays = 2
  Probe = 5
  ScanTicks = 3
  PreviewDays = 2
  Zones <- SomeZones
  Calendars <- SomeCalendars
  Spans <- SomeSpans
  Proposals <- SomeProposals
  Submissions <- SomeSubmissions
INVARIANTS IInv RecurrenceIsExact
PROPERTIES OperatorsAreHeeded ChangesAreReconciled EndingsAreFinal Settles
CHECK_DEADLOCK FALSE
