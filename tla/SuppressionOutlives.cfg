SPECIFICATION Spec
CONSTANTS
  FreezeIds = {1, 2}
  ScheduleIds = {1}
  Dated = {1}
  Windows <- TwoWindows
  StartFreezes <- NoRows
  StartSchedules <- DatedInForce
  Operators = {o1}
  MaxTime = 3
  Horizon = 2
  MaxOps = 2
  MaxFaults = 0
  DayTicks = 4
  WeekDays = 2
  Probe = 5
  ScanTicks = 3
  PreviewDays = 2
  Zones <- SomeZones
  Calendars <- SomeCalendars
  Spans <- SomeSpans
  Proposals <- SomeProposals
  Submissions <- SomeSubmissions
INVARIANTS WindowsResume
CHECK_DEADLOCK FALSE
