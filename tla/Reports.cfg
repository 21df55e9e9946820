SPECIFICATION Spec
CONSTANTS
  c1 = c1
  c2 = c2
  i1 = i1
  i2 = i2
  Companies = {c1, c2}
  Interns = {i1, i2}
  Home <- MCHome
  Schedules <- MCSchedules
  HalfDays <- MCHalfDays
  Requests <- MCRequests
  MaxChanges = 2
  None = None
INVARIANTS
  ListedOnce
  TotalOfPeriod
  ColumnsAddUp
  PlannedByCalendar
