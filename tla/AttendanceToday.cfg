SPECIFICATION AttendanceSpec
CONSTANTS
  Days <- DaysDef
  Looks <- LooksDef
  Hours = {8, 12, 13, 17}
  MaxRows = 1
  Blank = Blank
INVARIANTS
  GreenIsToday
