SPECIFICATION AttendanceSpec
CONSTANTS
  Days <- DaysDef
  Looks <- LooksDef
  Hours = {8, 9, 12, 13, 15, 17}
  MaxRows = 2
  Blank = Blank
INVARIANTS
  PresentIsGreen
  PlainIsRight
