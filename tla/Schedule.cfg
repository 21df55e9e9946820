SPECIFICATION ScheduleSpec
CONSTANTS
  Times = {1, 2}
  Dates = {1, 2}
  NoTime = None
  MaxRows = 2
INVARIANT ShownIsSaved
 
