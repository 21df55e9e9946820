SPECIFICATION RecordsSpec
CONSTANTS
  Profile = {company, schedules}
  Contact = {mobile}
  Values = {v1, v2}
  NoDoc = NoDoc
  MaxQueue = 2
SYMMETRY Symmetry
INVARIANTS
  ObjectCurrent
PROPERTIES
  UntouchedKept
