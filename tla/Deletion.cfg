SPECIFICATION FairSpec
CONSTANTS
  Dialogs = {q1, q2}
  Taps = {t1, t2}
  None = None
INVARIANTS
  
  OnlyHasteStrays

  
CHECK_DEADLOCK FALSE
