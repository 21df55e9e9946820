SPECIFICATION FairSpec
CONSTANTS
  Dates = {d1, d2}
  Fetches = {f1, f2}
  Dialogs = {m1}
  Taps = {t1, t2}
  None = None
INVARIANTS
  AnswerNotLost
  LoadingPerReport
PROPERTIES
  TapsEnd
CHECK_DEADLOCK FALSE
