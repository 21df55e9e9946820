SPECIFICATION FairSpec
CONSTANTS
  People = {w1}
  Companies = {a, b}
  Targets = {a, b}
  None = None
  Fetches = {1, 2}
  Tags = {1, 2, 3, 4}
INVARIANTS
  OneEntry
PROPERTIES
  ForeignOnlyLate
  DeletedIsUndrawn
  LoadingEnds
  CallEnds
