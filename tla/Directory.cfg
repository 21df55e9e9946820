SPECIFICATION Spec
CONSTANTS
  Companies = {1, 2}
  Names = {n1, n2}
  NoDoc = NoDoc
  Pages = {p1, p2}
  Tags = {1, 2, 3, 4}
  MaxCalls = 2
SYMMETRY Symmetry
INVARIANTS
  ListTrusted
  ContactFound
PROPERTIES
  RefreshRepairs
  UpdateLeavesOne
