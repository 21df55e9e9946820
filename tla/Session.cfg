SPECIFICATION Spec
CONSTANTS
  Accounts = {a1, a2}
  NoOne = NoOne
  Views = {v1, v2, v3}
  MaxOrphans = 1
SYMMETRY Symmetry
INVARIANTS  OwnCompanies InputBack
PROPERTY HomeIsSignedIn
