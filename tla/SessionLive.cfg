SPECIFICATION FairSpec
CONSTANTS
  Accounts = {a1}
  NoOne = NoOne
  Views = {v1, v2}
  MaxOrphans = 1
PROPERTIES ChainsEnd SplashIsLeft
