SPECIFICATION FairSpec
CONSTANTS
  c1 = c1
  c2 = c2
  c3 = c3
  NoConfig = NoConfig
  Configs = {c1, c2}
  Reachable = {c1, c2}
  MaxFaults = 0
PROPERTIES
  SavedIsApplied
