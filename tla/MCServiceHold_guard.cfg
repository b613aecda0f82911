SPECIFICATION FairSpec
CONSTANTS
  arr1 = arr1
  arr2 = arr2
  Arrs = {arr1}
  MaxReplacements = 1
  MaxStorage = 2
  MaxDisturbances = 1
INVARIANTS
  PauseIsKept
  StoppedIsOnRecord
PROPERTIES
  LockIsKept
  HoldsStand
  AdminStopsStand
  HoldsEnd
  DownloaderReturns
