SPECIFICATION FairSpec
CONSTANTS
  Titles = {t1}
  None = None
  MaxFaults = 2
  MaxChanges = 2
INVARIANTS
  RoutedStaysOwned
  HandPlacedStays
PROPERTIES
  NothingLeftBehind
  RoutedOrReported
CHECK_DEADLOCK FALSE
