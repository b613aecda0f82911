SPECIFICATION FairSpec
CONSTANTS
  film = film
  other = other
  show = show
  m1 = m1
  s1 = s1
  None = None
  Unknown = Unknown
  Whole = Whole
  Titles = {film, other, show}
  Series = {show}
  Slots = {m1, s1}
  Shows = {s1}
  Seasons = {1, 2}
  Requestable <- Requests
  PageSize = 1
  NewestFirst = FALSE
  MassFloor = 2
  MassLimit = 3
  Recorded = {1}
  MaxRequests = 3
  MaxDisturbances = 1
INVARIANTS
  SnapshotIsComplete
  OneHistory
PROPERTIES
  CancelsOnlyWithdrawn
  WithdrawnIsCancelled
  WithdrawnSearchesEnd
