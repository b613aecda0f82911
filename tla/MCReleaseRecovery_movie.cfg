SPECIFICATION FairSpec
CONSTANTS
  e1 = e1
  e2 = e2
  pack = pack
  single = single
  Episodes = {e1}
  Releases = {pack, single}
  Covers <- Movie
  Staged = {pack}
  MaxImports = 2
  MaxAttempts = 2
  MaxPreviews = 1
  MaxDisturbances = 1
INVARIANTS
  RejectionsAreKept
  RetriesAreMonitored
  ImportedMeansReplaced
PROPERTIES
  RejectsAsConfirmed
  OnlyConfirmedFilesAreRemoved
  OutcomeIsSeen
  DeliveryStopsMonitoring
