SPECIFICATION Spec
CONSTANTS
  t1 = t1
  t2 = t2
  NoTorrent = NoTorrent
  NoCommand = NoCommand
  Torrents = {t1, t2}
  Commands = {c1, c2}
  AppOf <- SameApp
  OwnerChoices = {"one"}
  JournalLimit = 1
  MaxGrabs = 1
  MaxDisturbances = 1
  PartialLists = TRUE
SYMMETRY Symmetry
INVARIANTS
  NoConcurrentImports
  SettledMeansEnded
PROPERTIES
  SubmitsOnce
