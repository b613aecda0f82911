SPECIFICATION FairSpec
CONSTANTS
  t1 = t1
  t2 = t2
  NoTorrent = NoTorrent
  NoCommand = NoCommand
  Torrents = {t1}
  Commands = {c1, c2}
  AppOf <- SameApp
  OwnerChoices = {"one", "many"}
  JournalLimit = 2
  MaxGrabs = 2
  MaxDisturbances = 2
  PartialLists = FALSE
INVARIANTS
  AtMostOncePerGrab
PROPERTIES
  FinishedIsHandedOver
  AutomaticImportsEndOff
