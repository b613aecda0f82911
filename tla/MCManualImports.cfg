SPECIFICATION FairSpec
CONSTANTS
  f1 = f1
  f2 = f2
  NoTorrent = NoTorrent
  NoCommand = NoCommand
  Torrents = {t1}
  Files = {f1, f2}
  Commands = {c1, c2}
  Matches <- MatchChoices
  Queues = {"radarr"}
  MaxDisturbances = 2
INVARIANTS
  AtMostOnceEver
PROPERTIES
  SubmitsOnce
  SubmissionsEndOrAreNoticed
  FinishedIsSubmitted
  BlockedIsNoticed
