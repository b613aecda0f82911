-------------------------- MODULE MCImportHandoff --------------------------
(* Small instances of ImportHandoff for TLC. *)
EXTENDS ImportHandoff, TLC

CONSTANTS t1, t2

\* Two downloads of one application, or one of each.
SameApp == [t \in Torrents |-> "radarr"]
OneEach == [t \in Torrents |-> IF t = t1 THEN "radarr" ELSE "sonarr"]

Symmetry == Permutations(Torrents) \cup Permutations(Commands)
CommandSymmetry == Permutations(Commands)
=============================================================================
