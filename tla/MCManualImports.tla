-------------------------- MODULE MCManualImports --------------------------
(* A small instance of ManualImports for TLC. *)
EXTENDS ManualImports, TLC

CONSTANTS f1, f2

\* Radarr accepts one file of two, or Sonarr both.
MatchChoices ==
  {[a \in Apps |-> IF a = "radarr" THEN {f1} ELSE {}],
   [a \in Apps |-> IF a = "sonarr" THEN Files ELSE {}]}
=============================================================================
