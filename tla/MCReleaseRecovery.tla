-------------------------- MODULE MCReleaseRecovery --------------------------
(* Instances of ReleaseRecovery for TLC: a pack and a release of one episode. *)
EXTENDS ReleaseRecovery

CONSTANTS e1, e2, pack, single

PackAndSingle == [r \in {pack, single} |-> IF r = pack THEN {e1, e2} ELSE {e1}]
Movie == [r \in {pack, single} |-> {e1}]
=============================================================================
