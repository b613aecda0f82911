-------------------------- MODULE MCPortForwarding --------------------------
(* A rotation between gateways that give different ports, for TLC. *)
EXTENDS PortForwarding

CONSTANTS c1, c2, c3, p1, p2

GrantsOfEach == [c \in Configs |-> IF c = c2 THEN {p1, p2} ELSE {p2}]
=============================================================================
