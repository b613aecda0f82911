---------------------------- MODULE MCVpnService ----------------------------
(* Instances of VpnService for TLC. *)
EXTENDS VpnService

CONSTANTS c1, c2, c3
=============================================================================
