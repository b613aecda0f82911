---------------------------- MODULE MCServiceHold ----------------------------
(* Instances of ServiceHold for TLC. *)
EXTENDS ServiceHold, TLC

CONSTANTS arr1, arr2

Symmetry == Permutations(Arrs)
=============================================================================
