---------------------------- MODULE MCPreferences ----------------------------
(* Instances of Preferences for TLC. *)
EXTENDS Preferences

TwoChoices == {[limit |-> 8, dual |-> TRUE], [limit |-> 4, dual |-> FALSE]}
=============================================================================
