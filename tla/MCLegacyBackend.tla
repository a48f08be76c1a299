-------------------------- MODULE MCLegacyBackend --------------------------
(* LegacyBackend on small instances: the constants are given values in the .cfg files. *)
EXTENDS LegacyBackend, TLC

CONSTANTS a, b

=============================================================================
