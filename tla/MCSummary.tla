----------------------------- MODULE MCSummary -----------------------------
(* Summary on small instances: the constants are given values in the .cfg files. *)
EXTENDS Summary
=============================================================================
