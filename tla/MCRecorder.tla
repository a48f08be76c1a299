----------------------------- MODULE MCRecorder -----------------------------
(* Recorder on small instances: the constants are given values in the .cfg files. *)
EXTENDS Recorder

CONSTANTS m1, mic, system
=============================================================================
