--------------------------- MODULE MCTranscriber ---------------------------
(* Transcriber on small instances: the constants are given values in the .cfg files. *)
EXTENDS Transcriber
=============================================================================
