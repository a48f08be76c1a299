--------------------------- MODULE MCAppLifecycle ---------------------------
(* AppLifecycle on small instances: the constants are given values in the .cfg files. *)
EXTENDS AppLifecycle, TLC

CONSTANTS m1, m2, x1, x2, r1
=============================================================================
