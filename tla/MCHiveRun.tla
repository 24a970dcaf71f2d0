-------------------------------- MODULE MCHiveRun --------------------------------
(* A hive run of one goal, supervised from one or two sessions. *)
EXTENDS HiveRun
CONSTANTS x1, x2, p1, p2, k1, k2, run
=============================================================================
