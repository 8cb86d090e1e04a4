---------------------------- MODULE MCSchedMutex ----------------------------
(* Instances of SchedMutex for TLC.                                        *)
EXTENDS SchedMutex
=============================================================================
