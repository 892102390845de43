---------------------------- MODULE MCMonitorLock ----------------------------
(* A small instance of MonitorLock for TLC.                                *)
EXTENDS MonitorLock

CONSTANTS s1, s2
=============================================================================
