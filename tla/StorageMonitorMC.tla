-------------------------- MODULE StorageMonitorMC --------------------------
(***************************************************************************)
(* One file and both checks; the destination takes every level at any      *)
(* time.  Two events of the file, and with those of the two checks four,   *)
(* may be under way.                                                       *)
(***************************************************************************)
EXTENDS StorageMonitor

CONSTANT f1
=============================================================================
