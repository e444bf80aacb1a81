--------------------------- MODULE StateManagerMC ---------------------------
(***************************************************************************)
(* StateManager on a small instance: one path whose file may come back     *)
(* after it was finished, and a retry that may be scheduled again.         *)
(***************************************************************************)
EXTENDS StateManager

\* A finished status that is kept when the file is missing, and the one a
\* retry is pending in.  Missing files and fired retries bring in REMOVED and
\* READY, new entries DISCOVERED.
MCTargets == {"COMPLETED", "WAITING_FOR_SPACE"}

\* What the scanner finds gone it reports before the registry knows.
MCVerdicts == {"REMOVED"}
=============================================================================
