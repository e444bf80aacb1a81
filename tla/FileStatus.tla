----------------------------- MODULE FileStatus -----------------------------
(***************************************************************************)
(* The life of a tracked file as app/models.py names it (FileStatus), the  *)
(* groups of statuses the services test for, and the priority table with   *)
(* which app/services/state_manager.py picks one entry among the several a *)
(* path may have.                                                          *)
(***************************************************************************)
EXTENDS Naturals

\* models.py, class FileStatus.
Status ==
    { "DISCOVERED", "READY", "IN_QUEUE", "COPYING", "COMPLETED", "FAILED",
      "REMOVED", "GROWING", "READY_TO_START_GROWING", "GROWING_COPY",
      "WAITING_FOR_SPACE", "SPACE_ERROR", "WAITING_FOR_NETWORK" }

\* update_file_status_by_id cancels the retry of a file that reaches one.
Terminal == { "FAILED", "COMPLETED", "REMOVED" }

\* The statuses of an entry that still stands for a file in the source folder.
Active == Status \ Terminal

\* cleanup_missing_files leaves an entry in one of these alone.
KeptWhenMissing == { "COMPLETED", "COPYING", "IN_QUEUE", "GROWING_COPY" }

\* _is_more_current: the two waiting statuses are level, SPACE_ERROR is last.
MoreCurrentRank ==
    [ COPYING |-> 1, IN_QUEUE |-> 2, GROWING_COPY |-> 3,
      READY_TO_START_GROWING |-> 4, READY |-> 5, GROWING |-> 6,
      DISCOVERED |-> 7, WAITING_FOR_SPACE |-> 8, WAITING_FOR_NETWORK |-> 8,
      COMPLETED |-> 9, FAILED |-> 10, REMOVED |-> 11, SPACE_ERROR |-> 12 ]

(***************************************************************************)
(* The entry of S that a table prefers.  Entries are numbered in the order *)
(* of their discovered_at, and among equals the newest wins.               *)
(***************************************************************************)
Preferred(S, status, rank) ==
    CHOOSE i \in S : \A j \in S :
        \/ rank[status[i]] < rank[status[j]]
        \/ rank[status[i]] = rank[status[j]] /\ i >= j

=============================================================================
