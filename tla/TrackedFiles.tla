---------------------------- MODULE TrackedFiles ----------------------------
(***************************************************************************)
(* What the registry of tracked files promises to the services that use    *)
(* it: each method is one step, and an entry has at most one retry, which  *)
(* ends with it.  The lock, the tasks and the wait for a cancelled one are *)
(* hidden; the services may count on nothing else.                         *)
(***************************************************************************)
EXTENDS FileStatus

CONSTANT Entries

VARIABLES
    known,     \* the entries there are
    status,    \* of an entry, "DISCOVERED" if there is none
    retry      \* entries with a pending retry

fileVars == <<known, status, retry>>

Init ==
    /\ known \in SUBSET Entries
    /\ status = [i \in Entries |-> "DISCOVERED"]
    /\ retry = {}

\* A new entry begins without a retry.
Add(i) ==
    /\ i \notin known \cup retry
    /\ known' = known \cup {i}
    /\ status' = [status EXCEPT ![i] = "DISCOVERED"]
    /\ UNCHANGED retry

\* A finished entry is not retried.
Update(i, s) ==
    /\ i \in known
    /\ status' = [status EXCEPT ![i] = s]
    /\ retry' = IF s \in Terminal THEN retry \ {i} ELSE retry
    /\ UNCHANGED known

\* A retry takes the place of the one that was pending.
Schedule(i) ==
    /\ i \in known
    /\ retry' = retry \cup {i}
    /\ UNCHANGED <<known, status>>

Cancel(i) == retry' = retry \ {i} /\ UNCHANGED <<known, status>>

CancelAll == retry' = retry \ known /\ UNCHANGED <<known, status>>

\* A pending retry fires once, and makes a file READY that still waits.
Fire(i) ==
    /\ i \in retry
    /\ retry' = retry \ {i}
    /\ status' = [status EXCEPT ![i] =
                     IF i \in known /\ @ = "WAITING_FOR_SPACE" THEN "READY" ELSE @]
    /\ UNCHANGED known

\* Missing files are marked, and their retries left alone.
Sweep(missing) ==
    /\ \A i \in missing : status[i] \notin KeptWhenMissing
    /\ status' = [i \in Entries |-> IF i \in missing THEN "REMOVED" ELSE status[i]]
    /\ UNCHANGED <<known, retry>>

\* An entry is dropped with its status, but its retry may still fire.
Forget(old) ==
    /\ known' = known \ old
    /\ status' = [i \in Entries |-> IF i \in old THEN "DISCOVERED" ELSE status[i]]
    /\ UNCHANGED retry

Next ==
    \/ \E i \in Entries : Add(i) \/ Schedule(i) \/ Cancel(i) \/ Fire(i)
    \/ \E i \in Entries, s \in Status : Update(i, s)
    \/ CancelAll
    \/ \E missing \in SUBSET known : Sweep(missing)
    \/ \E old \in SUBSET known : Forget(old)

Spec == Init /\ [][Next]_fileVars
=============================================================================
