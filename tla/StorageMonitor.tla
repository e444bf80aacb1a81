--------------------------- MODULE StorageMonitor ---------------------------
(***************************************************************************)
(* The storage monitor (services/storage_monitor, services/storage_checker *)
(* and services/network_mount) and the files that wait for the network     *)
(* (services/job_queue.py).                                                *)
(*                                                                         *)
(* The destination is checked in a loop, and once more by start_monitoring *)
(* itself, so two checks may be under way at a time.  A check asks the     *)
(* file system several questions and suspends at each; the destination     *)
(* comes and goes in between.  When a check is over its answer replaces    *)
(* what was known, the change is published, and a step out of an outage    *)
(* sends the waiting files back to be discovered again.                    *)
(*                                                                         *)
(* The registry's lock serves its callers in the order in which they come  *)
(* (StateManager), so a call to the registry takes effect here when it is  *)
(* made.  The registry hears its own events: a change of status is under   *)
(* way until the handler has written it once more, and when the status is  *)
(* another one by then, that is a change like any other.  Whoever made the *)
(* change waits for all of it.                                             *)
(*                                                                         *)
(* A check of the source goes the same way, but no file depends on its     *)
(* answer: it is one step here.  Files take the short road from DISCOVERED *)
(* to a copy; the detours, and what becomes of a copy, are Pipeline's      *)
(* subject.                                                                *)
(***************************************************************************)
EXTENDS FileStatus, Naturals, Sequences

CONSTANTS
    Files,
    MaxEvents,   \* bound: the files change no further with so many events under way
    None

\* models.py, StorageStatus.
StorageStatus == {"OK", "WARNING", "ERROR", "CRITICAL"}
ASSUME NoneAssumption == None \notin StorageStatus /\ MaxEvents \in Nat

\* What the two tests for a transition call problematic, and what the job
\* queue calls available.
Problematic == {"ERROR", "CRITICAL"}
Available == {"OK", "WARNING"}

Checkers == {"loop", "starter"}

VARIABLES
    level,       \* the state of the destination, as a check would find it
    known,       \* StorageState._destination_info.status, or None
    status,      \* TrackedFile.status
    events,      \* of each file, the changes whose handler is still to run:
                 \* the new status, and the check that waits for it, or None
    gone,        \* history: the files that a sweep marked as removed
    pc,          \* where a check is
    accessible,  \* its answer of _check_accessibility
    found,       \* its new_info.status
    tried,       \* has it tried to mount or to make the directory?
    recovered,   \* the change it made is a destination recovery
    todo,        \* the waiting files it has listed
    direct       \* history: the destination became OK right after an outage

checks == <<pc, accessible, found, tried, recovered, todo>>
files == <<status, events, gone>>
vars == <<level, known, files, checks, direct>>

\* start_monitoring has just been called.
Init ==
    /\ level \in StorageStatus
    /\ known = None
    /\ status \in [Files -> {"DISCOVERED", "READY"}]
    /\ events = [f \in Files |-> <<>>]
    /\ gone = {}
    /\ pc = [k \in Checkers |-> "source"]
    /\ accessible = [k \in Checkers |-> FALSE]
    /\ found = [k \in Checkers |-> "ERROR"]
    /\ tried = [k \in Checkers |-> FALSE]
    /\ recovered = [k \in Checkers |-> FALSE]
    /\ todo = [k \in Checkers |-> {}]
    /\ direct = FALSE

Go(k, there) == pc' = [pc EXCEPT ![k] = there]

-----------------------------------------------------------------------------
(* A check.  What it knows is forgotten as soon as it is of no use.        *)

\* _check_all_storage: the source comes first.
CheckSource(k) ==
    /\ pc[k] = "source"
    /\ Go(k, "ask")
    /\ UNCHANGED <<level, known, files, accessible, found, tried, recovered, todo, direct>>

\* _check_accessibility.
AskAccessible(k) ==
    /\ pc[k] = "ask"
    /\ accessible' = [accessible EXCEPT ![k] = level # "ERROR"]
    /\ Go(k, "measure")
    /\ UNCHANGED <<level, known, files, found, tried, recovered, todo, direct>>

\* Mutant: the failure of _get_disk_usage is not caught in check_path.
EvaluateRaw(there, now) == IF ~there THEN "ERROR" ELSE IF now = "ERROR" THEN None ELSE now

\* _evaluate_status: a destination that went away after the first question
\* cannot be written to.
Evaluate(there, now) == IF ~there THEN "ERROR" ELSE IF now = "ERROR" THEN "CRITICAL" ELSE now

\* Disk usage and write access, and what _check_single_storage makes of it.
Measure(k) ==
    LET new == Evaluate(accessible[k], level)
    IN  /\ pc[k] = "measure"
        /\ found' = [found EXCEPT ![k] = new]
        /\ accessible' = [accessible EXCEPT ![k] = FALSE]
        /\ Go(k, IF new # "ERROR" \/ tried[k] THEN "update" ELSE "restore")
        /\ UNCHANGED <<level, known, files, tried, recovered, todo, direct>>

\* An attempt to bring the destination back, and only one: the share is
\* mounted (ensure_mount_available), or the directory made where no mount is
\* configured (ensure_directory_exists).
Restore(k) ==
    /\ pc[k] = "restore"
    /\ tried' = [tried EXCEPT ![k] = TRUE]
    /\ \/ Go(k, "update") /\ UNCHANGED level
       \/ /\ Go(k, "ask")
          /\ level' \in IF level = "ERROR" THEN StorageStatus \ {"ERROR"} ELSE {level}
    /\ UNCHANGED <<known, files, accessible, found, recovered, todo, direct>>

\* Mutant: CRITICAL is forgotten.
IsRecoveryFromError(old, new) == old = "ERROR" /\ new = "OK"

\* _is_destination_recovery.  The opposite, _is_destination_unavailable, calls
\* a method the job queue does not have, and changes nothing.
IsRecovery(old, new) == old \in Problematic /\ new = "OK"

\* How the history goes on.
StillDirect(old, new) ==
    \/ old \in Problematic /\ new = "OK"
    \/ old = "OK" /\ new = "OK" /\ direct

\* Mutant: the information is updated before the old one is read.
UpdateBeforeReading(k) ==
    /\ pc[k] = "update"
    /\ known' = found[k]
    /\ recovered' = [recovered EXCEPT ![k] = IsRecovery(found[k], found[k])]
    /\ direct' = StillDirect(known, found[k])
    /\ found' = [found EXCEPT ![k] = "ERROR"]
    /\ tried' = [tried EXCEPT ![k] = FALSE]
    /\ Go(k, "publish")
    /\ UNCHANGED <<level, files, accessible, todo>>

\* The answer replaces what was known, and the change is published.
Update(k) ==
    /\ pc[k] = "update"
    /\ known' = found[k]
    /\ recovered' = [recovered EXCEPT ![k] = IsRecovery(known, found[k])]
    /\ direct' = StillDirect(known, found[k])
    /\ found' = [found EXCEPT ![k] = "ERROR"]
    /\ tried' = [tried EXCEPT ![k] = FALSE]
    /\ Go(k, "publish")
    /\ UNCHANGED <<level, files, accessible, todo>>

Waiting == {f \in Files : status[f] = "WAITING_FOR_NETWORK"}

\* The subscribers are done.  A recovery lists the waiting files.
Published(k) ==
    /\ pc[k] = "publish"
    /\ todo' = [todo EXCEPT ![k] = IF recovered[k] THEN Waiting ELSE {}]
    /\ recovered' = [recovered EXCEPT ![k] = FALSE]
    /\ Go(k, "recover")
    /\ UNCHANGED <<level, known, files, accessible, found, tried, direct>>

\* Mutant: a new event overtakes the older ones.
WriteOvertaking(f, s, by) ==
    /\ status' = [status EXCEPT ![f] = s]
    /\ events' = IF s = status[f] THEN events
                 ELSE [events EXCEPT ![f] = <<[to |-> s, by |-> by]>> \o @]
    /\ UNCHANGED gone

\* update_file_status_by_id: only a change is published.
Write(f, s, by) ==
    /\ status' = [status EXCEPT ![f] = s]
    /\ events' = IF s = status[f] THEN events
                 ELSE [events EXCEPT ![f] = Append(@, [to |-> s, by |-> by])]
    /\ UNCHANGED gone

\* Does a check wait for the handler of an event of its own?
Awaits(k) == \E f \in Files : \E n \in DOMAIN events[f] : events[f][n].by = k

\* process_waiting_network_files: one listed file after the other, whatever
\* has become of it.
Reactivate(k, f) ==
    /\ pc[k] = "recover"
    /\ f \in todo[k]
    /\ ~Awaits(k)
    /\ todo' = [todo EXCEPT ![k] = @ \ {f}]
    /\ Write(f, "DISCOVERED", k)
    /\ UNCHANGED <<level, known, pc, accessible, found, tried, recovered, direct>>

\* Mutant: the loop does not come round again.
RestForGood(k) ==
    /\ pc[k] = "recover" /\ todo[k] = {} /\ ~Awaits(k)
    /\ Go(k, "off")
    /\ UNCHANGED <<level, known, files, accessible, found, tried, recovered, todo, direct>>

\* The loop sleeps for the check interval; start_monitoring returns.
Rest(k) ==
    /\ pc[k] = "recover" /\ todo[k] = {} /\ ~Awaits(k)
    /\ Go(k, IF k = "loop" THEN "source" ELSE "off")
    /\ UNCHANGED <<level, known, files, accessible, found, tried, recovered, todo, direct>>

Check(k) ==
    \/ CheckSource(k) \/ AskAccessible(k) \/ Measure(k)
    \/ Restore(k) \/ Update(k) \/ Published(k) \/ Rest(k)
    \/ \E f \in Files : Reactivate(k, f)

-----------------------------------------------------------------------------
(* The files.                                                              *)

Becomes(f, s) ==
    /\ Len(events[f]) < MaxEvents
    /\ Write(f, s, None)
    /\ UNCHANGED <<level, known, checks, direct>>

\* A growth check finds the file stable.
FileReady(f) == status[f] = "DISCOVERED" /\ Becomes(f, "READY")

\* handle_file_ready: without information there is no network.  Whether the
\* handler of READY itself runs before is left open.
HandleFileReady(f) ==
    /\ status[f] = "READY"
    /\ Becomes(f, IF known \in Available THEN "IN_QUEUE" ELSE "WAITING_FOR_NETWORK")

\* A worker checks the space: an inaccessible destination is waited for.
StartCopy(f) ==
    /\ status[f] = "IN_QUEUE"
    /\ Becomes(f, IF known = "ERROR" THEN "WAITING_FOR_NETWORK" ELSE "COPYING")

\* The source file is gone: cleanup_missing_files marks it and publishes nothing.
SweepMissing(f) ==
    /\ status[f] \notin KeptWhenMissing \cup {"REMOVED"}
    /\ status' = [status EXCEPT ![f] = "REMOVED"]
    /\ gone' = gone \cup {f}
    /\ UNCHANGED <<level, known, events, checks, direct>>

\* Mutant: the handler's write is no change to be published.
EchoOnce(f) ==
    /\ events[f] # <<>>
    /\ status' = [status EXCEPT ![f] = Head(events[f]).to]
    /\ events' = [events EXCEPT ![f] = Tail(@)]
    /\ UNCHANGED <<level, known, gone, checks, direct>>

\* handle_file_status_changed: the registry writes the status that the event
\* tells, which may be a change again.
Echo(f) ==
    LET e == Head(events[f])
    IN  /\ events[f] # <<>>
        /\ status' = [status EXCEPT ![f] = e.to]
        /\ events' = [events EXCEPT ![f] =
                        IF e.to = status[f] THEN Tail(@) ELSE Append(Tail(@), e)]
        /\ UNCHANGED <<level, known, gone, checks, direct>>

\* The destination fills up, is emptied, goes away or comes back.
Change == level' \in StorageStatus /\ UNCHANGED <<known, files, checks, direct>>

Next ==
    \/ \E k \in Checkers : Check(k)
    \/ \E f \in Files : \/ FileReady(f) \/ HandleFileReady(f) \/ StartCopy(f)
                        \/ SweepMissing(f) \/ Echo(f)
    \/ Change

Spec == Init /\ [][Next]_vars

\* The calls of a check return, the loop wakes up and handlers run.
FairSpec ==
    /\ Spec
    /\ \A k \in Checkers : WF_vars(Check(k))
    /\ \A f \in Files : WF_vars(Echo(f))

-----------------------------------------------------------------------------
(* Properties.                                                             *)

TypeOK ==
    /\ level \in StorageStatus
    /\ known \in StorageStatus \cup {None}
    /\ status \in [Files -> Status]
    /\ events \in [Files -> Seq([to : Status, by : Checkers \cup {None}])]
    /\ gone \subseteq Files
    /\ pc \in [Checkers -> {"source", "ask", "measure", "restore", "update", "publish",
                            "recover", "off"}]
    /\ accessible \in [Checkers -> BOOLEAN]
    /\ found \in [Checkers -> StorageStatus]
    /\ tried \in [Checkers -> BOOLEAN]
    /\ recovered \in [Checkers -> BOOLEAN]
    /\ todo \in [Checkers -> SUBSET Files]
    /\ direct \in BOOLEAN

\* f will be sent back by a recovery that is under way.
Recovering(f) ==
    \E k \in Checkers : \/ pc[k] = "publish" /\ recovered[k]
                        \/ pc[k] = "recover" /\ f \in todo[k]

\* Two different changes of f are under way.
Echoing(f) ==
    \E m, n \in DOMAIN events[f] : events[f][m].to # events[f][n].to

(***************************************************************************)
(* No file is left behind by a recovery: as long as the destination has    *)
(* been OK since an outage, whoever still waits for the network is on the  *)
(* list of a recovery, or that list is still to be made.  The status is    *)
(* read, and the wait asked for, without giving up the event loop          *)
(* (job_queue.py, lines 98-105), and the list is asked for after the new   *)
(* status is known (storage_monitor.py, lines 186 and 209).  Excepted are  *)
(* the files that the second write of an older event sets back             *)
(* (state_manager.py, lines 56-60): those with two different events under  *)
(* way, and those that a sweep marked as removed in between.               *)
(***************************************************************************)
NoneLeftBehind ==
    direct => \A f \in Files : status[f] = "WAITING_FOR_NETWORK" =>
                 Recovering(f) \/ Echoing(f) \/ f \in gone

\* The last event under way tells the status, unless it was changed silently.
LastTells(f) == LET e == events[f] IN e # <<>> => e[Len(e)].to = status[f]

\* Its inductive form: direct is said of a destination that is OK.
IInv ==
    /\ direct => known = "OK"
    /\ \A f \in Files \ gone : LastTells(f)
    /\ NoneLeftBehind

(***************************************************************************)
(* Two different events of a file that are under way together never come   *)
(* to rest: the handler of each finds the other's status, writes its own   *)
(* and publishes it again (state_manager.py, lines 60 and 433).  Only a    *)
(* sweep, which publishes nothing, can come between them.                  *)
(***************************************************************************)
EchoesGoOn ==
    [][\A f \in Files : Echoing(f) /\ f \notin gone => Echoing(f)']_vars

(***************************************************************************)
(* A file that waits in an outage does not wait for ever once the          *)
(* destination is there for good, if no check takes it for WARNING on the  *)
(* way and no file is caught between two events: the recovery that waits   *)
(* for such a file never ends.  The sweeps, seconds apart, do not come     *)
(* between an event and its handler for ever.                              *)
(***************************************************************************)
Calm == \A f \in Files : ~Echoing(f)
Steady == level = "OK" /\ known # "WARNING" /\ Calm

SweepsEnd == <>[][\A f \in Files : ~SweepMissing(f)]_vars

OutageEnds ==
    SweepsEnd => \A f \in Files :
        (status[f] = "WAITING_FOR_NETWORK" /\ known \in Problematic /\ []Steady)
            ~> status[f] # "WAITING_FOR_NETWORK"

(***************************************************************************)
(* Overlapping checks may overwrite a newer answer with an older one, but  *)
(* not for good: what is known follows the destination once it rests, if   *)
(* no file is caught between two events.                                   *)
(***************************************************************************)
KnowsTheLevel ==
    SweepsEnd => \A s \in StorageStatus : <>[](level = s /\ Calm) => <>[](known = s)

(***************************************************************************)
(* docs/hovedmoduler_analyse.md:114: "Trigger universal recovery når       *)
(* destination bliver tilgængelig igen" (when the destination becomes      *)
(* available again).  While the destination counts as available no file    *)
(* waits for the network, unless its recovery is under way.                *)
(***************************************************************************)
AvailableIsRecovered ==
    known \in Available =>
        \A f \in Files : status[f] = "WAITING_FOR_NETWORK" => Recovering(f)
=============================================================================
