----------------------------- MODULE FileScanner -----------------------------
(***************************************************************************)
(* The scanner (services/scanner/file_scanner.py) with its life cycle      *)
(* (domains/file_discovery/file_scanner_service.py), and the growth        *)
(* detector with its monitor (services/growing_file_detector.py), for one  *)
(* file that somebody may still be writing.                                *)
(*                                                                         *)
(* Scan tasks and monitor loops ask for the size of the file and suspend;  *)
(* each goes on with the answer it got, while the file grows and the other *)
(* tasks record sizes of their own.  The user pauses and resumes the       *)
(* scanner through the API (api/uiactions.py), and nothing keeps a request *)
(* from coming while an earlier one still waits for a cancelled task.      *)
(*                                                                         *)
(* Times are ages: Tick makes everything one unit older, up to the growth  *)
(* timeout, beyond which older makes no difference.  A call to the         *)
(* registry takes effect when it is made (StateManager).  A file that is   *)
(* gone does not come back: it would be a new entry.                       *)
(***************************************************************************)
EXTENDS FileStatus

CONSTANTS
    Scans,          \* scan tasks; a resume that needs one more is not taken
    Loops,          \* monitor loops, bounded the same way
    MinSize,        \* settings.growing_file_min_size_mb
    GrowthTimeout,  \* settings.growing_file_growth_timeout_seconds
    MaxSize,        \* bound: nobody writes more
    None

ASSUME TasksAssumption == Scans \cap Loops = {} /\ None \notin Scans \cup Loops
ASSUME SizesAssumption == MinSize \in Nat /\ GrowthTimeout \in Nat /\ MaxSize \in Nat
ASSUME NoneAssumption == None \notin Nat /\ None \notin Status

Tasks == Scans \cup Loops
Ages == 0..GrowthTimeout

VARIABLES
    present,      \* is the file there?
    size,         \* its size
    quiet,        \* how long it has not grown
    status,       \* TrackedFile.status
    fileSize,     \* TrackedFile.file_size
    firstSeen,    \* TrackedFile.first_seen_size, 0 before the first check
    stableSince,  \* age of TrackedFile.growth_stable_since, or None
    unseen,       \* history: has fileSize grown since, without a check?
    running,      \* FileScanner._running
    active,       \* GrowingFileDetector._monitoring_active
    scanTask,     \* FileScanner._scan_task
    stopping,     \* the tasks whose end a stop_scanning waits for
    told,         \* is_scanning of the last ScannerStatusChangedEvent
    pc,           \* where a task is
    seen,         \* the size it was told, 0 for a file that is gone
    verdict       \* the status a scan is about to publish

file == <<present, size, quiet>>
growth == <<fileSize, firstSeen, stableSince, unseen>>
cycle == <<running, active, scanTask, stopping, told>>
tasks == <<pc, seen, verdict>>
vars == <<file, status, growth, cycle, tasks>>

\* The file has just been discovered, and start_scanning not been called.
Init ==
    /\ present = TRUE
    /\ size \in 1..MaxSize
    /\ quiet = 0
    /\ status = "DISCOVERED"
    /\ fileSize = size
    /\ firstSeen = 0
    /\ stableSince = None
    /\ unseen = FALSE
    /\ running = FALSE
    /\ active = FALSE
    /\ scanTask = None
    /\ stopping = {}
    /\ told = FALSE
    /\ pc = [k \in Tasks |-> "off"]
    /\ seen = [k \in Tasks |-> 0]
    /\ verdict = [k \in Tasks |-> None]

Go(k, there) == pc' = [pc EXCEPT ![k] = there]
\* Task k has done with what it knew.
Forget(k) == /\ seen' = [seen EXCEPT ![k] = 0]
             /\ verdict' = [verdict EXCEPT ![k] = None]

-----------------------------------------------------------------------------
(* Sizes.                                                                  *)

\* exists, then stat or getsize: the answer, and where it is used.
Stat(k) ==
    \E step \in {<<"changes", "changed">>, <<"metadata", "measure">>, <<"ask", "judge">>} :
        /\ pc[k] = step[1]
        /\ Go(k, step[2])
        /\ seen' = [seen EXCEPT ![k] = IF present THEN size ELSE 0]
        /\ UNCHANGED <<file, status, growth, cycle, verdict>>

\* Mutant: a check that finds the file larger only stores the size.
RecordSizeOnly(now) ==
    /\ fileSize' = now
    /\ stableSince' = IF stableSince = None THEN 0 ELSE stableSince
    /\ unseen' = (unseen /\ stableSince # None)

\* Mutant: every check begins the wait anew.
RecordRestarts(now) ==
    /\ fileSize' = now
    /\ stableSince' = IF now > fileSize THEN None ELSE 0
    /\ unseen' = FALSE

\* Mutant: the growth is stored instead of the size.
RecordDifference(now) ==
    /\ fileSize' = now - fileSize
    /\ stableSince' = IF now > fileSize THEN None
                      ELSE IF stableSince = None THEN 0 ELSE stableSince
    /\ unseen' = (unseen /\ now <= fileSize /\ stableSince # None)

\* What update_file_growth_info and check_file_growth_status make of a size.
Record(now) ==
    /\ fileSize' = now
    /\ stableSince' = IF now > fileSize THEN None
                      ELSE IF stableSince = None THEN 0 ELSE stableSince
    /\ unseen' = (unseen /\ now <= fileSize /\ stableSince # None)

\* Mutant: the timeout is not waited for.
DecideAtOnce(now, grows, grown, age) ==
    IF grows
    THEN IF now >= MinSize THEN "READY_TO_START_GROWING" ELSE "GROWING"
    ELSE IF grown /\ now >= MinSize THEN "READY_TO_START_GROWING" ELSE "READY"

\* check_file_growth_status: the status a file of that size should have, if it
\* grows now, has grown since it was first seen, and is stable for that long.
Decide(now, grows, grown, age) ==
    IF grows
    THEN IF now >= MinSize THEN "READY_TO_START_GROWING" ELSE "GROWING"
    ELSE IF age < GrowthTimeout
    THEN IF grown THEN "GROWING" ELSE "DISCOVERED"
    ELSE IF grown /\ now >= MinSize THEN "READY_TO_START_GROWING" ELSE "READY"

\* The second half of check_file_growth_status for task k concludes s; an
\* exception makes it FAILED, whether the file is there or not.  The branch
\* for a file that was never checked is not reached: the scanner calls
\* update_file_growth_info first, and the monitor passes over such files.
Concludes(k, s) ==
    \/ /\ s = "FAILED" \/ (s = "REMOVED" /\ seen[k] = 0)
       /\ UNCHANGED growth
    \/ /\ seen[k] > 0
       /\ Record(seen[k])
       /\ s = Decide(seen[k], seen[k] > fileSize, seen[k] > firstSeen,
                     IF stableSince = None THEN 0 ELSE stableSince)
       /\ UNCHANGED firstSeen

-----------------------------------------------------------------------------
(* A scan task.                                                            *)

\* The finally clause of _scan_folder_loop.
CloseScan(k) ==
    /\ running' = FALSE
    /\ active' = FALSE
    /\ Go(k, "off")
    /\ Forget(k)
    /\ UNCHANGED <<file, status, growth, scanTask, stopping, told>>

\* Whether _check_file_stability has the file on its list.
Unstable(s) == s \in {"DISCOVERED", "GROWING"}

\* _execute_scan_iteration: the folder is walked, and _cleanup_missing_files
\* marks the missing file with no event.  In the second walk an entry that is
\* still active is looked at for changes.
Sweep(k) ==
    /\ running
    /\ status' = IF ~present /\ status \notin KeptWhenMissing THEN "REMOVED" ELSE status
    /\ Go(k, IF present /\ status \in Active THEN "changes"
             ELSE IF Unstable(status') THEN "metadata" ELSE "head")
    /\ UNCHANGED <<file, growth, cycle, seen, verdict>>

\* while self._running, at the beginning and after the sleep.
ScanHead(k) == pc[k] \in {"new", "head"} /\ (Sweep(k) \/ (~running /\ CloseScan(k)))

\* A cancelled task goes to its finally clause from wherever it waits.
ScanCancelled(k) == pc[k] = "cancelled" /\ CloseScan(k)

\* _check_existing_file_changes stores a new size, and nothing else.
CheckExistingFileChanges(k) ==
    /\ pc[k] = "changed"
    /\ fileSize' = IF seen[k] = 0 THEN fileSize ELSE seen[k]
    /\ unseen' = (unseen \/ (stableSince # None /\ seen[k] > fileSize))
    /\ Go(k, IF Unstable(status) THEN "metadata" ELSE "head")
    /\ Forget(k)
    /\ UNCHANGED <<file, status, firstSeen, stableSince, cycle>>

\* _handle_growing_file_logic: update_file_growth_info with the size of the
\* metadata, then the first half of check_file_growth_status.
UpdateFileGrowthInfo(k) ==
    /\ pc[k] = "measure"
    /\ \/ seen[k] = 0 /\ UNCHANGED growth /\ Go(k, "head")
       \/ /\ seen[k] > 0
          /\ Record(seen[k])
          /\ firstSeen' = IF firstSeen = 0 THEN seen[k] ELSE firstSeen
          /\ Go(k, IF status = "WAITING_FOR_NETWORK" THEN "head" ELSE "ask")
    /\ Forget(k)
    /\ UNCHANGED <<file, status, cycle>>

\* A verdict that differs is published, unless the file waits for the network.
ScanJudge(k) ==
    /\ pc[k] = "judge"
    /\ \E s \in Status :
          /\ Concludes(k, s)
          /\ IF s = status \/ status = "WAITING_FOR_NETWORK"
             THEN Go(k, "head") /\ verdict' = verdict
             ELSE Go(k, "tell") /\ verdict' = [verdict EXCEPT ![k] = s]
    /\ seen' = [seen EXCEPT ![k] = 0]
    /\ UNCHANGED <<file, status, cycle>>

\* StateManager.handle_file_status_changed, one turn of the event loop later.
ApplyVerdict(k) ==
    /\ pc[k] = "tell"
    /\ status' = verdict[k]
    /\ Go(k, "head")
    /\ Forget(k)
    /\ UNCHANGED <<file, growth, cycle>>

Scan(k) ==
    \/ ScanHead(k) \/ ScanCancelled(k) \/ CheckExistingFileChanges(k)
    \/ UpdateFileGrowthInfo(k) \/ ScanJudge(k) \/ ApplyVerdict(k) \/ Stat(k)

-----------------------------------------------------------------------------
(* A monitor loop.                                                         *)

\* _monitor_growing_files_loop leaves these to others.
Unwatched == Terminal \cup {"IN_QUEUE", "COPYING", "GROWING_COPY", "SPACE_ERROR"}

\* while self._monitoring_active: a file that was checked before is listed.
ListWatched(j) ==
    /\ pc[j] = "watch"
    /\ \/ ~active /\ Go(j, "off")
       \/ active /\ firstSeen # 0 /\ status \notin Unwatched /\ Go(j, "listed")
    /\ UNCHANGED <<file, status, growth, cycle, seen, verdict>>

\* Its turn comes, perhaps after other files of the list.
CheckGrowth(j) ==
    /\ pc[j] = "listed"
    /\ Go(j, IF active /\ status # "WAITING_FOR_NETWORK" THEN "ask" ELSE "watch")
    /\ UNCHANGED <<file, status, growth, cycle, seen, verdict>>

\* The verdict is written over whatever the status is by now.
LoopJudge(j) ==
    /\ pc[j] = "judge"
    /\ \E s \in Status : Concludes(j, s) /\ status' = s
    /\ Go(j, "watch")
    /\ Forget(j)
    /\ UNCHANGED <<file, cycle>>

Monitor(j) == ListWatched(j) \/ CheckGrowth(j) \/ LoopJudge(j) \/ Stat(j)

-----------------------------------------------------------------------------
(* Pause and resume.                                                       *)

\* start_scanning: the running flag, the monitor unless it is active, a new
\* scan task, and the event.
StartScanning ==
    /\ ~running
    /\ running' = TRUE
    /\ active' = TRUE
    /\ \E k \in Scans : \E loops \in IF active THEN {{}} ELSE {{j} : j \in Loops} :
          /\ k \notin stopping
          /\ \A t \in {k} \cup loops : pc[t] = "off"
          /\ scanTask' = k
          /\ pc' = [t \in Tasks |-> IF t = k THEN "new"
                                    ELSE IF t \in loops THEN "watch" ELSE pc[t]]
    /\ told' = TRUE
    /\ UNCHANGED <<file, status, growth, stopping, seen, verdict>>

\* Mutant: the finally clause of the scan task has stopped the monitor.
StoppedScanOnly(flag) == active' = active /\ scanTask' = None /\ told' = flag

\* stop_monitoring, and the end of stop_scanning.
Stopped(flag) == active' = FALSE /\ scanTask' = None /\ told' = flag

\* Task.done() is false of these.
Alive == {k \in Scans : pc[k] # "off"}

\* Mutant: the cancelled task is not waited for.
StopScanningAtOnce ==
    /\ running
    /\ running' = FALSE
    /\ IF scanTask \in Alive
       THEN Go(scanTask, "cancelled") /\ Forget(scanTask)
       ELSE UNCHANGED tasks
    /\ Stopped(FALSE)
    /\ UNCHANGED <<file, status, growth, stopping>>

\* stop_scanning cancels the scan task and waits for it; one that has not
\* begun ends there and then.
StopScanning ==
    /\ running
    /\ running' = FALSE
    /\ \/ /\ scanTask \in Alive
          /\ Go(scanTask, IF pc[scanTask] = "new" THEN "off" ELSE "cancelled")
          /\ Forget(scanTask)
          /\ stopping' = stopping \cup {scanTask}
          /\ UNCHANGED <<active, scanTask, told>>
       \/ /\ scanTask \notin Alive
          /\ Stopped(FALSE)
          /\ UNCHANGED <<stopping, tasks>>
    /\ UNCHANGED <<file, status, growth>>

\* Mutant: the event says what was asked for.
StopEndsAsAsked(k) ==
    /\ k \in stopping
    /\ pc[k] = "off"
    /\ stopping' = stopping \ {k}
    /\ Stopped(FALSE)
    /\ UNCHANGED <<file, status, growth, running, tasks>>

\* The cancelled task is over.  In the meantime somebody may have resumed.
StopEnds(k) ==
    /\ k \in stopping
    /\ pc[k] = "off"
    /\ stopping' = stopping \ {k}
    /\ Stopped(running)
    /\ UNCHANGED <<file, status, growth, running, tasks>>

-----------------------------------------------------------------------------
(* The file and the rest of the agent.                                     *)

Grow ==
    /\ present /\ size < MaxSize
    /\ size' = size + 1
    /\ quiet' = 0
    /\ UNCHANGED <<present, status, growth, cycle, tasks>>

\* A file that is gone does not grow.
Vanish ==
    /\ present
    /\ present' = FALSE
    /\ quiet' = GrowthTimeout
    /\ UNCHANGED <<size, status, growth, cycle, tasks>>

Older(age) == IF age < GrowthTimeout THEN age + 1 ELSE age

Tick ==
    /\ quiet' = Older(quiet)
    /\ stableSince' = IF stableSince = None THEN None ELSE Older(stableSince)
    /\ UNCHANGED <<present, size, status, fileSize, firstSeen, unseen, cycle, tasks>>

Becomes(s) == status' = s /\ UNCHANGED <<file, growth, cycle, tasks>>

\* JobQueueService.handle_file_ready, in Pipeline.
HandleFileReady == status = "READY" /\ \E s \in {"IN_QUEUE", "WAITING_FOR_NETWORK"} : Becomes(s)

\* JobQueueService.process_waiting_network_files.
Reactivate == status = "WAITING_FOR_NETWORK" /\ Becomes("DISCOVERED")

Next ==
    \/ \E k \in Scans : Scan(k)
    \/ \E j \in Loops : Monitor(j)
    \/ StartScanning \/ StopScanning \/ \E k \in Scans : StopEnds(k)
    \/ Grow \/ Vanish \/ Tick
    \/ HandleFileReady \/ Reactivate

Spec == Init /\ [][Next]_vars

\* I/O calls return, sleeps end, time goes on.  Nobody has to write, to pause
\* or to resume.
FairSpec ==
    /\ Spec
    /\ \A k \in Scans : WF_vars(Scan(k) \/ StopEnds(k))
    /\ \A j \in Loops : WF_vars(Monitor(j))
    /\ WF_vars(Tick)
    /\ WF_vars(HandleFileReady)

-----------------------------------------------------------------------------
(* Properties.                                                             *)

ScanPhases == {"off", "new", "head", "changes", "changed", "metadata",
               "measure", "ask", "judge", "tell", "cancelled"}
LoopPhases == {"off", "watch", "listed", "ask", "judge"}

TypeOK ==
    /\ present \in BOOLEAN
    /\ size \in 0..MaxSize
    /\ quiet \in Ages
    /\ status \in Status
    /\ fileSize \in 0..MaxSize
    /\ firstSeen \in 0..MaxSize
    /\ stableSince \in Ages \cup {None}
    /\ unseen \in BOOLEAN
    /\ running \in BOOLEAN
    /\ active \in BOOLEAN
    /\ scanTask \in Scans \cup {None}
    /\ stopping \subseteq Scans
    /\ told \in BOOLEAN
    /\ pc \in [Tasks -> ScanPhases \cup LoopPhases]
    /\ \A k \in Scans : pc[k] \in ScanPhases
    /\ \A j \in Loops : pc[j] \in LoopPhases
    /\ seen \in [Tasks -> 0..MaxSize]
    /\ verdict \in [Tasks -> Status \cup {None}]

(***************************************************************************)
(* growth_stable_since does not go back to a time before the file last     *)
(* grew, however the answers of the tasks interleave, as long as the agent *)
(* knows the present size.  The exception is the growth that was stored    *)
(* without a check (CheckExistingFileChanges).                             *)
(***************************************************************************)
StableMeansQuiet ==
    stableSince # None /\ ~unseen /\ fileSize = size => quiet >= stableSince

(***************************************************************************)
(* A check finds a file READY only if it has not grown for the whole       *)
(* timeout; or the file was larger already than what the check was told;   *)
(* or its growth was stored without a check.                               *)
(***************************************************************************)
FoundReady(k) ==
    pc[k] = "judge" /\ \/ k \in Scans /\ verdict'[k] = "READY"
                       \/ k \in Loops /\ pc'[k] = "watch" /\ status' = "READY"

ReadyMeansQuiet ==
    [][\A k \in Tasks :
          FoundReady(k) => quiet >= GrowthTimeout \/ unseen' \/ fileSize' < size]_vars

(***************************************************************************)
(* What was told last of the scanner (ScannerStatusChangedEvent, which the *)
(* user's view shows) is what it does, unless a stop is still under way.   *)
(***************************************************************************)
ToldTheTruth == stopping = {} => told = running

(***************************************************************************)
(* The inductive form.  No answer is larger than the file; a verdict is    *)
(* there only while it is published; a cancelled task has somebody who     *)
(* waits for its end.                                                      *)
(***************************************************************************)
SizesKnown == fileSize <= size /\ \A k \in Tasks : seen[k] <= size

VerdictsKept ==
    \A k \in Scans : IF pc[k] = "tell" THEN verdict[k] \in Status ELSE verdict[k] = None

CancelsAwaited == \A k \in Scans : pc[k] = "cancelled" => k \in stopping

IInv ==
    /\ TypeOK
    /\ SizesKnown
    /\ VerdictsKept
    /\ CancelsAwaited
    /\ StableMeansQuiet
    /\ ToldTheTruth

(***************************************************************************)
(* A running scanner comes to a verdict: the file does not stay DISCOVERED *)
(* or GROWING for good, although each check may be late, may be told an    *)
(* old size, or may be overwritten by another.                             *)
(***************************************************************************)
Settles == <>[]running => []<>~Unstable(status)

(***************************************************************************)
(* A pause that lasts is complete: every scan task and every monitor loop  *)
(* comes to its end, those too that an overlapping resume has left behind. *)
(***************************************************************************)
PauseIsComplete == <>[]~running => <>[](\A k \in Tasks : pc[k] = "off")

(***************************************************************************)
(* models.py:171, of growth_stable_since: "Tidspunkt hvor filen sidst      *)
(* stoppede med at vokse" (the time at which the file last stopped         *)
(* growing).  Said of a size the agent knows.                              *)
(***************************************************************************)
StableSinceIsTrue ==
    stableSince # None /\ fileSize = size => quiet >= stableSince

(***************************************************************************)
(* models.py:14: "Growing Workflow: Discovered -> Growing ->               *)
(* ReadyToStartGrowing -> InQueue -> GrowingCopy -> Copying -> Completed". *)
(* A file that is ready to be copied while it grows is queued, if it stays *)
(* where it is and the scanner runs.                                       *)
(***************************************************************************)
GrownFileIsQueued ==
    (status = "READY_TO_START_GROWING" /\ [](present /\ running)) ~> status = "IN_QUEUE"
=============================================================================
