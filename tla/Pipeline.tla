------------------------------ MODULE Pipeline ------------------------------
(***************************************************************************)
(* From discovery to delivery: the scanner (services/scanner), the growth  *)
(* monitor (growing_file_detector.py), the job queue (job_queue.py), the   *)
(* copy workers (file_copier.py, services/consumer, copy_strategies.py),   *)
(* the space retries and the network recovery, all of them coroutines of   *)
(* one asyncio event loop that share the TrackedFile objects.              *)
(*                                                                         *)
(* The module keeps what the interleaving depends on.  loop is the event   *)
(* loop's queue of ready handles: what runs, runs in that order.  cpu is   *)
(* the coroutine that runs now, until it suspends on I/O, on a sleep, on   *)
(* the queue, or on an event it publishes and whose handlers it awaits.    *)
(*                                                                         *)
(* Every status change is published, and the state manager is a subscriber *)
(* of its own event (state_manager.py, handle_file_status_changed): one    *)
(* turn later it sets the status of the event again.                       *)
(*                                                                         *)
(* Entries of one path, and the lock of the registry with its window, are  *)
(* StateManager's subject; here a file has one entry.  The growth of a     *)
(* file is left to a verdict in Verdicts, and an I/O call takes any time.  *)
(***************************************************************************)
EXTENDS FileStatus, Sequences, FiniteSets

CONSTANTS
    Files,
    Workers,             \* copy workers
    Verdicts,            \* what a growth check may conclude of a present file
    MaxLoop, MaxJobs,    \* bounds: ready handles and queued jobs; a step that
                         \* needs more room is not taken
    None

ASSUME WorkersAssumption == {"scanner", "monitor", "recovery"} \cap Workers = {}
ASSUME NoneAssumption == None \notin Files \cup Workers \cup {"scanner", "monitor", "recovery"}
ASSUME VerdictsAssumption ==
    Verdicts \subseteq {"DISCOVERED", "GROWING", "READY", "READY_TO_START_GROWING", "FAILED"}

Procs == Workers \cup {"scanner", "monitor", "recovery"}

VARIABLES
    status,       \* TrackedFile.status
    present,      \* is the source file there?
    measured,     \* TrackedFile.last_growth_check is set
    retry,        \* a space retry is pending
    jobs,         \* asyncio.Queue of the job queue service
    getters,      \* workers blocked in queue.get, first come first served
    dropped,      \* history: files whose last job ended before its copy began
    loop,         \* ready handles of the event loop
    cpu,          \* the coroutine that runs, or None
    pc,           \* where each coroutine goes on
    cur,          \* the file it is busy with
    todo          \* the rest of the list it made

source == <<present, measured>>
queue == <<jobs, getters, dropped>>
control == <<loop, cpu, pc, cur, todo>>
vars == <<status, source, retry, queue, control>>

Init ==
    /\ status = [f \in Files |-> "DISCOVERED"]
    /\ present = [f \in Files |-> TRUE]
    /\ measured = {}
    /\ retry = [f \in Files |-> FALSE]
    /\ jobs = <<>>
    /\ getters = <<>>
    /\ dropped = {}
    /\ loop = <<>>
    /\ cpu = None
    /\ pc = [k \in Procs |-> IF k \in Workers THEN "take" ELSE "list"]
    /\ cur = [k \in Procs |-> None]
    /\ todo = [k \in Procs |-> {}]

-----------------------------------------------------------------------------
(* Handles and events.                                                     *)

Handle(do, f, s, k) == [do |-> do, file |-> f, to |-> s, for |-> k]
Resumption(k) == Handle("resume", None, None, k)
\* The state manager hears of its own event; k waits for the publication.
Tell(f, s, k) == Handle("tell", f, s, k)

\* What is ready from now on.
Ready(handles) == loop' = handles /\ Len(handles) <= MaxLoop

\* update_file_status_by_id: the handles it leaves behind.  The publication
\* of FileReadyEvent is a task of its own, created first.
Events(f, s, k) ==
    IF status[f] = s THEN <<>>
    ELSE IF s = "READY" THEN <<Handle("ready", f, None, None), Tell(f, s, k)>>
    ELSE <<Tell(f, s, k)>>

\* update_file_status_by_id(f, s) for k, with the handles in rest before its own.
Write(f, s, k, rest) ==
    /\ status' = [status EXCEPT ![f] = s]
    /\ retry' = [retry EXCEPT ![f] = @ /\ s \notin Terminal]
    /\ Ready(rest \o Events(f, s, k))

\* Coroutine k goes on at next, with f if that is still about one file.
Goes(k, f, next) ==
    /\ pc' = [pc EXCEPT ![k] = next]
    /\ cur' = [cur EXCEPT ![k] = IF next \in {"take", "get", "list", "next"} THEN None ELSE f]

\* Coroutine k writes, and goes on at once if nothing changed.
Update(k, f, s, next) ==
    /\ Write(f, s, k, loop)
    /\ Goes(k, f, next)
    /\ cpu' = IF status[f] = s THEN k ELSE None

\* Coroutine k suspends, or goes on without suspending.
Suspend(k, f, next) == cpu' = None /\ Goes(k, f, next) /\ UNCHANGED loop
Continue(k, f, next) == cpu' = k /\ Goes(k, f, next) /\ UNCHANGED loop

Awaits(k) == \E i \in DOMAIN loop : loop[i].for = k
InIO(k) == cpu = None /\ ~Awaits(k) /\ pc[k] # "get"

\* The I/O call or the sleep of k is over.
Completed(k) ==
    /\ InIO(k)
    /\ Ready(Append(loop, Resumption(k)))
    /\ UNCHANGED <<status, source, retry, queue, cpu, pc, cur, todo>>

-----------------------------------------------------------------------------
(* The event loop runs its first handle.                                   *)

Head1(do) == cpu = None /\ loop # <<>> /\ Head(loop).do = do

RunResume ==
    /\ Head1("resume")
    /\ cpu' = Head(loop).for
    /\ loop' = Tail(loop)
    /\ UNCHANGED <<status, source, retry, queue, pc, cur, todo>>

\* handle_file_status_changed: the status of the event is set once more.  If
\* that changes it, another event follows, and the publisher waits on.
HandleFileStatusChanged ==
    LET h == Head(loop)
    IN  /\ Head1("tell")
        /\ Write(h.file, h.to, h.for, Tail(loop))
        /\ UNCHANGED <<source, queue, cpu, pc, cur, todo>>

\* The task that publishes FileReadyEvent creates the handler's task.
PublishReady ==
    /\ Head1("ready")
    /\ loop' = Append(Tail(loop), [Head(loop) EXCEPT !.do = "queue"])
    /\ UNCHANGED <<status, source, retry, queue, cpu, pc, cur, todo>>

\* handle_file_ready and _add_job_to_queue: the job is put first, which wakes
\* the first worker that waits for one, and the status follows.
HandleFileReady ==
    LET h == Head(loop)
        woken == IF getters = <<>> THEN <<>> ELSE <<Resumption(Head(getters))>>
    IN  /\ Head1("queue")
        /\ \/ /\ status[h.file] # "READY"
              /\ loop' = Tail(loop)
              /\ UNCHANGED <<status, retry, queue>>
           \/ /\ status[h.file] = "READY"
              /\ Len(jobs) < MaxJobs
              /\ jobs' = Append(jobs, h.file)
              /\ getters' = IF getters = <<>> THEN <<>> ELSE Tail(getters)
              /\ dropped' = dropped \ {h.file}
              /\ Write(h.file, "IN_QUEUE", h.for, Tail(loop) \o woken)
           \/ /\ status[h.file] = "READY"
              /\ Write(h.file, "WAITING_FOR_NETWORK", h.for, Tail(loop))
              /\ UNCHANGED queue
        /\ UNCHANGED <<source, cpu, pc, cur, todo>>

-----------------------------------------------------------------------------
(* The copy workers.                                                       *)

At(k, phase) == cpu = k /\ pc[k] = phase

\* get_next_job takes the first job, or blocks until there is one.
GetNextJob(w) ==
    /\ cpu = w /\ pc[w] \in {"take", "get"}
    /\ \/ /\ jobs # <<>>
          /\ jobs' = Tail(jobs)
          /\ Continue(w, Head(jobs), "check")
          /\ UNCHANGED getters
       \/ /\ jobs = <<>>
          /\ getters' = Append(getters, w)
          /\ Suspend(w, None, "get")
          /\ UNCHANGED jobs
    /\ UNCHANGED <<status, source, retry, dropped, todo>>

\* Mutant: the job that arrives with the timeout is lost, as it was with
\* asyncio.wait_for before Python 3.12.
GetTimeoutLosesJob(w) ==
    /\ cpu = None /\ pc[w] = "get" /\ jobs # <<>>
    /\ jobs' = Tail(jobs)
    /\ pc' = [pc EXCEPT ![w] = "take"]
    /\ UNCHANGED <<status, source, retry, getters, dropped, loop, cpu, cur, todo>>

\* The wait for a job times out after 1 s; the worker sleeps and asks again.
GetTimeout(w) ==
    /\ cpu = None
    /\ \E i \in DOMAIN getters :
          /\ getters[i] = w
          /\ getters' = SubSeq(getters, 1, i - 1) \o SubSeq(getters, i + 1, Len(getters))
    /\ pc' = [pc EXCEPT ![w] = "take"]
    /\ UNCHANGED <<status, source, retry, jobs, dropped, loop, cpu, cur, todo>>

\* process_job up to initialize_copy_status.  Nothing suspends before the
\* first event: neither the space check nor the preparation of the copy.
InitializeCopy(w) ==
    /\ At(w, "check")
    /\ \E s \in {"COPYING", "GROWING_COPY"} : Update(w, cur[w], s, "start")
    /\ UNCHANGED <<source, queue, todo>>

\* prepare_file_for_copy finds no free name, or an error where it looks for
\* one: the job is over, and the status says nothing of it.
DropJob(w) ==
    /\ At(w, "check")
    /\ dropped' = dropped \cup {cur[w]}
    /\ Continue(w, cur[w], "take")
    /\ UNCHANGED <<status, source, retry, jobs, getters, todo>>

\* handle_space_shortage, when the destination is not accessible.
WaitForNetwork(w) ==
    /\ At(w, "check")
    /\ Update(w, cur[w], "WAITING_FOR_NETWORK", "take")
    /\ UNCHANGED <<source, queue, todo>>

\* schedule_space_retry.  It raises the retry_count of the file, which jobs
\* of one file may push past the limit, and gives up from max_space_retries
\* on.  The count is left out: any shortage may be the last one accepted, as
\* suits every count and every limit.  Either it gives up for good,
MarkSpaceError(w) ==
    /\ At(w, "check")
    /\ Update(w, cur[w], "SPACE_ERROR", "take")
    /\ UNCHANGED <<source, queue, todo>>

\* Mutant: a shortage found once more only marks the file.
WaitForSpaceOnly(w) ==
    /\ At(w, "check")
    /\ \E next \in {"schedule", "take"} : Update(w, cur[w], "WAITING_FOR_SPACE", next)
    /\ UNCHANGED <<source, queue, todo>>

\* Mutant: the update of the status is not awaited.
WaitForSpaceUnawaited(w) ==
    /\ At(w, "check")
    /\ Write(cur[w], "WAITING_FOR_SPACE", None, loop)
    /\ Goes(w, cur[w], "schedule") /\ cpu' = w
    /\ UNCHANGED <<source, queue, todo>>

\* or marks the file first and schedules the retry later.
WaitForSpace(w) ==
    /\ At(w, "check")
    /\ Update(w, cur[w], "WAITING_FOR_SPACE", "schedule")
    /\ UNCHANGED <<source, queue, todo>>

\* schedule_retry, once the publication of WAITING_FOR_SPACE is over.
ScheduleSpaceRetry(w) ==
    /\ At(w, "schedule")
    /\ retry' = [retry EXCEPT ![cur[w]] = TRUE]
    /\ Continue(w, cur[w], "take")
    /\ UNCHANGED <<status, source, queue, todo>>

\* copy_file asks for the size of the source, and takes the file for growing
\* or static, mostly by its status at that moment.
StartCopy(w) ==
    LET f == cur[w]
    IN  /\ At(w, "start")
        /\ \/ status[f] # "COPYING" /\ Suspend(w, f, "grow")
           \/ /\ status[f] \notin {"GROWING", "READY_TO_START_GROWING", "GROWING_COPY"}
              /\ Suspend(w, f, "copy")
        /\ UNCHANGED <<status, source, retry, queue, todo>>

\* The copy loop reports its progress, with the status of its mode.
CopyChunk(w) ==
    /\ \/ At(w, "grow") /\ Update(w, cur[w], "GROWING_COPY", "more")
       \/ At(w, "copy") /\ Update(w, cur[w], "COPYING", "moreStatic")
    /\ UNCHANGED <<source, queue, todo>>

NextChunk(w) ==
    /\ \/ At(w, "more") /\ \E mode \in {"grow", "copy"} : Suspend(w, cur[w], mode)
       \/ At(w, "moreStatic") /\ Suspend(w, cur[w], "copy")
    /\ UNCHANGED <<status, source, retry, queue, todo>>

\* All bytes are there and the sizes agree: the source is removed, if the
\* file system lets it be.
RemoveSource(w) ==
    /\ At(w, "copy")
    /\ present[cur[w]]
    /\ \E gone \in BOOLEAN : present' = [present EXCEPT ![cur[w]] = ~gone]
    /\ Suspend(w, cur[w], "finish")
    /\ UNCHANGED <<status, measured, retry, queue, todo>>

\* copy_file and then _finalize_job both mark the file COMPLETED.
Complete(w) ==
    /\ \/ At(w, "finish") /\ Update(w, cur[w], "COMPLETED", "finalize")
       \/ At(w, "finalize") /\ Update(w, cur[w], "COMPLETED", "take")
    /\ UNCHANGED <<source, queue, todo>>

\* classify_copy_error: only a source that is gone may be REMOVED.
Classify(f) == IF present[f] THEN {"FAILED"} ELSE {"FAILED", "REMOVED"}

\* The copy ends without success: an exception is classified ...
FailCopy(w) ==
    /\ cpu = w /\ pc[w] \in {"grow", "copy"}
    /\ \E s \in Classify(cur[w]) : Update(w, cur[w], s, "take")
    /\ UNCHANGED <<source, queue, todo>>

\* ... or execute_copy returns False, and nothing is written.
LeaveCopy(w) ==
    /\ cpu = w /\ pc[w] \in {"grow", "copy"}
    /\ Continue(w, cur[w], "take")
    /\ UNCHANGED <<status, source, retry, queue, todo>>

Worker(w) ==
    \/ GetNextJob(w)
    \/ DropJob(w) \/ InitializeCopy(w)
    \/ WaitForNetwork(w) \/ MarkSpaceError(w) \/ WaitForSpace(w) \/ ScheduleSpaceRetry(w)
    \/ StartCopy(w) \/ CopyChunk(w) \/ NextChunk(w)
    \/ RemoveSource(w) \/ Complete(w) \/ FailCopy(w) \/ LeaveCopy(w)

-----------------------------------------------------------------------------
(* The growth check of the scanner and of the monitor.                     *)

\* Mutant: a status the detector knew before PAUSED_* was abolished.
VerdictPaused(f) == IF present[f] THEN Verdicts ELSE {"PAUSED_GROWING"}

\* check_file_growth_status: REMOVED if the file is not there, FAILED on an error.
Verdict(f) == IF present[f] THEN Verdicts ELSE {"REMOVED", "FAILED"}

\* Lists are made with the statuses of one moment.
List(k, chosen) ==
    /\ At(k, "list")
    /\ todo' = [todo EXCEPT ![k] = chosen]
    /\ Continue(k, None, "next")

\* The next file of the list, or the end of the round and a sleep.
Rest(k) ==
    /\ At(k, "next")
    /\ todo[k] = {}
    /\ Suspend(k, None, "list")
    /\ UNCHANGED <<status, source, retry, queue, todo>>

Pick(k, f) ==
    /\ At(k, "next")
    /\ f \in todo[k]
    /\ todo' = [todo EXCEPT ![k] = @ \ {f}]

\* _execute_scan_iteration: what is missing from the folder is REMOVED, with
\* no event; then the files whose growth is to be checked are listed.
Scan ==
    LET missing == {f \in Files : ~present[f] /\ status[f] \notin KeptWhenMissing}
        swept == [f \in Files |-> IF f \in missing THEN "REMOVED" ELSE status[f]]
    IN  /\ List("scanner", {f \in Files : swept[f] \in {"DISCOVERED", "GROWING"}})
        /\ status' = swept
        /\ UNCHANGED <<source, retry, queue>>

\* _check_file_stability asks for the metadata of the next file.
AskMetadata(f) ==
    /\ Pick("scanner", f)
    /\ Suspend("scanner", f, "metadata")
    /\ UNCHANGED <<status, source, retry, queue>>

\* update_file_growth_info, then the first half of check_file_growth_status.
Measure ==
    LET f == cur["scanner"]
    IN  /\ At("scanner", "metadata")
        /\ measured' = IF present[f] THEN measured \cup {f} ELSE measured
        /\ IF present[f] /\ status[f] # "WAITING_FOR_NETWORK"
           THEN Suspend("scanner", f, "judge")
           ELSE Continue("scanner", f, "next")
        /\ UNCHANGED <<status, present, retry, queue, todo>>

\* _handle_growing_file_logic: a verdict that differs from the status the file
\* has by now is published, for the state manager to apply.
PublishVerdict ==
    LET f == cur["scanner"]
    IN  /\ At("scanner", "judge")
        /\ \E v \in Verdict(f) :
              \/ /\ v # status[f] /\ status[f] # "WAITING_FOR_NETWORK"
                 /\ Ready(Append(loop, Tell(f, v, "scanner")))
                 /\ cpu' = None
                 /\ Goes("scanner", f, IF v = "READY" THEN "announce" ELSE "next")
              \/ /\ v = status[f] \/ status[f] = "WAITING_FOR_NETWORK"
                 /\ Continue("scanner", f, "next")
        /\ UNCHANGED <<status, source, retry, queue, todo>>

\* ... and a READY file is announced once more.
AnnounceReady ==
    /\ At("scanner", "announce")
    /\ Ready(Append(loop, Handle("queue", cur["scanner"], None, "scanner")))
    /\ cpu' = None
    /\ Goes("scanner", cur["scanner"], "next")
    /\ UNCHANGED <<status, source, retry, queue, todo>>

Scanner ==
    \/ Scan \/ Rest("scanner") \/ (\E f \in Files : AskMetadata(f))
    \/ Measure \/ PublishVerdict \/ AnnounceReady

\* _monitor_growing_files_loop watches whatever was measured and is neither in
\* the hands of the copier nor finished.
Unwatched == Terminal \cup {"IN_QUEUE", "COPYING", "GROWING_COPY", "SPACE_ERROR"}

ListWatched ==
    /\ List("monitor", {f \in measured : status[f] \notin Unwatched})
    /\ UNCHANGED <<status, source, retry, queue>>

\* check_file_growth_status leaves a file that waits for the network alone.
CheckGrowth(f) ==
    /\ Pick("monitor", f)
    /\ IF status[f] = "WAITING_FOR_NETWORK" THEN Continue("monitor", f, "next")
       ELSE Suspend("monitor", f, "judge")
    /\ UNCHANGED <<status, source, retry, queue>>

ApplyVerdict ==
    /\ At("monitor", "judge")
    /\ \E v \in Verdict(cur["monitor"]) : Update("monitor", cur["monitor"], v, "next")
    /\ UNCHANGED <<source, queue, todo>>

Monitor == ListWatched \/ Rest("monitor") \/ (\E f \in Files : CheckGrowth(f)) \/ ApplyVerdict

-----------------------------------------------------------------------------
(* Recovery, timers, and the world.                                        *)

\* process_waiting_network_files, called when the destination is OK again.
ListWaiting ==
    /\ List("recovery", {f \in Files : status[f] = "WAITING_FOR_NETWORK"})
    /\ UNCHANGED <<status, source, retry, queue>>

Reactivate(f) ==
    /\ Pick("recovery", f)
    /\ Update("recovery", f, "DISCOVERED", "next")
    /\ UNCHANGED <<source, queue>>

Recovery == ListWaiting \/ Rest("recovery") \/ \E f \in Files : Reactivate(f)

\* Mutant: the retry does not look at the status.
RetryFiresBlindly(f) ==
    /\ cpu = None
    /\ retry[f]
    /\ retry' = [retry EXCEPT ![f] = FALSE]
    /\ status' = [status EXCEPT ![f] = "READY"]
    /\ UNCHANGED <<source, queue, control>>

\* _execute_retry_task: READY again, and nobody is told.
RetryFires(f) ==
    /\ cpu = None
    /\ retry[f]
    /\ retry' = [retry EXCEPT ![f] = FALSE]
    /\ status' = [status EXCEPT ![f] = IF @ = "WAITING_FOR_SPACE" THEN "READY" ELSE @]
    /\ UNCHANGED <<source, queue, control>>

\* The source file is moved or deleted by its owner.
Vanish(f) ==
    /\ cpu = None
    /\ present[f]
    /\ present' = [present EXCEPT ![f] = FALSE]
    /\ UNCHANGED <<status, measured, retry, queue, control>>

EventLoop == RunResume \/ HandleFileStatusChanged \/ PublishReady \/ HandleFileReady

Next ==
    \/ EventLoop
    \/ \E w \in Workers : Worker(w)
    \/ Scanner
    \/ Monitor
    \/ Recovery
    \/ \E k \in Procs : Completed(k)
    \/ \E w \in Workers : GetTimeout(w)
    \/ \E f \in Files : RetryFires(f)
    \/ \E f \in Files : Vanish(f)

Spec == Init /\ [][Next]_vars

-----------------------------------------------------------------------------
(* Properties.                                                             *)

Phases == { "take", "get", "check", "schedule", "start", "grow", "more", "copy",
            "moreStatic", "finish", "finalize", "list", "next", "metadata",
            "judge", "announce" }

\* Some handle resumes a coroutine, the others are about a file.
Handles ==
    [do : {"resume"}, file : {None}, to : {None}, for : Procs]
        \cup [do : {"tell"}, file : Files, to : Status, for : Procs \cup {None}]
        \cup [do : {"ready", "queue"}, file : Files, to : {None}, for : Procs \cup {None}]

TypeOK ==
    /\ status \in [Files -> Status]
    /\ present \in [Files -> BOOLEAN]
    /\ measured \subseteq Files
    /\ retry \in [Files -> BOOLEAN]
    /\ jobs \in Seq(Files)
    /\ getters \in Seq(Workers)
    /\ dropped \subseteq Files
    /\ cpu \in Procs \cup {None}
    /\ pc \in [Procs -> Phases]
    /\ cur \in [Procs -> Files \cup {None}]
    /\ todo \in [Procs -> SUBSET Files]
    /\ loop \in Seq(Handles)

\* The jobs there are for f: queued, and held by a worker.
Queued(f) == {i \in DOMAIN jobs : jobs[i] = f}
Holders(f) == {w \in Workers : cur[w] = f}

(***************************************************************************)
(* A file that is IN_QUEUE has a job, in the queue or in the hands of a    *)
(* worker that is at it: otherwise nobody would ever copy it, for the      *)
(* growth checks leave IN_QUEUE files alone.  Two exceptions: the job may  *)
(* have been dropped where its copy was prepared, and the status may be    *)
(* the echo of an older event (HandleFileStatusChanged), which another     *)
(* event that is already on its way overwrites.                            *)
(***************************************************************************)
TellsOther(h, f) == h.do = "tell" /\ h.file = f /\ h.to # "IN_QUEUE"
Echo(f) == \E i \in DOMAIN loop : TellsOther(loop[i], f)

QueuedHasJob ==
    \A f \in Files : status[f] = "IN_QUEUE" =>
        \/ Queued(f) # {}
        \/ Holders(f) # {}
        \/ f \in dropped
        \/ Echo(f)

(***************************************************************************)
(* A file that waits for space has a pending retry, or the worker that     *)
(* found the shortage is about to schedule one (space_retry_manager.py,    *)
(* lines 37-93: two calls, with an event published between them).          *)
(***************************************************************************)
WaitingHasRetry ==
    \A f \in Files : status[f] = "WAITING_FOR_SPACE" =>
        retry[f] \/ \E w \in Workers : cur[w] = f /\ pc[w] = "schedule"

(***************************************************************************)
(* The inductive form of WaitingHasRetry.  A coroutine waits for one thing *)
(* at a time: what runs is not to be resumed, what is to be resumed is so  *)
(* once, and a worker that blocks in queue.get waits for nothing else.  So *)
(* the worker that told of WAITING_FOR_SPACE is still about to schedule    *)
(* the retry, for as long as that event is echoed.                         *)
(***************************************************************************)
OneHandleEach ==
    \A i \in DOMAIN loop : loop[i].for # None =>
        \A j \in DOMAIN loop : loop[i].for = loop[j].for => i = j

RunningIsAwake == cpu # None => ~Awaits(cpu)

GettersBlocked ==
    /\ \A i \in DOMAIN getters :
          pc[getters[i]] = "get" /\ cpu # getters[i] /\ ~Awaits(getters[i])
    /\ \A i, j \in DOMAIN getters : getters[i] = getters[j] => i = j

Idle == {"take", "get", "list", "next"}
BusyWithFile == \A k \in Procs : pc[k] \notin Idle => cur[k] \in Files

SpaceIsTold ==
    \A i \in DOMAIN loop :
        loop[i].do = "tell" /\ loop[i].to = "WAITING_FOR_SPACE" =>
            LET w == loop[i].for
            IN  w \in Workers /\ pc[w] = "schedule" /\ cur[w] = loop[i].file

(***************************************************************************)
(* The inductive form of QueuedHasJob.  A file that is no longer IN_QUEUE  *)
(* was told of its new status after it was told of IN_QUEUE, so the late   *)
(* event that sets IN_QUEUE again is followed by another.  Of the workers  *)
(* that hold a file only those that have not begun to copy it count: the   *)
(* others have set another status, or dropped the job.                     *)
(***************************************************************************)
TellsQueued(h, f) == h.do = "tell" /\ h.file = f /\ h.to = "IN_QUEUE"

LeavingIsTold ==
    \A f \in Files : status[f] # "IN_QUEUE" =>
        \A i \in DOMAIN loop : TellsQueued(loop[i], f) =>
            \E j \in DOMAIN loop : i < j /\ TellsOther(loop[j], f)

AtHand(f) ==
    \/ Queued(f) # {}
    \/ \E w \in Workers : cur[w] = f /\ pc[w] = "check"
    \/ f \in dropped

QueuedIsAtHand == \A f \in Files : status[f] = "IN_QUEUE" => AtHand(f) \/ Echo(f)

IInv ==
    /\ OneHandleEach
    /\ RunningIsAwake
    /\ GettersBlocked
    /\ BusyWithFile
    /\ SpaceIsTold
    /\ LeavingIsTold
    /\ QueuedIsAtHand

(***************************************************************************)
(* file_events.py:33, of FileReadyEvent: "Event published when a file      *)
(* becomes stable and is ready for processing."  A READY file is one whose *)
(* event is on its way to the job queue: nothing else ever queues a file.  *)
(***************************************************************************)
ReadyIsAnnounced ==
    \A f \in Files : status[f] = "READY" =>
        \E i \in DOMAIN loop : loop[i].do \in {"ready", "queue"} /\ loop[i].file = f

(***************************************************************************)
(* job_queue.py:90: "Guard against re-queuing files that are already being *)
(* processed."  A file has at most one job.                                *)
(***************************************************************************)
NoDuplicateJob ==
    \A f \in Files : Cardinality(Queued(f)) + Cardinality(Holders(f)) <= 1

(***************************************************************************)
(* All that the coroutines do to a file they do through the registry, as   *)
(* TrackedFiles describes its methods and StateManager implements them:    *)
(* no status changes, no retry comes or goes by any other way.             *)
(***************************************************************************)
Registry == INSTANCE TrackedFiles
                WITH Entries <- Files, known <- Files, retry <- {f \in Files : retry[f]}
UsesTheRegistry == Registry!Spec
=============================================================================
