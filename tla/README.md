# The file transfer agent in TLA+

The agent watches a source folder for video files, some of which are still being
written, and moves each one to a (network) destination: discovery, growth check,
queue, space check, copy, verification, removal of the source. It is one asyncio
program: coroutines on one event loop, a registry behind one lock, an in-process
event bus, and a file system that others write to as well.

This directory models the parts of it that decide whether a file is lost, copied
twice or left waiting. The modules are translated from `src/app`; `PROJECT.json`
names the lines behind every definition.

## 1. Inventory

| Component (`src/app/…`) | State | Operations | Module |
|---|---|---|---|
| State manager (`services/state_manager.py`, `core/file_repository.py`) | entries by id, their status and retry, the table of retry tasks, one lock | add, update, schedule / cancel / cancel all retries, retry timer, two cleanups | `StateManager` |
| Event bus (`core/events`) | subscribers by type | `publish`: a task per handler, all awaited | inside `Pipeline`, `WebSocketManager` |
| Scanner (`services/scanner`, `domains/file_discovery`) | running flag, task | sweep, discover, growth check, start, stop | `FileScanner`; its verdicts in `Pipeline`, its discoveries in `StateManager` |
| Growing file detector (`services/growing_file_detector.py`) | sizes and times on the entry, active flag, monitor loops | `check_file_growth_status`, `update_file_growth_info`, start, stop, monitor loop | `FileScanner`; a verdict in `Pipeline` |
| Job queue (`services/job_queue.py`) | asyncio queue | `handle_file_ready`, `get_next_job`, `process_waiting_network_files` | `Pipeline`, `StorageMonitor` |
| Copy workers (`services/file_copier.py`, `services/consumer`) | worker tasks | `process_job` and its helpers | `Pipeline`, `GrowingCopy` |
| Space check and retries (`space_checker.py`, `space_retry_manager.py`) | the retry count of an entry (not modelled) | check, schedule, give up | `Pipeline` |
| Copy strategy (`services/copy_strategies.py`, `utils/file_operations.py`) | position, sizes, quiet polls; source and destination files | `copy_file` | `GrowingCopy`, `SafeMove` |
| Storage monitor (`services/storage_monitor`, `storage_checker.py`, `network_mount`) | last known info of source and destination, monitor task | a check, mount or make the directory, notify, recover | `StorageMonitor` |
| WebSocket manager (`services/websocket_manager.py`, `api/websockets.py`) | connections, scanner status | connect, initial state, disconnect, broadcast | `WebSocketManager` |
| Pause and resume (`api/uiactions.py`) | – | start, stop | `FileScanner` |
| Folder templates, directory browsing, command and query buses, the rest of the HTTP API, start-up, configuration | – | – | not modelled |

How they interact. The scanner and the growth monitor form verdicts on a file and
write them to the registry (the monitor directly, the scanner by publishing an
event, before the registry has written it). The registry publishes the updates it is
asked for, and a task that `add_file` leaves behind publishes the new entry; a READY file
is announced by `FileReadyEvent`, which the job queue turns into a job. A worker takes the job and
takes the file through the space check and the copy. **The state manager is a
subscriber of all these events**: it writes the status of the event (again), a turn of
the event loop later. The storage monitor's answer is read by the job queue
and by the space check, and its recovery sends the waiting files back to
DISCOVERED. Retries are tasks that sleep and then write READY. The user may pause and
resume the scanner at any time, and watches it all over a WebSocket. All of them share
the same `TrackedFile` objects, and read them outside the lock too.

What is hard: statuses read before an await and used after it, two writers of one
status, events that are handled later than they were made, a lock that is held
across a wait, retries that fire late, files that grow while they are judged and
copied, destinations that come and go between two questions, pauses that overlap with
resumes, clients that come and go during a broadcast, and a crash at any point. The properties each
component needs follow from that; `PROJECT.json` lists the hazards line by line.

## 2. The modules

**`FileStatus`**: the statuses, the groups of them the code distinguishes, and the
order in which entries of one path are preferred.

**`StateManager`**: every operation of the registry. A method that finds the lock
free runs to its end without suspending, so it is one step. The exception is the
cancellation of a retry, which waits for the cancelled task up to 0.1 s *with the
lock held*, while that task's own handler asks for the lock. In this window calls
queue up behind the lock (`waiters`, first come first served) with the arguments
they were made with.

`told` is what the subscribers were told last of an entry, by one of three publishers: the
registry when an update is over, the task of `add_file` (`Publish`), and the scanner
(`ScannerTells`), whose verdict the registry has not written yet. `loop` holds the tasks
the event loop is still to start: those of `add_file`, and the registry's own handler of
each event (`HandleFileStatusChanged`), which writes the event's status, or queues behind
the lock like any other call. So a subscriber's view may lag: `ViewLags` lists the five
cases. Two are for good, unless something else happens to the file (found missing; made
READY by its retry), three are of the moment (the event is owed by the lock's holder; the
registry is still to write what was told; the first event is still to come).

Two properties are about the registry's own events of updates (`Announces`) and about no
others: they are true when published, and a terminal one comes after the death of the
retry. The scanner keeps neither promise. It says REMOVED of a file whose retry may still
be pending, and GROWING or READY of an entry that has another status; the property that
covers its events is `ViewLagsOnlySilently`.

**`TrackedFiles`** and **`PublishedFiles`**: what the registry promises to the services
that use it. In `TrackedFiles` each method is one step on a set of entries, their
statuses and the entries that have a retry pending; there is no lock and there are no
tasks. `PublishedFiles` adds what the subscribers of `FileStatusChangedEvent` were told:
of an update in the same step, of anything by the others in steps that change no entry. `StateManager` implements `PublishedFiles`; `Pipeline`
uses `TrackedFiles`, which leaves out the events because there they are handles of the
event loop. This is the seam between the two modules.

**`Pipeline`**: scanner, growth monitor, job queue, workers, space retries and
recovery as coroutines on one event loop. `loop` is the queue of ready handles,
`cpu` the coroutine that runs, `pc` where each goes on. A coroutine keeps the CPU
until it really suspends, so only the interleavings asyncio can produce are there.
The growth of a file is a choice from `Verdicts`; what an I/O call finds is a choice, and
so is whether a shortage of space is the last one accepted. The code counts the retries and
gives up at a limit, but it counts them whoever asks (`state_manager.py:590`), so duplicate
jobs pass the limit; with the choice left free the module covers every count and limit.

**`GrowingCopy`**: `copy_file`, from the choice of a free destination name to the
COMPLETED mark, one action per I/O call, with the writer of the source, the other
workers, the source's disappearance, failing calls and a restart of the agent in
between. Sizes are counted in blocks; a destination remembers which source each of
its blocks came from. Nothing is assumed of the agent's surroundings: the owner of a source
may write on at any time or never again, a source may have any number of jobs, and the
names tried for different sources (`Candidates`) may overlap or be the same. `sure`,
`resumed` and `contested` record what the code does not guard against: that a source was
written on although a worker had taken it for finished, and that two workers were to open
one path. `Doubtful` are the sources concerned; `LossHasCause` says that no other is lost.

**`SafeMove`**: the abstract promise. A source is disposed of (removed or marked)
only when a destination holds all of it, and that stays so, but for the doubtful. `GrowingCopy`
implements it: `arrived` is the set of sources some destination file holds whole,
`disposed` what was removed or marked.

**`StorageMonitor`**: a check of the destination, question by question, twice (the
loop and the first check of `start_monitoring`), with the attempt to mount or to
make the directory; the update of what is known; the recovery; and the files that
begin to wait because of what is known. `events` are a file's status changes whose handler
in the registry has still to write them again (`Echo`). Two different ones of a file that
are under way together never come to rest (`EchoesGoOn`): each handler finds the other's
status, writes its own and publishes that. A recovery that waits for such a file never
ends, and a file it sent back may be set to wait again.

**`FileScanner`**: one file, and the tasks that judge its growth: scan tasks
(`_scan_folder_loop`) and monitor loops, several of each since pauses and resumes
overlap. Every question for the size is a step, and its answer is used in a later one.
`size`, `present` and `quiet` (for how long it has not grown) are the file's;
`fileSize`, `firstSeen` and `stableSince` the entry's. Times are ages, counted up to the
growth timeout; `Decide` is the decision of `check_file_growth_status`. `running`,
`active`, `scanTask` are the flags and the task of the code, `stopping` the pauses that
wait for a cancelled task, `told` what the last event said. `unseen` remembers that a
growth was stored by `_check_existing_file_changes` and no check saw it.

**`WebSocketManager`**: connections that open, stall, break and close; the list the code
keeps of them, and broadcasts that walk it by index and suspend at every client.
Connections are appended in the order of their numbers, so the list is kept as the set of
its members (`conns`), and the index of a member is how many there are up to it (`Place`).
The truth of a topic (a file, the scanner) is a version number. `shaken` remembers that a
broadcast lost its place in the list or was passed by a newer one, `unheard` that a
scanner event was dropped.

`StateManagerMC`, `PipelineMC`, `GrowingCopyMC`, `StorageMonitorMC`, `FileScannerMC` and
`WebSocketManagerMC` give the constants for TLC. `StateManagerProofs`,
`PipelineProofs`, `GrowingCopyProofs`, `StorageMonitorProofs`, `FileScannerProofs` and
`WebSocketManagerProofs` hold the theorems.

The modules overlap in the registry. `Pipeline` takes each call of it as one step
(`UsesTheRegistry`), and `StateManager` shows that it is one, although the lock is held
across a wait (`MethodsAreAtomic`); a call that queues behind the lock takes effect when
it is served, while `Pipeline` never lets one queue. `StorageMonitor` takes an update as
one step on the same grounds. `FileScanner` forms the verdicts
that `Pipeline` takes from `Verdicts`, and takes the status changes of the job queue as
single steps of its environment.

## 3. The runs

Runs that pass:

| Run | Instance | What it shows |
|---|---|---|
| `state_manager` | 1 path, 2 entries, 2 retry tasks, 2 in all of calls behind the lock and events under way; 507 544 states | `NoOrphanRetry`: a retry that can still run is the one filed for its entry. `PendingRetryRecorded`: such an entry has its `retry_info`. `ViewLagsOnlySilently`: what subscribers know, whoever told them, lags in five listed cases only. `DeadBeforeAnnounced`: when the registry tells that a file is finished, its retry is dead. `EventsAreTrue`: the event of an update is true when the registry publishes it. `FiredRetryEnds`: a retry whose sleep is over does not hang behind the lock. `MethodsAreAtomic`: refinement of `PublishedFiles`. |
| `pipeline` | 1 file, 1 worker, verdicts READY, GROWING and FAILED, 3 ready handles, 1 queued job; 2 335 933 states | `QueuedHasJob`: an IN_QUEUE file has a job, unless the preparation of its copy failed or the status is the echo of an old event about to be overwritten. `WaitingHasRetry`: a file that waits for space has a retry, or the worker is about to schedule it. `UsesTheRegistry`: refinement of `TrackedFiles`. |
| `growing_copy` | 1 source of up to 2 blocks and any number of jobs of it, 2 workers (one of them healthy), 2 paths, margin 1, chunk 1, one quiet poll; 430 434 states | `LossHasCause`: what was removed or marked is whole at the destination, unless its owner wrote on after a worker took it for finished, or one of its paths was contested. `PromiseKept`: refinement of `SafeMove`. `CopyEnds`: a healthy worker's copy past the wait for the minimum size comes to an end. |
| `storage_monitor` | 1 file, 2 checks, the four levels at any time, with and without a share to mount, 2 events of the file before it changes further; 336 872 states | `NoneLeftBehind`: while the destination has been OK since an outage, a file that waits for the network is on a recovery's list, or the list is still to be made. Excepted are files caught between two events, and files marked as removed by a sweep. `EchoesGoOn`: such a file stays caught. `OutageEnds`: with the destination there for good, not taken for WARNING on the way, and no file caught, an outage's file stops waiting. `KnowsTheLevel`: overlapping checks may store an older answer last, but not for good. |
| `file_scanner` | 1 file of up to 2 units, minimum size 2, growth timeout 1, 2 scan tasks, 1 monitor loop; 840 571 states | `StableMeansQuiet`: what counts as stable for so long was quiet for so long, unless a growth was absorbed. `ReadyMeansQuiet`: the same of every verdict READY. `ToldTheTruth`: with no pause waiting, the user was told what the scanner does. `Settles`: a scanner that goes on brings the file to a verdict. `PauseIsComplete`: a pause that lasts stops every task. |
| `websocket` | 3 connections, 2 changes, 2 broadcasts under way; 98 778 states | `NoStaleView`: no client that watches is left with old news, with two exceptions (a broadcast that lost its place or was passed, scanner news nobody heard). `NewsArrives`: without those, everybody sees the truth in the end. |

Each also checks the type invariant, and `IInv` is the inductive invariant of the
proofs.

Runs that show a disagreement between the code and what a document, a comment or
the code's own description says (the findings of `PROJECT.json`):

| Run | What TLC finds |
|---|---|
| `pipeline_one_job` | A verdict formed before the file was queued makes it READY again; it is queued a second time. |
| `pipeline_ready_announced` | A space retry makes a file READY and announces nothing, so nobody queues it. |
| `growing_copy_one_name` | Two sources with one destination name: both workers find the same path free, the second truncates the delivered file of the first, whose source is gone. |
| `file_scanner_grown` | A file of the minimum size that has grown becomes READY_TO_START_GROWING, announced and queued by nobody; it stays so for as long as it exists. |
| `file_scanner_stable_since` | The scan stores a new size without the time of the growth: the next check finds no growth, and the file counts as stable since before it grew. |
| `storage_monitor_recovery` | A destination that comes back as WARNING, or reaches OK by way of WARNING, starts no recovery. |

Three more disagreements show in the state spaces of these modules and have no run of
their own. `cleanup_missing_files` writes REMOVED and publishes nothing (the exception of
`ViewLagsOnlySilently`). The state manager hears its own IN_QUEUE event after the worker
has begun, and COPYING goes back to IN_QUEUE (the exception `Echo` of `QueuedHasJob`). A
file marked as growing whose writer finished below the minimum size keeps its worker
waiting for ever (the phase that `CopyEnds` excepts).

### Bounds, and why they are enough

* `StateManager`. Two entries of one path are what `add_file` and the choice of the
  current entry are about; two tasks let a retry be scheduled over an old one; two calls
  behind the lock let one wait behind another, and an event of one publisher meet one of
  another. Callers ask for one terminal and one waiting status, the scanner tells of
  REMOVED; the other statuses arise inside the module. With the verdict READY besides,
  everything holds as well (988 595 states). A larger instance (2 paths, 4 entries, 5 tasks,
  5 pending, 5 targets, 4 verdicts) was simulated: 8000 random behaviours of 80 steps
  violate neither `IInv` nor `EventsAreTrue`, `DeadBeforeAnnounced` or `MethodsAreAtomic`.
* `Pipeline`. One file and one worker already give two jobs for a file, stale
  verdicts and echoes. A step that would need more than `MaxLoop` ready handles is
  not taken, so runs with many events at once are cut off. @@PIPE@@
* `GrowingCopy`. With a chunk and a margin of one block, two blocks leave room for a copy
  that follows, waits and finishes; a source quiet for one poll may grow again. Two workers
  with two jobs of one source take the same path when both prepare before either opens it,
  and one after the other the second path; `contested` and `resumed` sources occur.
  `MaxTries` stands for 9998 numbered names; with 2 both a free name and none left occur.
  Two sources with overlapping names (up to 3 blocks, chunk 2, two quiet polls) were
  simulated: 20 000 random behaviours of 80 steps violate nothing.
* `StorageMonitor`. The files do not interact, and each check is one process; one file and
  both checks give every overlap. Files go on changing only while fewer than `MaxEvents`
  events of theirs are under way; two are what it takes for an echo. Two files were
  simulated (behaviours of 80 steps, 5.2 million states), with no violation.
* `FileScanner`. Two scan tasks are what a resume during a pause can leave; a size of 2
  is at the minimum, one of 1 below; an age of 1 is the whole timeout. Two monitor loops
  come about when the scanner is stopped and started within one poll interval
  (`growing_file_detector.py:37`), which this run has no room for: with 2 loops and 1 scan
  task all properties of the run hold (103 400 states), and with 2 loops and 2 scan tasks
  all invariants (6 499 481 states). The proofs of the safety properties hold for any number.
* `WebSocketManager`. Three connections let two stand behind the one that is removed,
  or one come when another goes; two broadcasts are enough for one to pass another. With
  3 changes everything holds as well (678 817 states), and so do both invariants with 2
  changes of each of the two topics.
* Deadlock is not checked for `Pipeline` (its bounds stop the event loop), nor for
  `GrowingCopy` (all sources may be done), `StorageMonitor` and `WebSocketManager` (all
  clients gone and no changes left). It is checked for `StateManager` and `FileScanner`.

### Fairness

* `StateManager`: the event loop hands a free lock to the first in the queue
  (`WF(Resume)`), and the wait for a cancelled task ends after 0.1 s
  (`WF(EndCancel)`). Nothing is assumed of callers or timers.
* `GrowingCopy`: the calls of healthy workers return (`WF(Step)`); other workers may hang
  at any call. Nothing is assumed of the writers: that a source has at most `MaxSize` blocks
  stands for a source that does not grow for ever. Failure, restart and growth need not
  happen.
* `StorageMonitor`: the calls of a check return or time out and the loop wakes up
  (`WF(Check)`), and handlers run (`WF(Echo)`). Two calls have no timeout in the code: the
  mount command of Windows (`windows_mounter.py:41`) and the write probe
  (`storage_checker.py:117-150`); for these the fairness is an assumption. A check whose
  recovery waits for a file caught between two events never ends, whatever is fair; the
  properties except that (`Calm`). Sweeps, which are seconds apart, do not come between an
  event and its handler for ever (`SweepsEnd`, assumed in the two properties).
* `FileScanner`: calls of the file system return and sleeps end (`WF` of each task),
  time goes on (`WF(Tick)`), and the job queue handles its events. Nobody has to write,
  to pause or to resume.
* `WebSocketManager`: events are handled, a client's end is noticed, and a socket takes
  what it is given or fails (the server's keep-alive closes dead connections). Nobody has
  to connect, to leave or to change.
* `Pipeline` states no liveness.

## 4. The proofs

TLAPS checks, for every value of the constants that satisfies the named assumptions:

* **`StateManagerProofs`**: `Inductive` (types and `IInv`), and from it `TypeCorrect`,
  `RetriesFiled`, `RetriesRecorded`, `ViewBounded`, `TrueEvents` and `FinalEvents`.
  None of the safety properties is inductive alone: that a retry is filed depends on
  who holds the lock and which task was popped (`LockHolder`), on the links between
  entries and tasks (`RetryLinks`), and on the queue holding only fires of tasks
  whose sleep is over (`QueuedFires`). The proof takes the invariant in three parts
  (`Registry`, `Queue`, `News`). The methods preserve the registry's part whoever runs
  them; the ways to run one (at once, from the queue, from the event loop, from a timer)
  differ only in what they do to the queue and the loop (`Ready`). For the news it is shown
  that a step that takes an excuse of `ViewLags` away gives another or makes the view true:
  who writes what was told last is the registry's handler, and while it waits, in the loop
  or behind the lock, it is the excuse. `AtomicMethods` is the refinement
  `MethodsAreAtomic`. Its mapping says when a suspended method counts as done: in the step
  in which it begins. The retries that `cancel_all_retries` has still to come to count as
  gone (`todo`), the retry that is being replaced as kept (`lock.op = "schedule"`), the
  event that is owed as told (`lock.owed`); the end of the wait is then a stutter
  (`EndCancelHidden`), and the inductive invariant is what makes the retry that fires the
  pending one (`FireRetryAtomic`). Assumptions: the bounds are natural numbers, the
  targets and verdicts are statuses.
* **`PipelineProofs`**: `Inductive` (types, `WaitingHasRetry`, `IInv`), `TypeCorrect`,
  `SpaceRetried`, `QueuedFilesHaveJobs` and `PipelineUsesTheRegistry`, for any numbers of
  files and workers and any length of the event loop's queue.
  `WaitingHasRetry` alone is not inductive: the state manager writes WAITING_FOR_SPACE a
  second time when it hears its own event, and by then the retry could have fired, unless
  the worker still waits for that event before it schedules the retry (`SpaceIsTold`).
  That it does is a fact about coroutines: each waits for one thing at a time. No handle
  is for the one that runs (`RunningIsAwake`), none is there twice (`OneHandleEach`), and
  who blocks in `queue.get` waits for nothing else (`GettersBlocked`). `MovedControl` shows
  this for a step of any coroutine, `Turned` for a step of the loop; each action is then
  one of a few forms.
  `QueuedHasJob` needs the order of the loop's queue. An old event IN_QUEUE sets the
  status again after the worker has gone on, and then there is no job any more; but
  whoever wrote over IN_QUEUE published that later, so the event of the newer status
  still stands behind it (`LeavingIsTold`). And a worker that holds a file counts as its
  job only up to the moment when it writes another status or drops the job
  (`QueuedIsAtHand`). `TakenTells` and `EventsTell` say what happens to that order when
  the first event is handled and when a status change appends its own.
  `PipelineUsesTheRegistry` goes through the coroutines once more: whoever changes a status
  or a retry does it as one of the methods. Assumptions: `None` and the three services are
  no workers, and a growth check concludes a growth status or FAILED.
* **`GrowingCopyProofs`**: `Inductive`, `TypeCorrect`, `NoLoss` and `KeepsPromise`,
  for any numbers of sources, workers and paths, any names, sizes, chunk, margin and
  timeouts. Nothing is assumed of writers, names or jobs: what the code does not guard
  against is recorded by the module, and the theorems say that a loss has no other cause.
  The invariant follows a copy: who shares its path has made it contested
  (`ContestIsSeen`), the destination is the beginning of the source unless it is
  (`IsPrefix`), it stays behind while the source may grow (`StaysBehind`), equal sizes at
  the verification mean that it is whole (`CopyRuns`), no destination is ahead of its
  source (`NoFutureBlock`), and what was disposed of is at rest (`DisposedRests`). That a
  source with a contested path may really be lost is what `growing_copy_one_name` shows.
* **`StorageMonitorProofs`**: `Inductive`, `TypeCorrect`, `NobodyLeftBehind`, `NoRest`
  and `RecoveryIsComplete`, for any set of files and any bound of events. "OK since an
  outage" implies that the destination is known to be OK, so nobody begins to wait but by
  a handler; the update that starts the time is itself a recovery; its list holds
  everybody; and a file leaves the list when it stops waiting. The handlers need one fact
  more: the last event of a file under way tells its status (`LastTells`) as long as no
  sweep has come between. So a handler that changes the status was not the last, and leaves
  two different events behind (`EchoLeaves`), which is the exception of `NoneLeftBehind`,
  and, for a file already caught, `NoRest`.

* **`FileScannerProofs`**: `Inductive`, `TypeCorrect`, `StabilityIsTrue`, `ToldIsTrue`
  and `ReadyIsQuiet`, for any numbers of scan tasks and loops, sizes and timeouts. The
  strengthening: no answer is larger than the file (`SizesKnown`), so that an answer
  equal to the present size is not an old one; verdicts are kept only while they are
  published; and a cancelled task has a pause that waits for it, so that its `finally`
  clause, which clears the running flag, cannot come after the last word to the user.

* **`WebSocketManagerProofs`**: `Inductive`, `TypeCorrect` and `NobodyIsStale`, for any
  numbers of connections, changes and broadcasts. The first part is about counting: how
  the index of a client moves when one is appended (`IndexAdd`) or taken out
  (`IndexDrop`), that a walk stops at the first client it has not passed (`StopIsFirst`)
  and that nobody stands between two places. The invariant has a part for the whole
  program (`Connected`: an open connection is in the list; `Walks`: a broadcast never
  brings what has not happened yet, and whom it found failed is closed; `NewsInOrder`: of
  two broadcasts of a topic the older brings no newer version) and one for each topic
  that is not shaken: its broadcasts stay within the list (`WithinList`), and one with
  the truth is at least as far behind as every older one (`OldNewsFirst`), so that who is
  served old news is served the truth afterwards. A removal shakes a topic when a
  broadcast of it has already passed the place that closes up, and a newer broadcast does
  when it passes an older one; the proof shows that nothing else can. Assumptions: the
  bounds are natural numbers, `None` is no client.

With these every invariant, action property and refinement that the passing runs check is a
theorem. Only model-checked are
the liveness properties (`FiredRetryEnds`, `CopyEnds`, `OutageEnds`, `KnowsTheLevel`,
`Settles`, `PauseIsComplete`, `NewsArrives`): liveness under fairness and `ENABLED` are out
of the prover's reach. Theorems by induction that take an operator as a parameter cannot
be used either; what the proofs need of finite lists and sets follows from the library's
theorems on cardinality and sequences and from the least element of a set of numbers
(`MinExists`). No module declares a RECURSIVE operator.

## 5. What is not modelled

* Free space and its margins: whether there is room is a choice.
* The walk over the source folder and its filters; `stop_monitoring` of the storage.
* The growth rate, copy progress and statistics, which are only shown. Copy progress and
  storage news take the same broadcasts as the news of files; mount news takes none,
  since its handler fails (`websocket_manager.py:305`).
* Buffering: a block counts as written when the write is made. A destination file
  truncated from outside is not modelled.
* `FileCopyExecutor`, `CopyErrorHandler`, `DestinationChecker`: no part of the
  running agent calls them.
* Folder templates, directory browsing, buses for commands and queries, the other HTTP
  handlers, settings, logging: no state the pipeline depends on.

Met while modelling, and not a run of its own: `README.md:18` speaks of resuming
"from the last verified byte", while `copy_strategies.py:263` opens the destination
with `"wb"` and begins again.

## 6. What could come next

1. `Pipeline` with the decisions of `FileScanner` in place of `Verdicts`: two large
   state spaces multiply, so one of them has to be reduced first.
2. Space: the arithmetic of `check_space_for_file`, with copies that fill the
   destination while others are checked.
3. `Pipeline` as an implementation of `PublishedFiles`: what was told there depends on
   which handles have been run, and on echoes.
