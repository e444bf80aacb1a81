---------------------------- MODULE StateManager ----------------------------
(***************************************************************************)
(* The registry of tracked files: app/services/state_manager.py over       *)
(* app/core/file_repository.py.                                            *)
(*                                                                         *)
(* Every method runs under one asyncio.Lock.  A method that finds the lock *)
(* free runs to its end without giving up the event loop, so it is one     *)
(* step.  Only _cancel_existing_retry_unlocked suspends while it holds the *)
(* lock: it cancels the retry task of a file and waits up to 0.1 s for it  *)
(* to end, and the task, whose CancelledError handler asks for the same    *)
(* lock, never ends before that.  During this window calls queue up behind *)
(* the lock, first come first served, with the arguments they were made    *)
(* with; that is what the variable waiters records.                        *)
(*                                                                         *)
(* Subscribers hear of a status from three sides: from the registry when   *)
(* an update is over, from a task that add_file leaves behind, and from    *)
(* the scanner, which publishes its verdict before the registry knows of   *)
(* it (scanner/file_scanner.py).  The registry is a subscriber itself, and *)
(* a turn of the event loop later it writes the status it hears of; that   *)
(* is what the variable loop records.                                      *)
(***************************************************************************)
EXTENDS FileStatus, Sequences, FiniteSets

CONSTANTS
    Paths,        \* source paths
    MaxFiles,     \* bound: entries ever created
    MaxTasks,     \* bound: retry tasks ever created
    MaxPending,   \* bound: calls behind the lock and events under way
    Targets,      \* the statuses callers ask for
    Verdicts      \* the statuses the scanner publishes

ASSUME BoundsAssumption ==
    /\ MaxFiles \in Nat \ {0}
    /\ MaxTasks \in Nat \ {0}
    /\ MaxPending \in Nat
ASSUME TargetsAssumption == Targets \subseteq Status /\ Verdicts \subseteq Status

Ids == 1..MaxFiles
Tasks == 1..MaxTasks
NoPath == ""

VARIABLES
    tracked,      \* keys of FileRepository._files_by_id
    path,         \* TrackedFile.file_path
    status,       \* TrackedFile.status
    told,         \* last status the subscribers were told of an entry
    loop,         \* tasks the event loop is to start: publications of add_file,
                  \* and the registry's handlers of published events
    retryInfo,    \* is TrackedFile.retry_info set?
    retryTask,    \* StateManager._retry_tasks: the task filed for an entry, or 0
    taskOf,       \* the entry a retry task is for, 0 once it is over
    taskState,    \* "new", "sleeping", "fired" (queued on the lock) or "done"
    lock,         \* the call suspended inside the lock; op = "free" if none
    victim,       \* the cancelled task that call waits for, or 0
    todo,         \* entries cancel_all_retries has still to cancel
    waiters,      \* calls queued behind the lock
    nextId, nextTask

files == <<tracked, path, status, nextId>>
retries == <<retryInfo, retryTask, taskOf, taskState, nextTask>>
locking == <<lock, victim, todo>>
news == <<told, loop>>
vars == <<files, news, retries, locking, waiters>>

\* lock.owed is the status in the event the suspended call will publish.
NoEvent == "none"
FreeLock == [op |-> "free", id |-> 0, owed |-> NoEvent]

Init ==
    /\ tracked = {}
    /\ path = [i \in Ids |-> NoPath]
    /\ status = [i \in Ids |-> "DISCOVERED"]
    /\ told = [i \in Ids |-> NoEvent]
    /\ loop = <<>>
    /\ retryInfo = [i \in Ids |-> FALSE]
    /\ retryTask = [i \in Ids |-> 0]
    /\ taskOf = [t \in Tasks |-> 0]
    /\ taskState = [t \in Tasks |-> "new"]
    /\ lock = FreeLock
    /\ victim = 0
    /\ todo = {}
    /\ waiters = <<>>
    /\ nextId = 1
    /\ nextTask = 1

-----------------------------------------------------------------------------
(* Looking entries up.                                                     *)

EntriesOf(p) == {i \in tracked : path[i] = p}
ActiveEntriesOf(p) == {i \in EntriesOf(p) : status[i] \in Active}

\* The entry cleanup_missing_files and the statistics take to stand for p.
MoreCurrent(p) == Preferred(EntriesOf(p), status, MoreCurrentRank)

\* handle_file_status_changed of an event, and the publication of one.
Write(i, s) == [do |-> "write", id |-> i, to |-> s]
Publication(i, s) == [do |-> "publish", id |-> i, to |-> s]

\* The subscribers are told, and the registry's own handler is made ready
\* behind the tasks in rest.  What they hear of an entry that was dropped is
\* not kept.
Tell(i, s, rest) ==
    /\ told' = [told EXCEPT ![i] = IF i \in tracked THEN s ELSE @]
    /\ loop' = Append(rest, Write(i, s))
TellNobody(rest) == loop' = rest /\ UNCHANGED told

Reset(f, ids, none) == [i \in Ids |-> IF i \in ids THEN none ELSE f[i]]

\* A retry task that can still run.
Live(t) == t # 0 /\ taskState[t] \in {"sleeping", "fired"}

-----------------------------------------------------------------------------
(* The bodies of the methods, from the moment they hold the lock.  Those   *)
(* that a task of the event loop may call take the rest of the loop.       *)

\* add_file: one active entry per path; a path with only finished entries
\* gets a new one, and a task that is to publish its FileStatusChangedEvent.
AddFile(p, rest) ==
    /\ \/ /\ ActiveEntriesOf(p) # {}
          /\ TellNobody(rest)
          /\ UNCHANGED files
       \/ /\ ActiveEntriesOf(p) = {}
          /\ nextId \in Ids
          /\ tracked' = tracked \cup {nextId}
          /\ path' = [path EXCEPT ![nextId] = p]
          /\ status' = [status EXCEPT ![nextId] = "DISCOVERED"]
          /\ nextId' = nextId + 1
          /\ TellNobody(Append(rest, Publication(nextId, "DISCOVERED")))
    /\ UNCHANGED <<retries, locking>>

\* _cancel_existing_retry_unlocked when no task has to die: the file's slot
\* in _retry_tasks is empty or holds a task that is over.
ForgetRetry(i) ==
    /\ ~Live(retryTask[i])
    /\ retryTask' = [retryTask EXCEPT ![i] = 0]
    /\ retryInfo' = [retryInfo EXCEPT ![i] = FALSE]

\* ... and when one has: it is popped and cancelled, and the caller waits.
StartCancel(i, op, owed) ==
    /\ Live(retryTask[i])
    /\ victim' = retryTask[i]
    /\ retryTask' = [retryTask EXCEPT ![i] = 0]
    /\ lock' = [op |-> op, id |-> i, owed |-> owed]
    /\ UNCHANGED <<retryInfo, taskOf, taskState, nextTask>>

\* A change is told, and only a change.
TellChange(i, s, rest) == IF status[i] = s THEN TellNobody(rest) ELSE Tell(i, s, rest)

\* Mutant: the early return of the cancel path loses the event.
UpdateStatusEventLost(i, s, rest) ==
    /\ status' = [status EXCEPT ![i] = IF i \in tracked THEN s ELSE @]
    /\ UNCHANGED <<tracked, path, nextId, todo>>
    /\ \/ i \in tracked /\ s \in Terminal /\ StartCancel(i, "update", NoEvent) /\ TellNobody(rest)
       \/ /\ i \in tracked /\ s \in Terminal /\ ForgetRetry(i) /\ TellChange(i, s, rest)
          /\ UNCHANGED <<taskOf, taskState, nextTask, lock, victim>>
       \/ /\ i \notin tracked \/ s \notin Terminal
          /\ IF i \in tracked THEN TellChange(i, s, rest) ELSE TellNobody(rest)
          /\ UNCHANGED <<retries, lock, victim>>

\* Mutant: the event is published first, the retry cancelled after it.
UpdateStatusEventFirst(i, s, rest) ==
    /\ status' = [status EXCEPT ![i] = IF i \in tracked THEN s ELSE @]
    /\ UNCHANGED <<tracked, path, nextId, todo>>
    /\ IF i \in tracked THEN TellChange(i, s, rest) ELSE TellNobody(rest)
    /\ \/ i \in tracked /\ s \in Terminal /\ StartCancel(i, "update", NoEvent)
       \/ /\ i \in tracked /\ s \in Terminal /\ ForgetRetry(i)
          /\ UNCHANGED <<taskOf, taskState, nextTask, lock, victim>>
       \/ /\ i \notin tracked \/ s \notin Terminal
          /\ UNCHANGED <<retries, lock, victim>>

\* update_file_status_by_id.  The event follows the release of the lock.
UpdateStatus(i, s, rest) ==
    \/ /\ i \notin tracked
       /\ TellNobody(rest)
       /\ UNCHANGED <<files, retries, locking>>
    \/ /\ i \in tracked
       /\ status' = [status EXCEPT ![i] = s]
       /\ UNCHANGED <<tracked, path, nextId, todo>>
       /\ \/ /\ s \in Terminal /\ StartCancel(i, "update", IF status[i] # s THEN s ELSE NoEvent)
             /\ TellNobody(rest)
          \/ /\ s \in Terminal /\ ForgetRetry(i)
             /\ TellChange(i, s, rest)
             /\ UNCHANGED <<taskOf, taskState, nextTask, lock, victim>>
          \/ /\ s \notin Terminal
             /\ TellChange(i, s, rest)
             /\ UNCHANGED <<retries, lock, victim>>

\* Mutants: the registry files the wrong task; retry_info is not saved.
StartRetryMisfiled(i) ==
    /\ nextTask \in Tasks
    /\ retryInfo' = [retryInfo EXCEPT ![i] = TRUE]
    /\ retryTask' = [retryTask EXCEPT ![i] = nextTask + 1]
    /\ nextTask' = nextTask + 1
StartRetryUnsaved(i) ==
    /\ nextTask \in Tasks
    /\ retryTask' = [retryTask EXCEPT ![i] = nextTask]
    /\ nextTask' = nextTask + 1
    /\ UNCHANGED retryInfo

\* The second half of schedule_retry: a new task sleeps out the delay.
StartRetry(i) ==
    /\ nextTask \in Tasks
    /\ retryInfo' = [retryInfo EXCEPT ![i] = TRUE]
    /\ retryTask' = [retryTask EXCEPT ![i] = nextTask]
    /\ nextTask' = nextTask + 1

\* The task has begun its sleep.
Sleeps(i) ==
    /\ taskOf' = [taskOf EXCEPT ![nextTask] = i]
    /\ taskState' = [taskState EXCEPT ![nextTask] = "sleeping"]

\* Mutant: the retry pending already is not cancelled.
ScheduleRetryTwice(i) ==
    /\ i \in tracked /\ StartRetry(i) /\ Sleeps(i)
    /\ UNCHANGED <<locking, files, news>>

\* schedule_retry.
ScheduleRetry(i) ==
    /\ \/ /\ i \notin tracked
          /\ UNCHANGED <<retries, locking>>
       \/ /\ i \in tracked /\ StartCancel(i, "schedule", NoEvent)
          /\ UNCHANGED todo
       \/ /\ i \in tracked /\ ~Live(retryTask[i]) /\ StartRetry(i) /\ Sleeps(i)
          /\ UNCHANGED locking
    /\ UNCHANGED <<files, news>>

\* cancel_retry.
CancelRetry(i) ==
    /\ \/ /\ StartCancel(i, "cancel", NoEvent)
          /\ UNCHANGED todo
       \/ /\ ForgetRetry(i)
          /\ UNCHANGED <<taskOf, taskState, nextTask, locking>>
    /\ UNCHANGED <<files, news>>

\* cancel_all_retries: entries whose task is over are cleared on the way, the
\* others one after the other, each with its own window.
CancelAllRetries ==
    LET recorded == {i \in tracked : retryInfo[i]}
        running == {i \in recorded : Live(retryTask[i])}
        over == recorded \ running
    IN  /\ retryInfo' = Reset(retryInfo, over, FALSE)
        /\ \/ /\ running = {}
              /\ retryTask' = Reset(retryTask, over, 0)
              /\ UNCHANGED locking
           \/ \E i \in running :
                 /\ victim' = retryTask[i]
                 /\ retryTask' = Reset(retryTask, over \cup {i}, 0)
                 /\ lock' = [op |-> "cancel_all", id |-> i, owed |-> NoEvent]
                 /\ todo' = running \ {i}
        /\ UNCHANGED <<files, news, taskOf, taskState, nextTask>>

\* _execute_retry_task after its sleep.  If the file is gone, or no longer
\* waits for space, the task returns and leaves its slot and retry_info as
\* they are.  Otherwise the file is READY again, and no event says so.
FireRetry(t) ==
    LET i == taskOf[t]
        wanted == i \in tracked /\ retryInfo[i] /\ status[i] = "WAITING_FOR_SPACE"
    IN  /\ taskState' = [taskState EXCEPT ![t] = "done"]
        /\ taskOf' = [taskOf EXCEPT ![t] = 0]
        /\ \/ /\ ~wanted
              /\ UNCHANGED <<status, retryInfo, retryTask>>
           \/ /\ wanted
              /\ status' = [status EXCEPT ![i] = "READY"]
              /\ retryInfo' = [retryInfo EXCEPT ![i] = FALSE]
              /\ retryTask' = [retryTask EXCEPT ![i] = 0]
        /\ UNCHANGED <<tracked, path, nextId, news, nextTask, locking>>

\* cleanup_missing_files: the entry that stands for a vanished path becomes
\* REMOVED in place; no event, and a scheduled retry is not cancelled.
Missing(present) ==
    {i \in tracked : /\ path[i] \notin present
                     /\ i = MoreCurrent(path[i])
                     /\ status[i] \notin KeptWhenMissing}

CleanupMissing(present) ==
    /\ status' = Reset(status, Missing(present), "REMOVED")
    /\ UNCHANGED <<tracked, path, nextId, news, retries, locking>>

\* cleanup_old_files: entries past the retention time are dropped, whatever
\* their status; their retry tasks are not cancelled.
CleanupOld(old) ==
    /\ tracked' = tracked \ old
    /\ path' = Reset(path, old, NoPath)
    /\ status' = Reset(status, old, "DISCOVERED")
    /\ told' = Reset(told, old, NoEvent)
    /\ retryInfo' = Reset(retryInfo, old, FALSE)
    /\ UNCHANGED <<nextId, loop, retryTask, taskOf, taskState, nextTask, locking>>

-----------------------------------------------------------------------------
(* Taking and releasing the lock.                                          *)

Calls ==
    [op : {"add"}, path : Paths]
        \cup [op : {"update"}, id : Ids, to : Status]
        \cup [op : {"schedule", "cancel"}, id : Ids]
        \cup [op : {"cancel_all", "old"}]
        \cup [op : {"fire"}, task : Tasks]
        \cup [op : {"missing"}, present : SUBSET Paths]

\* A queued retry task that was cancelled no longer waits for the lock.
Gone(c) == c.op = "fire" /\ taskState[c.task] = "done"
\* Mutant: update_file_status_by_id cancels the retry outside the lock.
FreeWhileUpdating ==
    lock.op \in {"free", "update"} /\ \A k \in DOMAIN waiters : Gone(waiters[k])
Free == lock.op = "free" /\ \A k \in DOMAIN waiters : Gone(waiters[k])

Execute(c, rest) ==
    \/ c.op = "add" /\ AddFile(c.path, rest)
    \/ c.op = "update" /\ UpdateStatus(c.id, c.to, rest)
    \/ c.op = "schedule" /\ ScheduleRetry(c.id)
    \/ c.op = "cancel" /\ CancelRetry(c.id)
    \/ c.op = "cancel_all" /\ CancelAllRetries
    \/ c.op = "fire" /\ FireRetry(c.task)
    \/ c.op = "missing" /\ CleanupMissing(c.present)
    \/ c.op = "old" /\ \E old \in SUBSET tracked : CleanupOld(old)

\* Room for another event or another call, besides those in line, the tasks
\* in rest and the event that the suspended call owes.
Room(rest) ==
    Len(waiters) + Len(rest) + (IF lock.owed = NoEvent THEN 0 ELSE 1) < MaxPending

Block(c, rest) ==
    /\ ~Free
    /\ Room(rest)
    /\ waiters' = Append(waiters, c)
    /\ TellNobody(rest)
    /\ UNCHANGED <<files, retryInfo, retryTask, taskOf, nextTask, locking>>

\* A method is called: it runs at once, or queues.
CallFrom(c, rest) ==
    \/ Free /\ Execute(c, rest) /\ UNCHANGED waiters
    \/ Block(c, rest) /\ UNCHANGED taskState

Call(c) == CallFrom(c, loop)

\* Mutant: the lock goes to the call that came last.
ResumeNewestFirst ==
    /\ lock.op = "free"
    /\ waiters # <<>>
    /\ waiters' = SubSeq(waiters, 1, Len(waiters) - 1)
    /\ \/ /\ Gone(waiters[Len(waiters)])
          /\ UNCHANGED <<files, news, retries, locking>>
       \/ /\ ~Gone(waiters[Len(waiters)])
          /\ Execute(waiters[Len(waiters)], loop)

\* The lock is handed to the first in line.
Resume ==
    /\ lock.op = "free"
    /\ waiters # <<>>
    /\ waiters' = Tail(waiters)
    /\ \/ /\ Gone(Head(waiters))
          /\ UNCHANGED <<files, news, retries, locking>>
       \/ /\ ~Gone(Head(waiters))
          /\ Execute(Head(waiters), loop)

\* The wait for the cancelled task ends (asyncio.wait_for, 0.1 s) and the
\* suspended method runs on to its end.
EndCancel ==
    /\ victim # 0
    /\ IF lock.op = "schedule"
       THEN /\ taskState' = [taskState EXCEPT ![victim] = "done", ![nextTask] = "sleeping"]
            /\ taskOf' = [taskOf EXCEPT ![victim] = 0, ![nextTask] = lock.id]
       ELSE /\ taskState' = [taskState EXCEPT ![victim] = "done"]
            /\ taskOf' = [taskOf EXCEPT ![victim] = 0]
    /\ \/ /\ lock.op = "update"
          /\ IF lock.owed = NoEvent THEN TellNobody(loop) ELSE Tell(lock.id, lock.owed, loop)
          /\ retryInfo' = [retryInfo EXCEPT ![lock.id] = FALSE]
          /\ lock' = FreeLock /\ victim' = 0
          /\ UNCHANGED <<todo, retryTask, nextTask>>
       \/ /\ lock.op = "schedule"
          /\ StartRetry(lock.id)
          /\ lock' = FreeLock /\ victim' = 0
          /\ UNCHANGED <<todo, news>>
       \/ /\ lock.op = "cancel"
          /\ retryInfo' = [retryInfo EXCEPT ![lock.id] = FALSE]
          /\ lock' = FreeLock /\ victim' = 0
          /\ UNCHANGED <<todo, news, retryTask, nextTask>>
       \/ /\ lock.op = "cancel_all"
          /\ retryInfo' = [retryInfo EXCEPT ![lock.id] = FALSE]
          /\ \/ /\ todo = {}
                /\ lock' = FreeLock /\ victim' = 0
                /\ UNCHANGED <<todo, retryTask>>
             \/ \E i \in todo :
                   /\ victim' = retryTask[i]
                   /\ retryTask' = [retryTask EXCEPT ![i] = 0]
                   /\ lock' = [op |-> "cancel_all", id |-> i, owed |-> NoEvent]
                   /\ todo' = todo \ {i}
          /\ UNCHANGED <<news, nextTask>>
    /\ UNCHANGED <<files, waiters>>

-----------------------------------------------------------------------------
(* The callers: scanner, growth monitor, job queue, workers, the service's *)
(* own event handlers, and the timers of the retry tasks.                  *)

\* How many calls of one kind wait; the bounds leave room for them.
Waiting(op) == Cardinality({k \in DOMAIN waiters : waiters[k].op = op})

Discovered(p) ==
    /\ nextId + Waiting("add") \in Ids
    /\ Room(loop)
    /\ Call([op |-> "add", path |-> p])

StatusRequested(i, s) ==
    /\ i < nextId
    /\ Room(loop)
    /\ Call([op |-> "update", id |-> i, to |-> s])

\* _handle_growing_file_logic: a verdict that differs from the status the
\* entry has by now is published, of an entry that was dropped as well.
ScannerTells(i, s) ==
    /\ i < nextId
    /\ Room(loop)
    /\ i \in tracked => s # status[i] /\ status[i] # "WAITING_FOR_NETWORK"
    /\ Tell(i, s, loop)
    /\ UNCHANGED <<files, retries, locking, waiters>>

\* add_file's task publishes.
Publish ==
    /\ loop # <<>> /\ Head(loop).do = "publish"
    /\ Tell(Head(loop).id, Head(loop).to, Tail(loop))
    /\ UNCHANGED <<files, retries, locking, waiters>>

\* handle_file_status_changed.
HandleFileStatusChanged ==
    /\ loop # <<>> /\ Head(loop).do = "write"
    /\ CallFrom([op |-> "update", id |-> Head(loop).id, to |-> Head(loop).to], Tail(loop))

RetryRequested(i) ==
    /\ i < nextId
    /\ nextTask + Waiting("schedule")
                + (IF lock.op = "schedule" THEN 1 ELSE 0) \in Tasks
    /\ Call([op |-> "schedule", id |-> i])

RetryCancelled(i) == i < nextId /\ Call([op |-> "cancel", id |-> i])

AllRetriesCancelled == Call([op |-> "cancel_all"])

\* The sleep of a retry task is over; it asks for the lock.
TimerElapsed(t) ==
    LET c == [op |-> "fire", task |-> t]
    IN  /\ taskState[t] = "sleeping"
        /\ t # victim
        /\ \/ Free /\ Execute(c, loop) /\ UNCHANGED waiters
           \/ Block(c, loop) /\ taskState' = [taskState EXCEPT ![t] = "fired"]

ScanSaw(present) == Call([op |-> "missing", present |-> present])

RetentionEnds == Call([op |-> "old"])

Next ==
    \/ \E p \in Paths : Discovered(p)
    \/ \E i \in Ids, s \in Targets : StatusRequested(i, s)
    \/ \E i \in Ids, s \in Verdicts : ScannerTells(i, s)
    \/ Publish
    \/ HandleFileStatusChanged
    \/ \E i \in Ids : RetryRequested(i)
    \/ \E i \in Ids : RetryCancelled(i)
    \/ AllRetriesCancelled
    \/ \E t \in Tasks : TimerElapsed(t)
    \/ \E present \in SUBSET Paths \ {Paths} : ScanSaw(present)
    \/ RetentionEnds
    \/ Resume
    \/ EndCancel

Spec == Init /\ [][Next]_vars

\* A coroutine that can run is run, and the timeout of wait_for expires.
FairSpec == Spec /\ WF_vars(Resume) /\ WF_vars(EndCancel)

-----------------------------------------------------------------------------
(* Properties.                                                             *)

TypeOK ==
    /\ tracked \subseteq Ids
    /\ path \in [Ids -> Paths \cup {NoPath}]
    /\ status \in [Ids -> Status]
    /\ told \in [Ids -> Status \cup {NoEvent}]
    /\ loop \in Seq([do : {"publish", "write"}, id : Ids, to : Status])
    /\ retryInfo \in [Ids -> BOOLEAN]
    /\ retryTask \in [Ids -> Tasks \cup {0}]
    /\ taskOf \in [Tasks -> Ids \cup {0}]
    /\ taskState \in [Tasks -> {"new", "sleeping", "fired", "done"}]
    /\ lock \in [op : {"free", "update", "schedule", "cancel", "cancel_all"},
                 id : Ids \cup {0}, owed : Status \cup {NoEvent}]
    /\ victim \in Tasks \cup {0}
    /\ todo \subseteq Ids
    /\ waiters \in Seq(Calls)
    /\ nextId \in 1..MaxFiles + 1
    /\ nextTask \in 1..MaxTasks + 1

(***************************************************************************)
(* No retry task runs on behind the registry's back: a task that can still *)
(* fire is the one filed for its entry in _retry_tasks, where a later      *)
(* schedule, cancel or terminal status finds and cancels it.  So an entry  *)
(* never has two retries pending (schedule_retry, lines 482-493).          *)
(***************************************************************************)
NoOrphanRetry ==
    \A t \in Tasks : Live(t) /\ t # victim => retryTask[taskOf[t]] = t

(***************************************************************************)
(* A pending retry of a tracked entry is recorded in its retry_info, which *)
(* the firing task needs in order to act and cancel_all_retries to find it *)
(* (lines 533 and 574).                                                    *)
(***************************************************************************)
PendingRetryRecorded ==
    \A t \in Tasks :
        Live(t) /\ t # victim /\ taskOf[t] \in tracked => retryInfo[taskOf[t]]

(***************************************************************************)
(* What the subscribers were last told of an entry differs from its status *)
(* in five cases only: the entry was found missing; its retry made it      *)
(* READY; the event of the call that holds the lock is still to come; the  *)
(* registry is still to write what they were told, as it is after every    *)
(* event that was not its own or came late; or they are still to hear of   *)
(* the entry at all.                                                       *)
(***************************************************************************)
StillToWrite(i) ==
    \/ \E n \in DOMAIN loop : loop[n] = Write(i, told[i])
    \/ \E n \in DOMAIN waiters : waiters[n] = [op |-> "update", id |-> i, to |-> told[i]]

StillToHear(i) ==
    told[i] = NoEvent /\ \E n \in DOMAIN loop : loop[n] = Publication(i, "DISCOVERED")

ViewLags(i) ==
    \/ status[i] = "REMOVED"
    \/ status[i] = "READY" /\ told[i] = "WAITING_FOR_SPACE"
    \/ lock.op = "update" /\ lock.id = i /\ lock.owed # NoEvent
    \/ StillToWrite(i)
    \/ StillToHear(i)

ViewLagsOnlySilently ==
    \A i \in tracked : told[i] = status[i] \/ ViewLags(i)

\* This step is one of the registry's, and its event.  The events of the
\* scanner and of add_file's task are no part of a change.
Announces(i) ==
    told'[i] \notin {told[i], NoEvent} /\ ~UNCHANGED <<files, retries, locking>>

(***************************************************************************)
(* When the registry tells that an entry is finished its retry is dead     *)
(* already: nothing can make it READY again behind the subscribers' backs  *)
(* (update_file_status_by_id cancels first and publishes afterwards).  The *)
(* scanner's own events are not so careful: a verdict REMOVED or FAILED is *)
(* published while the retry may still be pending.                         *)
(***************************************************************************)
NoRetryPending(i) == \A t \in Tasks : taskOf[t] = i => ~Live(t)

DeadBeforeAnnounced ==
    [][\A i \in Ids :
          Announces(i) /\ told'[i] \in Terminal => NoRetryPending(i)']_vars

(***************************************************************************)
(* An event of the registry is true when it is published: its new_status,  *)
(* fixed before the wait for the cancelled retry task, is still the status *)
(* of the entry after it.  The lock, held through that wait, is what keeps *)
(* every other call from overtaking the event (lines 377-434).             *)
(***************************************************************************)
EventsAreTrue ==
    [][\A i \in Ids : Announces(i) => told'[i] = status'[i]]_vars

(***************************************************************************)
(* A retry whose timer elapsed does not hang behind the lock: it runs, or  *)
(* it is cancelled.                                                        *)
(***************************************************************************)
FiredRetryEnds ==
    \A t \in Tasks : taskState[t] = "fired" ~> taskState[t] = "done"

(***************************************************************************)
(* What the lock protects, in a form every call preserves.  Who holds it:  *)
(* a call is suspended exactly while it waits for a task that can still    *)
(* run, popped from _retry_tasks already; the entries cancel_all_retries   *)
(* has left are as it found them.                                          *)
(***************************************************************************)
LockHolder ==
    /\ lock.op = "free" <=> victim = 0
    /\ victim # 0 => /\ Live(victim)
                     /\ taskOf[victim] = lock.id
                     /\ retryTask[lock.id] = 0
    /\ lock.op \notin {"free", "cancel"} => lock.id \in tracked
    /\ lock.owed # NoEvent => lock.op = "update" /\ lock.owed = status[lock.id]
    /\ todo # {} => lock.op = "cancel_all"
    /\ \A i \in todo : i \in tracked /\ Live(retryTask[i])

\* How the dictionaries hang together: identifiers are handed out in order,
\* and a task that can run sits in the slot of its own entry, if in any.
RetryLinks ==
    /\ \A i \in tracked : i < nextId
    /\ \A i \in Ids : /\ retryTask[i] < nextTask
                      /\ Live(retryTask[i]) => taskOf[retryTask[i]] = i
    /\ \A t \in Tasks : /\ Live(t) => taskOf[t] \in Ids /\ taskOf[t] < nextId
                        /\ t >= nextTask => taskState[t] = "new"

\* Nobody hears of an entry before there is one.
NewsOfEntries ==
    /\ \A i \in Ids : told[i] # NoEvent => i < nextId
    /\ \A n \in DOMAIN loop : loop[n].id < nextId

\* Only a task whose timer elapsed queues on the lock.
QueuedFires ==
    \A k \in DOMAIN waiters :
        waiters[k].op = "fire" => taskState[waiters[k].task] \in {"fired", "done"}

\* The inductive invariant, with the types.
IInv ==
    /\ LockHolder
    /\ RetryLinks
    /\ NewsOfEntries
    /\ QueuedFires
    /\ NoOrphanRetry
    /\ PendingRetryRecorded
    /\ ViewLagsOnlySilently

(***************************************************************************)
(* The methods are atomic, although four of them suspend with the lock     *)
(* held: whoever gets the lock next finds the registry as if the suspended *)
(* method had done all its work when it began, the event of an update      *)
(* included.  The entries cancel_all_retries has still to come to have     *)
(* lost their retries by then, and the one that is rescheduled has kept    *)
(* it.  An event of the scanner, or of add_file's task, changes nothing.   *)
(***************************************************************************)
PendingRetries ==
    {i \in Ids : Live(retryTask[i]) /\ i \notin todo}
        \cup {i \in Ids : lock.op = "schedule" /\ lock.id = i}

Heard == [i \in Ids |-> IF lock.id = i /\ lock.owed # NoEvent THEN lock.owed ELSE told[i]]

Promise == INSTANCE PublishedFiles
               WITH Entries <- Ids, known <- tracked, retry <- PendingRetries, told <- Heard
MethodsAreAtomic == Promise!PublishingSpec
=============================================================================
