------------------------- MODULE StateManagerProofs -------------------------
(***************************************************************************)
(* Proofs about the registry of tracked files, for every number of paths,  *)
(* entries, retry tasks, queued calls and events under way.                *)
(*                                                                         *)
(* The invariant of StateManager is split in three: Registry speaks of the *)
(* entries, the retries and the lock, Queue of the calls behind the lock,  *)
(* News of what the subscribers were told and of the tasks of the event    *)
(* loop.  The bodies of the methods preserve Registry whoever runs them;   *)
(* the ways to run one (at once, from the queue, from the event loop, from *)
(* a timer) differ in what they do to the queue and to the loop only.  At  *)
(* the end, that the methods implement PublishedFiles, where each of them  *)
(* is one step.                                                            *)
(***************************************************************************)
EXTENDS StateManager, SequenceTheorems, TLAPS

TypeRegistry ==
    /\ tracked \subseteq Ids
    /\ path \in [Ids -> Paths \cup {NoPath}]
    /\ status \in [Ids -> Status]
    /\ retryInfo \in [Ids -> BOOLEAN]
    /\ retryTask \in [Ids -> Tasks \cup {0}]
    /\ taskOf \in [Tasks -> Ids \cup {0}]
    /\ taskState \in [Tasks -> {"new", "sleeping", "fired", "done"}]
    /\ lock \in [op : {"free", "update", "schedule", "cancel", "cancel_all"},
                 id : Ids \cup {0}, owed : Status \cup {NoEvent}]
    /\ victim \in Tasks \cup {0}
    /\ todo \subseteq Ids
    /\ nextId \in 1..MaxFiles + 1
    /\ nextTask \in 1..MaxTasks + 1

Registry ==
    /\ TypeRegistry
    /\ LockHolder
    /\ RetryLinks
    /\ NoOrphanRetry
    /\ PendingRetryRecorded

Queue == waiters \in Seq(Calls) /\ QueuedFires

Handles == [do : {"publish", "write"}, id : Ids, to : Status]

News ==
    /\ told \in [Ids -> Status \cup {NoEvent}]
    /\ loop \in Seq(Handles)
    /\ NewsOfEntries
    /\ ViewLagsOnlySilently

\* What a step of the registry owes to the calls in the queue.
FiresStayFired ==
    \A t \in Tasks : taskState[t] \in {"fired", "done"} => taskState'[t] \in {"fired", "done"}

\* The invariant is the conjunction of its three parts.
LEMMA Parts == TypeOK /\ IInv <=> Registry /\ Queue /\ News
  BY DEF IInv, Registry, Queue, News, Handles, TypeOK, TypeRegistry

-----------------------------------------------------------------------------
(* What stands in a queue.                                                 *)

In(x, q) == \E n \in DOMAIN q : q[n] = x

LEMMA InSeq ==
  ASSUME NEW S, NEW q \in Seq(S), NEW x, In(x, q)
  PROVE  x \in S
  BY LenProperties, ElementOfSeq DEF In

LEMMA InAppend ==
  ASSUME NEW S, NEW q \in Seq(S), NEW x \in S
  PROVE  /\ Append(q, x) \in Seq(S)
         /\ \A y : In(y, Append(q, x)) <=> y = x \/ In(y, q)
  <1>1. PICK n \in Nat : n = Len(q)
    BY LenProperties
  <1> DEFINE r == Append(q, x)
  <1>2. /\ r \in Seq(S)
        /\ DOMAIN q = 1..n
        /\ DOMAIN r = 1..n + 1
        /\ \A k \in 1..n : r[k] = q[k]
        /\ r[n + 1] = x
    BY <1>1, AppendProperties, LenProperties
  <1> HIDE DEF r
  <1>3. \A y : In(y, r) <=> y = x \/ In(y, q)
    <2>1. ASSUME NEW y, In(y, r) PROVE y = x \/ In(y, q)
      <3>1. PICK k \in 1..n + 1 : r[k] = y
        BY <1>2, <2>1 DEF In
      <3>2. k = n + 1 \/ k \in 1..n
        BY <3>1
      <3> QED
        BY <1>2, <3>1, <3>2 DEF In
    <2>2. In(x, r)
      <3>1. n + 1 \in DOMAIN r
        BY <1>2
      <3> QED
        BY <1>2, <3>1 DEF In
    <2>3. ASSUME NEW y, In(y, q) PROVE In(y, r)
      <3>1. PICK k \in 1..n : q[k] = y
        BY <1>2, <2>3 DEF In
      <3>2. k \in DOMAIN r /\ r[k] = y
        BY <1>2, <3>1
      <3> QED
        BY <3>2 DEF In
    <2> QED
      BY <2>1, <2>2, <2>3
  <1> QED
    BY <1>2, <1>3 DEF r

LEMMA InTail ==
  ASSUME NEW S, NEW q \in Seq(S), q # <<>>
  PROVE  /\ Head(q) \in S /\ Tail(q) \in Seq(S) /\ In(Head(q), q)
         /\ \A y : In(y, q) <=> y = Head(q) \/ In(y, Tail(q))
  <1>1. PICK n \in Nat : n = Len(q) /\ n > 0
    BY LenProperties, EmptySeq
  <1> DEFINE r == Tail(q)
             h == Head(q)
  <1>2. /\ h \in S /\ r \in Seq(S) /\ h = q[1]
        /\ DOMAIN q = 1..n /\ DOMAIN r = 1..n - 1
        /\ \A k \in 1..n - 1 : r[k] = q[k + 1]
    BY <1>1, HeadTailProperties, LenProperties
  <1> HIDE DEF r, h
  <1>3. In(h, q)
    BY <1>1, <1>2 DEF In
  <1>4. ASSUME NEW y, In(y, q) PROVE y = h \/ In(y, r)
    <2>1. PICK k \in 1..n : q[k] = y
      BY <1>2, <1>4 DEF In
    <2>2. CASE k = 1
      BY <1>2, <2>1, <2>2
    <2>3. CASE k # 1
      <3>1. k - 1 \in DOMAIN r /\ r[k - 1] = y
        BY <1>1, <1>2, <2>1, <2>3
      <3> QED
        BY <3>1 DEF In
    <2> QED
      BY <2>2, <2>3
  <1>5. ASSUME NEW y, In(y, r) PROVE In(y, q)
    <2>1. PICK k \in 1..n - 1 : r[k] = y
      BY <1>2, <1>5 DEF In
    <2>2. k + 1 \in DOMAIN q /\ q[k + 1] = y
      BY <1>1, <1>2, <2>1
    <2> QED
      BY <2>2 DEF In
  <1> QED
    BY <1>2, <1>3, <1>4, <1>5 DEF r, h

-----------------------------------------------------------------------------
(* The bodies of the methods, and the entries, the retries and the lock.   *)

\* Nothing the registry holds has changed.
LEMMA RegistryKept ==
  ASSUME Registry, UNCHANGED <<files, retries, locking>>
  PROVE  Registry' /\ FiresStayFired
  BY DEF Registry, files, retries, locking, TypeRegistry, LockHolder, RetryLinks,
         NoOrphanRetry, PendingRetryRecorded, Live, FiresStayFired

\* add_file preserves the registry (lines 134-177).
LEMMA AddFileOK ==
  ASSUME Registry, lock.op = "free", NEW p \in Paths, NEW rest, AddFile(p, rest)
  PROVE  Registry' /\ FiresStayFired
  <1>0. /\ UNCHANGED <<retryInfo, retryTask, taskOf, taskState, nextTask>>
        /\ UNCHANGED <<lock, victim, todo>>
    BY DEF AddFile, retries, locking
  <1>1. CASE UNCHANGED files
    BY <1>0, <1>1, RegistryKept DEF retries, locking
  <1>2. CASE ~UNCHANGED files
    <2>1. /\ nextId \in Ids
          /\ tracked' = tracked \cup {nextId}
          /\ path' = [path EXCEPT ![nextId] = p]
          /\ status' = [status EXCEPT ![nextId] = "DISCOVERED"]
          /\ nextId' = nextId + 1
      BY <1>2 DEF AddFile
    <2>2. TypeRegistry'
      BY <1>0, <2>1, BoundsAssumption DEF Registry, TypeRegistry, Status, Ids
    <2>3. LockHolder'
      BY <1>0, <2>1 DEF Registry, TypeRegistry, LockHolder, Live
    <2>4. RetryLinks'
      BY <1>0, <2>1 DEF Registry, TypeRegistry, RetryLinks, Live, Ids, Tasks
    <2>5. NoOrphanRetry'
      BY <1>0, <2>1 DEF Registry, NoOrphanRetry, Live
    <2>6. PendingRetryRecorded'
      BY <1>0, <2>1 DEF Registry, TypeRegistry, RetryLinks, PendingRetryRecorded, Live, Ids, Tasks
    <2> QED
      BY <1>0, <2>2, <2>3, <2>4, <2>5, <2>6 DEF Registry, FiresStayFired
  <1> QED
    BY <1>1, <1>2

\* A call that starts to cancel: the window opens on a consistent registry
\* (_cancel_existing_retry_unlocked, lines 507-516).
LEMMA StartCancelOK ==
  ASSUME TypeRegistry, RetryLinks, NoOrphanRetry, PendingRetryRecorded, victim = 0,
         NEW i \in Ids, NEW op, NEW owed, StartCancel(i, op, owed),
         op = "free" <=> FALSE, tracked' = tracked, nextId' = nextId
  PROVE  /\ victim' \in Tasks /\ Live(victim)' /\ taskOf'[victim'] = i
         /\ retryTask' \in [Ids -> Tasks \cup {0}] /\ retryTask'[i] = 0
         /\ RetryLinks' /\ NoOrphanRetry' /\ PendingRetryRecorded' /\ FiresStayFired
  <1>1. /\ victim' = retryTask[i] /\ Live(retryTask[i])
        /\ retryTask' = [retryTask EXCEPT ![i] = 0]
        /\ UNCHANGED <<retryInfo, taskOf, taskState, nextTask>>
    BY DEF StartCancel
  <1>2. retryTask[i] \in Tasks /\ taskOf[retryTask[i]] = i
    BY <1>1 DEF TypeRegistry, RetryLinks, Live
  <1>3. RetryLinks'
    BY <1>1 DEF TypeRegistry, RetryLinks, Live, Tasks
  <1>4. NoOrphanRetry'
    BY <1>1 DEF TypeRegistry, RetryLinks, NoOrphanRetry, Live
  <1>5. PendingRetryRecorded'
    BY <1>1 DEF TypeRegistry, PendingRetryRecorded, Live
  <1> QED
    BY <1>1, <1>2, <1>3, <1>4, <1>5 DEF TypeRegistry, Live, FiresStayFired

\* Slots that hold no live task may be emptied, and their retry_info with
\* them: nothing that can still fire is forgotten (lines 518-526).
LEMMA ForgettingOK ==
  ASSUME TypeRegistry, RetryLinks, NoOrphanRetry, PendingRetryRecorded,
         retryTask' \in [Ids -> Tasks \cup {0}], retryInfo' \in [Ids -> BOOLEAN],
         \A j \in Ids : \/ retryTask'[j] = retryTask[j] /\ retryInfo'[j] = retryInfo[j]
                        \/ retryTask'[j] = 0 /\ ~Live(retryTask[j]),
         victim = 0, victim' = 0,
         UNCHANGED <<tracked, nextId, taskOf, taskState, nextTask>>
  PROVE  RetryLinks' /\ NoOrphanRetry' /\ PendingRetryRecorded'
  <1>1. RetryLinks'
    BY DEF TypeRegistry, RetryLinks, Live, Tasks
  <1>2. NoOrphanRetry' /\ PendingRetryRecorded'
    BY DEF TypeRegistry, RetryLinks, NoOrphanRetry, PendingRetryRecorded, Live
  <1> QED
    BY <1>1, <1>2

\* update_file_status_by_id preserves the registry (lines 377-434).
LEMMA UpdateStatusOK ==
  ASSUME Registry, lock.op = "free", NEW i \in Ids, NEW s \in Status, NEW rest,
         UpdateStatus(i, s, rest)
  PROVE  Registry' /\ FiresStayFired
  <1>0. victim = 0 /\ todo = {} /\ lock.owed = NoEvent
    BY DEF Registry, TypeRegistry, LockHolder
  <1>1. CASE UNCHANGED <<files, retries, locking>>
    BY <1>1, RegistryKept
  <1>2. CASE /\ i \in tracked
             /\ status' = [status EXCEPT ![i] = s]
             /\ UNCHANGED <<tracked, path, nextId, todo>>
             /\ StartCancel(i, "update", IF status[i] # s THEN s ELSE NoEvent)
    <2>1. /\ victim' \in Tasks /\ Live(victim)' /\ taskOf'[victim'] = i
          /\ retryTask' \in [Ids -> Tasks \cup {0}] /\ retryTask'[i] = 0
          /\ RetryLinks' /\ NoOrphanRetry' /\ PendingRetryRecorded' /\ FiresStayFired
      BY <1>0, <1>2, StartCancelOK DEF Registry
    <2>2. /\ lock' = [op |-> "update", id |-> i, owed |-> IF status[i] # s THEN s ELSE NoEvent]
          /\ UNCHANGED <<retryInfo, taskOf, taskState, nextTask>>
      BY <1>2 DEF StartCancel
    <2>3. TypeRegistry'
      BY <1>2, <2>1, <2>2 DEF Registry, TypeRegistry
    <2>4. LockHolder'
      BY <1>0, <1>2, <2>1, <2>2, <2>3 DEF LockHolder, TypeRegistry, Registry, Tasks
    <2> QED
      BY <2>1, <2>3, <2>4 DEF Registry
  <1>3. CASE /\ i \in tracked
             /\ status' = [status EXCEPT ![i] = s]
             /\ UNCHANGED <<tracked, path, nextId, todo, lock, victim>>
             /\ \/ ForgetRetry(i) /\ UNCHANGED <<taskOf, taskState, nextTask>>
                \/ UNCHANGED <<retryInfo, retryTask, taskOf, taskState, nextTask>>
    <2>1. /\ retryTask' \in [Ids -> Tasks \cup {0}]
          /\ retryInfo' \in [Ids -> BOOLEAN]
          /\ \A j \in Ids : \/ retryTask'[j] = retryTask[j] /\ retryInfo'[j] = retryInfo[j]
                            \/ retryTask'[j] = 0 /\ ~Live(retryTask[j])
          /\ UNCHANGED <<taskOf, taskState, nextTask>>
      BY <1>3 DEF ForgetRetry, Registry, TypeRegistry
    <2>2. TypeRegistry'
      BY <1>3, <2>1 DEF Registry, TypeRegistry
    <2>3. LockHolder'
      BY <1>0, <1>3 DEF Registry, TypeRegistry, LockHolder
    <2>4. RetryLinks' /\ NoOrphanRetry' /\ PendingRetryRecorded'
      BY <1>0, <1>3, <2>1, ForgettingOK DEF Registry
    <2> QED
      BY <1>3, <2>1, <2>2, <2>3, <2>4 DEF Registry, FiresStayFired
  <1> QED
    BY <1>1, <1>2, <1>3 DEF UpdateStatus, retries

\* The second half of schedule_retry, with no task pending for the entry, or
\* with the one that is dying (lines 483-493).
LEMMA StartRetryOK ==
  ASSUME TypeRegistry, RetryLinks, NoOrphanRetry, PendingRetryRecorded,
         NEW i \in Ids, i \in tracked, StartRetry(i),
         \A t \in Tasks : Live(t) /\ taskOf[t] = i => t = victim,
         \/ victim = 0 /\ Sleeps(i)
         \/ /\ taskState' = [taskState EXCEPT ![victim] = "done", ![nextTask] = "sleeping"]
            /\ taskOf' = [taskOf EXCEPT ![victim] = 0, ![nextTask] = i],
         victim # 0 => Live(victim), victim' = 0, UNCHANGED <<tracked, nextId>>
  PROVE  /\ retryInfo' \in [Ids -> BOOLEAN]
         /\ retryTask' \in [Ids -> Tasks \cup {0}]
         /\ taskOf' \in [Tasks -> Ids \cup {0}]
         /\ taskState' \in [Tasks -> {"new", "sleeping", "fired", "done"}]
         /\ nextTask' \in 1..MaxTasks + 1
         /\ RetryLinks' /\ NoOrphanRetry' /\ PendingRetryRecorded' /\ FiresStayFired
  <1>1. /\ nextTask \in Tasks
        /\ retryInfo' = [retryInfo EXCEPT ![i] = TRUE]
        /\ retryTask' = [retryTask EXCEPT ![i] = nextTask]
        /\ nextTask' = nextTask + 1
    BY DEF StartRetry
  <1>2. taskState[nextTask] = "new" /\ victim # nextTask /\ i < nextId /\ i # 0
    BY <1>1 DEF TypeRegistry, RetryLinks, Live, Tasks, Ids
  <1>3. /\ taskState'[nextTask] = "sleeping" /\ taskOf'[nextTask] = i
        /\ \A t \in Tasks \ {nextTask} :
              /\ taskState'[t] = IF t = victim THEN "done" ELSE taskState[t]
              /\ taskOf'[t] = IF t = victim THEN 0 ELSE taskOf[t]
        /\ taskState' \in [Tasks -> {"new", "sleeping", "fired", "done"}]
        /\ taskOf' \in [Tasks -> Ids \cup {0}]
    <2>1. CASE victim = 0 /\ Sleeps(i)
      BY <1>1, <1>2, <2>1 DEF TypeRegistry, Tasks, Sleeps
    <2>2. CASE /\ taskState' = [taskState EXCEPT ![victim] = "done", ![nextTask] = "sleeping"]
               /\ taskOf' = [taskOf EXCEPT ![victim] = 0, ![nextTask] = i]
      BY <1>1, <1>2, <2>2 DEF TypeRegistry, Tasks
    <2> QED
      BY <2>1, <2>2
  <1>4. /\ retryInfo' \in [Ids -> BOOLEAN]
        /\ retryTask' \in [Ids -> Tasks \cup {0}]
        /\ nextTask' \in 1..MaxTasks + 1
    BY <1>1, BoundsAssumption DEF TypeRegistry, Tasks
  <1>5. RetryLinks'
    <2>1. \A j \in tracked' : j < nextId'
      BY DEF RetryLinks
    <2>2. ASSUME NEW j \in Ids
          PROVE  /\ retryTask'[j] < nextTask'
                 /\ Live(retryTask[j])' => taskOf'[retryTask'[j]] = j
      <3>1. CASE j = i
        BY <1>1, <1>3, <3>1 DEF TypeRegistry, Tasks
      <3>2. CASE j # i
        <4>1. retryTask'[j] = retryTask[j] /\ retryTask[j] < nextTask
          BY <1>1, <3>2 DEF TypeRegistry, RetryLinks
        <4> QED
          BY <1>1, <1>3, <4>1 DEF TypeRegistry, RetryLinks, Tasks, Live
      <3> QED
        BY <3>1, <3>2
    <2>3. ASSUME NEW t \in Tasks
          PROVE  /\ Live(t)' => taskOf'[t] \in Ids /\ taskOf'[t] < nextId'
                 /\ t >= nextTask' => taskState'[t] = "new"
      BY <1>1, <1>2, <1>3 DEF TypeRegistry, RetryLinks, Tasks, Live
    <2> QED
      BY <2>1, <2>2, <2>3 DEF RetryLinks
  <1>6. NoOrphanRetry'
    <2> SUFFICES ASSUME NEW t \in Tasks, Live(t)'
                 PROVE  retryTask'[taskOf'[t]] = t
      BY DEF NoOrphanRetry
    <2>1. CASE t = nextTask
      BY <1>1, <1>3, <2>1 DEF TypeRegistry
    <2>2. CASE t # nextTask
      <3>1. Live(t) /\ t # victim /\ taskOf'[t] = taskOf[t]
        BY <1>3, <2>2 DEF Live
      <3>2. taskOf[t] \in Ids /\ taskOf[t] # i /\ retryTask[taskOf[t]] = t
        BY <3>1 DEF NoOrphanRetry, RetryLinks
      <3> QED
        BY <1>1, <3>1, <3>2 DEF TypeRegistry
    <2> QED
      BY <2>1, <2>2
  <1>7. PendingRetryRecorded'
    <2> SUFFICES ASSUME NEW t \in Tasks, Live(t)', taskOf'[t] \in tracked
                 PROVE  retryInfo'[taskOf'[t]]
      BY DEF PendingRetryRecorded
    <2> QED
      BY <1>1, <1>3 DEF TypeRegistry, PendingRetryRecorded, Live
  <1>8. FiresStayFired
    BY <1>2, <1>3 DEF FiresStayFired
  <1> QED
    BY <1>3, <1>4, <1>5, <1>6, <1>7, <1>8

\* schedule_retry preserves the registry (lines 474-501).
LEMMA ScheduleRetryOK ==
  ASSUME Registry, lock.op = "free", NEW i \in Ids, ScheduleRetry(i)
  PROVE  Registry' /\ FiresStayFired
  <1>0. /\ victim = 0 /\ todo = {} /\ lock.owed = NoEvent
        /\ UNCHANGED <<tracked, path, status, nextId>>
    BY DEF Registry, TypeRegistry, LockHolder, ScheduleRetry, files
  <1>1. CASE UNCHANGED <<retries, locking>>
    BY <1>0, <1>1, RegistryKept DEF files
  <1>2. CASE i \in tracked /\ StartCancel(i, "schedule", NoEvent) /\ UNCHANGED todo
    <2>1. /\ victim' \in Tasks /\ Live(victim)' /\ taskOf'[victim'] = i
          /\ retryTask' \in [Ids -> Tasks \cup {0}] /\ retryTask'[i] = 0
          /\ RetryLinks' /\ NoOrphanRetry' /\ PendingRetryRecorded' /\ FiresStayFired
      BY <1>0, <1>2, StartCancelOK DEF Registry
    <2>2. /\ lock' = [op |-> "schedule", id |-> i, owed |-> NoEvent]
          /\ UNCHANGED <<retryInfo, taskOf, taskState, nextTask>>
      BY <1>2 DEF StartCancel
    <2>3. TypeRegistry'
      BY <1>0, <1>2, <2>1, <2>2 DEF Registry, TypeRegistry
    <2>4. LockHolder'
      BY <1>0, <1>2, <2>1, <2>2, <2>3 DEF LockHolder, TypeRegistry, Registry, Tasks
    <2> QED
      BY <2>1, <2>3, <2>4 DEF Registry
  <1>3. CASE /\ i \in tracked /\ ~Live(retryTask[i]) /\ StartRetry(i) /\ Sleeps(i)
             /\ UNCHANGED locking
    <2>1. UNCHANGED <<lock, victim, todo>>
      BY <1>3 DEF locking
    <2>2. \A t \in Tasks : Live(t) /\ taskOf[t] = i => t = victim
      BY <1>0, <1>3 DEF Registry, NoOrphanRetry, Live
    <2>3. /\ retryInfo' \in [Ids -> BOOLEAN]
          /\ retryTask' \in [Ids -> Tasks \cup {0}]
          /\ taskOf' \in [Tasks -> Ids \cup {0}]
          /\ taskState' \in [Tasks -> {"new", "sleeping", "fired", "done"}]
          /\ nextTask' \in 1..MaxTasks + 1
          /\ RetryLinks' /\ NoOrphanRetry' /\ PendingRetryRecorded' /\ FiresStayFired
      BY <1>0, <1>3, <2>1, <2>2, StartRetryOK DEF Registry
    <2>4. TypeRegistry'
      BY <1>0, <2>1, <2>3 DEF Registry, TypeRegistry
    <2>5. LockHolder'
      BY <1>0, <2>1 DEF Registry, LockHolder
    <2> QED
      BY <2>3, <2>4, <2>5 DEF Registry
  <1> QED
    BY <1>1, <1>2, <1>3 DEF ScheduleRetry

\* cancel_retry preserves the registry (lines 503-526).
LEMMA CancelRetryOK ==
  ASSUME Registry, lock.op = "free", NEW i \in Ids, CancelRetry(i)
  PROVE  Registry' /\ FiresStayFired
  <1>0. /\ victim = 0 /\ todo = {} /\ lock.owed = NoEvent
        /\ UNCHANGED <<tracked, path, status, nextId>>
    BY DEF Registry, TypeRegistry, LockHolder, CancelRetry, files
  <1>1. CASE StartCancel(i, "cancel", NoEvent) /\ UNCHANGED todo
    <2>1. /\ victim' \in Tasks /\ Live(victim)' /\ taskOf'[victim'] = i
          /\ retryTask' \in [Ids -> Tasks \cup {0}] /\ retryTask'[i] = 0
          /\ RetryLinks' /\ NoOrphanRetry' /\ PendingRetryRecorded' /\ FiresStayFired
      BY <1>0, <1>1, StartCancelOK DEF Registry
    <2>2. /\ lock' = [op |-> "cancel", id |-> i, owed |-> NoEvent]
          /\ UNCHANGED <<retryInfo, taskOf, taskState, nextTask>>
      BY <1>1 DEF StartCancel
    <2>3. TypeRegistry'
      BY <1>0, <1>1, <2>1, <2>2 DEF Registry, TypeRegistry
    <2>4. LockHolder'
      BY <1>0, <1>1, <2>1, <2>2, <2>3 DEF LockHolder, TypeRegistry, Registry, Tasks
    <2> QED
      BY <2>1, <2>3, <2>4 DEF Registry
  <1>2. CASE ForgetRetry(i) /\ UNCHANGED <<taskOf, taskState, nextTask, locking>>
    <2>1. /\ retryTask' \in [Ids -> Tasks \cup {0}]
          /\ retryInfo' \in [Ids -> BOOLEAN]
          /\ \A j \in Ids : \/ retryTask'[j] = retryTask[j] /\ retryInfo'[j] = retryInfo[j]
                            \/ retryTask'[j] = 0 /\ ~Live(retryTask[j])
          /\ UNCHANGED <<lock, victim, todo>>
      BY <1>2 DEF ForgetRetry, Registry, TypeRegistry, locking
    <2>2. TypeRegistry'
      BY <1>0, <1>2, <2>1 DEF Registry, TypeRegistry
    <2>3. LockHolder'
      BY <1>0, <2>1 DEF Registry, LockHolder
    <2>4. RetryLinks' /\ NoOrphanRetry' /\ PendingRetryRecorded'
      BY <1>0, <1>2, <2>1, ForgettingOK DEF Registry
    <2> QED
      BY <1>2, <2>2, <2>3, <2>4 DEF Registry, FiresStayFired
  <1> QED
    BY <1>1, <1>2 DEF CancelRetry

\* cancel_all_retries preserves the registry (lines 567-580).
LEMMA CancelAllOK ==
  ASSUME Registry, lock.op = "free", CancelAllRetries
  PROVE  Registry' /\ FiresStayFired
  <1> DEFINE recorded == {j \in tracked : retryInfo[j]}
             running == {j \in recorded : Live(retryTask[j])}
             over == recorded \ running
  <1>0. /\ victim = 0 /\ todo = {} /\ lock.owed = NoEvent
        /\ UNCHANGED <<tracked, path, status, nextId, taskOf, taskState, nextTask>>
    BY DEF Registry, TypeRegistry, LockHolder, CancelAllRetries, files
  <1>1. /\ retryInfo' = Reset(retryInfo, over, FALSE)
        /\ \/ retryTask' = Reset(retryTask, over, 0) /\ UNCHANGED locking
           \/ \E i \in running :
                 /\ victim' = retryTask[i]
                 /\ retryTask' = Reset(retryTask, over \cup {i}, 0)
                 /\ lock' = [op |-> "cancel_all", id |-> i, owed |-> NoEvent]
                 /\ todo' = running \ {i}
    BY DEF CancelAllRetries
  <1>2. \A j \in over : ~Live(retryTask[j])
    OBVIOUS
  <1>3. running \subseteq Ids /\ (\A j \in running : j \notin over)
    BY DEF Registry, TypeRegistry
  <1> HIDE DEF over
  <1>4. CASE retryTask' = Reset(retryTask, over, 0) /\ UNCHANGED locking
    <2>1. /\ retryTask' \in [Ids -> Tasks \cup {0}]
          /\ retryInfo' \in [Ids -> BOOLEAN]
          /\ \A j \in Ids : \/ retryTask'[j] = retryTask[j] /\ retryInfo'[j] = retryInfo[j]
                            \/ retryTask'[j] = 0 /\ ~Live(retryTask[j])
          /\ UNCHANGED <<lock, victim, todo>>
      BY <1>1, <1>2, <1>4 DEF Registry, TypeRegistry, locking, Reset
    <2>2. TypeRegistry'
      BY <1>0, <2>1 DEF Registry, TypeRegistry
    <2>3. LockHolder'
      BY <1>0, <2>1 DEF Registry, LockHolder
    <2>4. RetryLinks' /\ NoOrphanRetry' /\ PendingRetryRecorded'
      BY <1>0, <2>1, ForgettingOK DEF Registry
    <2> QED
      BY <1>0, <2>2, <2>3, <2>4 DEF Registry, FiresStayFired
  <1>5. ASSUME NEW i \in running,
               victim' = retryTask[i],
               retryTask' = Reset(retryTask, over \cup {i}, 0),
               lock' = [op |-> "cancel_all", id |-> i, owed |-> NoEvent],
               todo' = running \ {i}
        PROVE  Registry' /\ FiresStayFired
    <2>1. /\ i \in tracked /\ i \in Ids /\ Live(retryTask[i])
          /\ retryTask[i] \in Tasks /\ taskOf[retryTask[i]] = i
      BY <1>3 DEF Registry, TypeRegistry, RetryLinks, Live
    <2>2. /\ retryTask' \in [Ids -> Tasks \cup {0}] /\ retryTask'[i] = 0
          /\ retryInfo' \in [Ids -> BOOLEAN]
          /\ \A j \in Ids \ {i} :
                \/ retryTask'[j] = retryTask[j] /\ retryInfo'[j] = retryInfo[j]
                \/ retryTask'[j] = 0 /\ ~Live(retryTask[j])
          /\ \A j \in running \ {i} : retryTask'[j] = retryTask[j]
      BY <1>1, <1>2, <1>3, <1>5, <2>1 DEF Registry, TypeRegistry, Reset
    <2> HIDE DEF running
    <2>3. TypeRegistry'
      BY <1>0, <1>3, <1>5, <2>1, <2>2 DEF Registry, TypeRegistry
    <2>4. LockHolder'
      <3>1. \A j \in running : j \in tracked /\ Live(retryTask[j])
        BY DEF running
      <3> QED
        BY <1>0, <1>5, <2>1, <2>2, <3>1 DEF LockHolder, Live, Tasks
    <2>5. RetryLinks'
      BY <1>0, <2>1, <2>2 DEF Registry, TypeRegistry, RetryLinks, Live, Tasks
    <2>6. ASSUME NEW t \in Tasks, Live(t)', t # victim'
          PROVE  /\ retryTask'[taskOf'[t]] = t
                 /\ taskOf'[t] \in tracked' => retryInfo'[taskOf'[t]]
      <3>1. Live(t) /\ t # 0 /\ taskOf[t] \in Ids
        BY <1>0, <2>6 DEF Live, Registry, RetryLinks
      <3>2. /\ retryTask[taskOf[t]] = t
            /\ taskOf[t] \in tracked => retryInfo[taskOf[t]]
        BY <1>0, <3>1 DEF Registry, NoOrphanRetry, PendingRetryRecorded
      <3>3. taskOf[t] # i
        BY <1>5, <2>6, <3>2
      <3> QED
        BY <1>0, <2>2, <3>1, <3>2, <3>3
    <2>7. NoOrphanRetry' /\ PendingRetryRecorded'
      BY <2>6 DEF NoOrphanRetry, PendingRetryRecorded
    <2> QED
      BY <1>0, <2>3, <2>4, <2>5, <2>7 DEF Registry, FiresStayFired
  <1> QED
    BY <1>1, <1>4, <1>5

\* _execute_retry_task preserves the registry (lines 528-565).
LEMMA FireRetryOK ==
  ASSUME Registry, lock.op = "free", NEW t \in Tasks,
         taskState[t] \in {"sleeping", "fired"}, FireRetry(t)
  PROVE  Registry' /\ FiresStayFired
  <1> DEFINE i == taskOf[t]
  <1>0. /\ victim = 0 /\ todo = {} /\ lock.owed = NoEvent
        /\ UNCHANGED <<tracked, path, nextId, nextTask>>
        /\ UNCHANGED <<lock, victim, todo>>
        /\ taskState' = [taskState EXCEPT ![t] = "done"]
        /\ taskOf' = [taskOf EXCEPT ![t] = 0]
    BY DEF Registry, TypeRegistry, LockHolder, FireRetry, locking
  <1>1. /\ Live(t) /\ t # 0 /\ i \in Ids /\ retryTask[i] = t
        /\ \A u \in Tasks : /\ taskState'[u] = IF u = t THEN "done" ELSE taskState[u]
                            /\ taskOf'[u] = IF u = t THEN 0 ELSE taskOf[u]
    BY <1>0 DEF Registry, TypeRegistry, NoOrphanRetry, RetryLinks, Live, Tasks
  <1>2. \A u \in Tasks \ {t} : Live(u) => taskOf[u] # i
    BY <1>0, <1>1 DEF Registry, NoOrphanRetry, Live
  <1>3. \/ UNCHANGED <<status, retryInfo, retryTask>>
        \/ /\ i \in tracked /\ status[i] = "WAITING_FOR_SPACE"
           /\ status' = [status EXCEPT ![i] = "READY"]
           /\ retryInfo' = [retryInfo EXCEPT ![i] = FALSE]
           /\ retryTask' = [retryTask EXCEPT ![i] = 0]
    BY DEF FireRetry
  <1> HIDE DEF i
  <1>4. TypeRegistry'
    BY <1>0, <1>1, <1>3 DEF Registry, TypeRegistry, Status
  <1>5. LockHolder'
    BY <1>0 DEF Registry, LockHolder
  <1>6. RetryLinks'
    BY <1>0, <1>1, <1>3 DEF Registry, TypeRegistry, RetryLinks, Live, Tasks
  <1>7. NoOrphanRetry' /\ PendingRetryRecorded'
    <2> SUFFICES ASSUME NEW u \in Tasks, Live(u)'
                 PROVE  /\ retryTask'[taskOf'[u]] = u
                        /\ taskOf'[u] \in tracked' => retryInfo'[taskOf'[u]]
      BY DEF NoOrphanRetry, PendingRetryRecorded
    <2>1. u # t /\ Live(u) /\ taskOf[u] # i /\ taskOf[u] \in Ids /\ taskOf'[u] = taskOf[u]
      BY <1>1, <1>2 DEF Live, Registry, RetryLinks
    <2>2. retryTask[taskOf[u]] = u /\ (taskOf[u] \in tracked => retryInfo[taskOf[u]])
      BY <1>0, <2>1 DEF Registry, NoOrphanRetry, PendingRetryRecorded, Live
    <2> QED
      BY <1>0, <1>3, <2>1, <2>2 DEF Registry, TypeRegistry
  <1>8. FiresStayFired
    BY <1>1 DEF FiresStayFired
  <1> QED
    BY <1>4, <1>5, <1>6, <1>7, <1>8 DEF Registry

\* cleanup_missing_files preserves the registry (lines 300-334).
LEMMA CleanupMissingOK ==
  ASSUME Registry, lock.op = "free", NEW present, CleanupMissing(present)
  PROVE  Registry' /\ FiresStayFired
  <1>0. /\ UNCHANGED <<tracked, path, nextId>>
        /\ UNCHANGED <<retryInfo, retryTask, taskOf, taskState, nextTask>>
        /\ UNCHANGED <<lock, victim, todo>>
    BY DEF CleanupMissing, retries, locking
  <1>1. status' \in [Ids -> Status]
    BY DEF CleanupMissing, Reset, Registry, TypeRegistry, Status
  <1>2. TypeRegistry'
    BY <1>0, <1>1 DEF Registry, TypeRegistry
  <1>3. LockHolder' /\ RetryLinks' /\ NoOrphanRetry' /\ PendingRetryRecorded'
    BY <1>0 DEF Registry, LockHolder, RetryLinks, NoOrphanRetry, PendingRetryRecorded, Live
  <1> QED
    BY <1>0, <1>2, <1>3 DEF Registry, FiresStayFired

\* cleanup_old_files preserves the registry (lines 336-365).
LEMMA CleanupOldOK ==
  ASSUME Registry, lock.op = "free", NEW old, CleanupOld(old)
  PROVE  Registry' /\ FiresStayFired
  <1>0. /\ tracked' = tracked \ old /\ nextId' = nextId
        /\ retryInfo' = Reset(retryInfo, old, FALSE)
        /\ UNCHANGED <<retryTask, taskOf, taskState, nextTask>>
        /\ UNCHANGED <<lock, victim, todo>>
    BY DEF CleanupOld, locking
  <1>1. /\ path' \in [Ids -> Paths \cup {NoPath}]
        /\ status' \in [Ids -> Status]
        /\ retryInfo' \in [Ids -> BOOLEAN]
    BY DEF CleanupOld, Reset, Registry, TypeRegistry, Status
  <1>2. TypeRegistry'
    BY <1>0, <1>1 DEF Registry, TypeRegistry
  <1>3. LockHolder' /\ RetryLinks' /\ NoOrphanRetry'
    BY <1>0 DEF Registry, LockHolder, RetryLinks, NoOrphanRetry, Live
  <1>4. PendingRetryRecorded'
    BY <1>0 DEF Registry, TypeRegistry, PendingRetryRecorded, Live, Reset
  <1> QED
    BY <1>0, <1>2, <1>3, <1>4 DEF Registry, FiresStayFired

\* What the call behind the lock brings with it.
LEMMA CallTypes ==
  ASSUME NEW c \in Calls
  PROVE  /\ c.op = "add" => c.path \in Paths
         /\ c.op = "update" => c = [op |-> "update", id |-> c.id, to |-> c.to]
                               /\ c.id \in Ids /\ c.to \in Status
         /\ c.op \in {"schedule", "cancel"} => c.id \in Ids
         /\ c.op = "fire" => c.task \in Tasks
  BY DEF Calls

\* Whatever the call, its body preserves the registry.
LEMMA ExecuteOK ==
  ASSUME Registry, lock.op = "free", NEW c \in Calls, NEW rest, Execute(c, rest),
         c.op = "fire" => taskState[c.task] \in {"sleeping", "fired"}
  PROVE  Registry' /\ FiresStayFired
  BY CallTypes, AddFileOK, UpdateStatusOK, ScheduleRetryOK, CancelRetryOK, CancelAllOK,
     FireRetryOK, CleanupMissingOK, CleanupOldOK DEF Execute

-----------------------------------------------------------------------------
(* The calls behind the lock, and the end of a wait.                       *)

\* A step that leaves the queue as it was.
LEMMA QueueKept ==
  ASSUME Queue, FiresStayFired, UNCHANGED waiters
  PROVE  Queue'
  <1>1. waiters' \in Seq(Calls)
    BY DEF Queue
  <1>2. ASSUME NEW k \in DOMAIN waiters, waiters[k].op = "fire"
        PROVE  taskState'[waiters[k].task] \in {"fired", "done"}
    <2>1. waiters[k].task \in Tasks
      BY <1>2, LenProperties, ElementOfSeq, CallTypes DEF Queue
    <2> QED
      BY <1>2, <2>1 DEF Queue, QueuedFires, FiresStayFired
  <1> QED
    BY <1>1, <1>2 DEF Queue, QueuedFires

\* A call joins the queue.  Its taskState is the new one of the step.
LEMMA BlockOK ==
  ASSUME Registry, Queue, FiresStayFired, NEW c \in Calls, NEW rest, Block(c, rest),
         taskState' \in [Tasks -> {"new", "sleeping", "fired", "done"}],
         \A t \in Tasks : taskState'[t] # taskState[t]
                              => taskState[t] = "sleeping" /\ taskState'[t] = "fired",
         c.op = "fire" => taskState'[c.task] = "fired"
  PROVE  Registry' /\ Queue'
  <1>0. /\ UNCHANGED <<tracked, path, status, nextId>>
        /\ UNCHANGED <<retryInfo, retryTask, taskOf, nextTask, lock, victim, todo>>
        /\ waiters' = Append(waiters, c)
    BY DEF Block, files, locking
  <1>1. \A t : t = 0 \/ t \in Tasks =>
                  /\ Live(t)' <=> Live(t)
                  /\ t # 0 => (taskState'[t] = "new" <=> taskState[t] = "new")
    BY DEF Live
  <1>2. TypeRegistry'
    BY <1>0 DEF Registry, TypeRegistry
  <1>3. LockHolder'
    BY <1>0, <1>1 DEF Registry, TypeRegistry, LockHolder
  <1>4. RetryLinks'
    BY <1>0, <1>1 DEF Registry, TypeRegistry, RetryLinks, Tasks
  <1>5. NoOrphanRetry' /\ PendingRetryRecorded'
    BY <1>0, <1>1 DEF Registry, NoOrphanRetry, PendingRetryRecorded
  <1>6. waiters' \in Seq(Calls)
    BY <1>0, AppendProperties DEF Queue
  <1>7. QueuedFires'
    <2> SUFFICES ASSUME NEW x, In(x, waiters'), x.op = "fire"
                 PROVE  taskState'[x.task] \in {"fired", "done"}
      BY DEF QueuedFires, In
    <2>1. x = c \/ In(x, waiters)
      BY <1>0, InAppend DEF Queue
    <2>2. CASE x = c
      BY <2>2
    <2>3. CASE In(x, waiters)
      <3>1. x.task \in Tasks
        BY <2>3, InSeq, CallTypes DEF Queue
      <3>2. taskState[x.task] \in {"fired", "done"}
        BY <2>3 DEF Queue, QueuedFires, In
      <3> QED
        BY <3>1, <3>2 DEF FiresStayFired
    <2> QED
      BY <2>1, <2>2, <2>3
  <1> QED
    BY <1>2, <1>3, <1>4, <1>5, <1>6, <1>7 DEF Registry, Queue

\* Inside the window the victim is the only task of its entry that can run.
LEMMA VictimAlone ==
  ASSUME Registry, victim # 0
  PROVE  /\ victim \in Tasks /\ lock.id \in Ids /\ lock.op # "free"
         /\ Live(victim) /\ taskOf[victim] = lock.id /\ retryTask[lock.id] = 0
         /\ \A t \in Tasks : Live(t) /\ taskOf[t] = lock.id => t = victim
  BY DEF Registry, TypeRegistry, LockHolder, NoOrphanRetry, RetryLinks, Live, Tasks

\* The end of the wait for a cancelled task preserves the registry: the task
\* is dead, and the suspended call finishes what it began (lines 512-526).
LEMMA EndCancelOK ==
  ASSUME Registry, EndCancel
  PROVE  Registry' /\ FiresStayFired
  <1>0. /\ UNCHANGED <<tracked, path, status, nextId, waiters>>
        /\ victim # 0
    BY DEF EndCancel, files
  <1>1. /\ victim \in Tasks /\ lock.id \in Ids /\ lock.op # "free"
        /\ Live(victim) /\ taskOf[victim] = lock.id /\ retryTask[lock.id] = 0
        /\ \A t \in Tasks : Live(t) /\ taskOf[t] = lock.id => t = victim
    BY <1>0, VictimAlone
  <1> DEFINE Died == /\ taskState' = [taskState EXCEPT ![victim] = "done"]
                     /\ taskOf' = [taskOf EXCEPT ![victim] = 0]
  <1>2. ASSUME Died
        PROVE  /\ taskState' \in [Tasks -> {"new", "sleeping", "fired", "done"}]
               /\ taskOf' \in [Tasks -> Ids \cup {0}]
               /\ \A t \in Tasks : /\ taskState'[t] = IF t = victim THEN "done" ELSE taskState[t]
                                   /\ taskOf'[t] = IF t = victim THEN 0 ELSE taskOf[t]
               /\ FiresStayFired
    BY <1>1, <1>2 DEF Registry, TypeRegistry, FiresStayFired
  <1>3. ASSUME Died, retryTask' = retryTask, nextTask' = nextTask,
               retryInfo' = [retryInfo EXCEPT ![lock.id] = FALSE],
               todo' = todo, lock' = FreeLock, victim' = 0, todo = {}
        PROVE  Registry' /\ FiresStayFired
    <2>1. TypeRegistry'
      BY <1>0, <1>1, <1>2, <1>3 DEF Registry, TypeRegistry, FreeLock
    <2>2. LockHolder'
      BY <1>3 DEF LockHolder, FreeLock
    <2>3. RetryLinks'
      BY <1>0, <1>1, <1>2, <1>3 DEF Registry, TypeRegistry, RetryLinks, Live, Tasks
    <2>4. ASSUME NEW t \in Tasks, Live(t)'
          PROVE  /\ retryTask'[taskOf'[t]] = t
                 /\ taskOf'[t] \in tracked' => retryInfo'[taskOf'[t]]
      <3>1. Live(t) /\ t # victim /\ taskOf'[t] = taskOf[t] /\ taskOf[t] \in Ids
        BY <1>2, <1>3, <2>4 DEF Live, Registry, RetryLinks
      <3>2. taskOf[t] # lock.id
        BY <1>1, <3>1
      <3> QED
        BY <1>0, <1>3, <3>1, <3>2 DEF Registry, TypeRegistry, NoOrphanRetry, PendingRetryRecorded
    <2>5. NoOrphanRetry' /\ PendingRetryRecorded'
      BY <2>4 DEF NoOrphanRetry, PendingRetryRecorded
    <2> QED
      BY <1>2, <1>3, <2>1, <2>2, <2>3, <2>5 DEF Registry
  <1>4. CASE lock.op = "update"
    <2>1. /\ Died /\ todo = {} /\ lock' = FreeLock /\ victim' = 0
          /\ retryInfo' = [retryInfo EXCEPT ![lock.id] = FALSE]
          /\ UNCHANGED <<todo, retryTask, nextTask>>
      BY <1>4 DEF EndCancel, Registry, LockHolder
    <2> QED
      BY <1>3, <2>1
  <1>5. CASE lock.op = "cancel"
    <2>1. /\ Died /\ todo = {} /\ lock' = FreeLock /\ victim' = 0
          /\ retryInfo' = [retryInfo EXCEPT ![lock.id] = FALSE]
          /\ UNCHANGED <<todo, retryTask, nextTask>>
      BY <1>5 DEF EndCancel, Registry, LockHolder
    <2> QED
      BY <1>3, <2>1
  <1>6. CASE lock.op = "schedule"
    <2>1. /\ taskState' = [taskState EXCEPT ![victim] = "done", ![nextTask] = "sleeping"]
          /\ taskOf' = [taskOf EXCEPT ![victim] = 0, ![nextTask] = lock.id]
          /\ StartRetry(lock.id) /\ lock' = FreeLock /\ victim' = 0
          /\ todo' = todo /\ todo = {} /\ lock.id \in tracked
      BY <1>6 DEF EndCancel, Registry, LockHolder
    <2>2. /\ retryInfo' \in [Ids -> BOOLEAN]
          /\ retryTask' \in [Ids -> Tasks \cup {0}]
          /\ taskOf' \in [Tasks -> Ids \cup {0}]
          /\ taskState' \in [Tasks -> {"new", "sleeping", "fired", "done"}]
          /\ nextTask' \in 1..MaxTasks + 1
          /\ RetryLinks' /\ NoOrphanRetry' /\ PendingRetryRecorded' /\ FiresStayFired
      BY <1>0, <1>1, <2>1, StartRetryOK DEF Registry
    <2>3. TypeRegistry'
      BY <1>0, <2>1, <2>2 DEF Registry, TypeRegistry, FreeLock
    <2>4. LockHolder'
      BY <2>1 DEF LockHolder, FreeLock
    <2> QED
      BY <2>2, <2>3, <2>4 DEF Registry
  <1>7. ASSUME NEW i \in todo, lock.op = "cancel_all", Died,
               retryInfo' = [retryInfo EXCEPT ![lock.id] = FALSE],
               victim' = retryTask[i],
               retryTask' = [retryTask EXCEPT ![i] = 0],
               lock' = [op |-> "cancel_all", id |-> i, owed |-> NoEvent],
               todo' = todo \ {i}, nextTask' = nextTask
        PROVE  Registry' /\ FiresStayFired
    <2>1. /\ i \in Ids /\ i \in tracked /\ Live(retryTask[i])
          /\ retryTask[i] \in Tasks /\ taskOf[retryTask[i]] = i
          /\ i # lock.id /\ retryTask[i] # victim
      BY <1>1, <1>7 DEF Registry, TypeRegistry, LockHolder, RetryLinks, Live
    <2>3. TypeRegistry'
      BY <1>0, <1>1, <1>2, <1>7, <2>1 DEF Registry, TypeRegistry
    <2>4. \A j \in todo \ {i} : j \in tracked /\ j \in Ids /\ Live(retryTask[j])
                                /\ retryTask[j] \in Tasks /\ retryTask[j] # victim
      BY <1>1 DEF Registry, TypeRegistry, LockHolder, RetryLinks, Live
    <2>5. LockHolder'
      BY <1>0, <1>2, <1>7, <2>1, <2>4 DEF Registry, TypeRegistry, LockHolder, Live, Tasks
    <2>6. RetryLinks'
      BY <1>0, <1>1, <1>2, <1>7, <2>1 DEF Registry, TypeRegistry, RetryLinks, Live, Tasks
    <2>7. ASSUME NEW t \in Tasks, Live(t)', t # victim'
          PROVE  /\ retryTask'[taskOf'[t]] = t
                 /\ taskOf'[t] \in tracked' => retryInfo'[taskOf'[t]]
      <3>1. Live(t) /\ t # victim /\ taskOf'[t] = taskOf[t] /\ taskOf[t] \in Ids
        BY <1>2, <1>7, <2>7 DEF Live, Registry, RetryLinks
      <3>2. /\ retryTask[taskOf[t]] = t
            /\ taskOf[t] \in tracked => retryInfo[taskOf[t]]
        BY <3>1 DEF Registry, NoOrphanRetry, PendingRetryRecorded
      <3>3. taskOf[t] # i /\ taskOf[t] # lock.id
        BY <1>1, <1>7, <2>7, <3>1, <3>2
      <3> QED
        BY <1>0, <1>7, <3>1, <3>2, <3>3 DEF Registry, TypeRegistry
    <2>8. NoOrphanRetry' /\ PendingRetryRecorded'
      BY <2>7 DEF NoOrphanRetry, PendingRetryRecorded
    <2> QED
      BY <1>2, <1>7, <2>3, <2>5, <2>6, <2>8 DEF Registry
  <1>8. CASE lock.op = "cancel_all"
    <2>1. /\ Died /\ retryInfo' = [retryInfo EXCEPT ![lock.id] = FALSE] /\ nextTask' = nextTask
          /\ \/ /\ todo = {} /\ lock' = FreeLock /\ victim' = 0
                /\ UNCHANGED <<todo, retryTask>>
             \/ \E i \in todo :
                   /\ victim' = retryTask[i]
                   /\ retryTask' = [retryTask EXCEPT ![i] = 0]
                   /\ lock' = [op |-> "cancel_all", id |-> i, owed |-> NoEvent]
                   /\ todo' = todo \ {i}
      BY <1>8 DEF EndCancel
    <2> HIDE DEF Died
    <2> QED
      BY <1>3, <1>7, <1>8, <2>1
  <1> QED
    BY <1>4, <1>5, <1>6, <1>8 DEF EndCancel

-----------------------------------------------------------------------------
(* What the subscribers were told.                                         *)

\* ViewLags, when only these tasks of the loop and these calls are left.
Lags(rest, queue, i) ==
    \/ status[i] = "REMOVED"
    \/ status[i] = "READY" /\ told[i] = "WAITING_FOR_SPACE"
    \/ lock.op = "update" /\ lock.id = i /\ lock.owed # NoEvent
    \/ In(Write(i, told[i]), rest)
    \/ In([op |-> "update", id |-> i, to |-> told[i]], queue)
    \/ told[i] = NoEvent /\ In(Publication(i, "DISCOVERED"), rest)

\* The call itself may be the one that is still to write what was told.
Excused(c, i) == c.op = "update" /\ c.id = i /\ c.to = told[i]

\* A call with the rest of the loop and of the queue it leaves behind.
Ready(rest, queue, c) ==
    /\ told \in [Ids -> Status \cup {NoEvent}]
    /\ \A i \in Ids : told[i] # NoEvent => i < nextId
    /\ rest \in Seq(Handles)
    /\ \A h : In(h, rest) => h.id < nextId
    /\ \A i \in tracked : told[i] = status[i] \/ Lags(rest, queue, i) \/ Excused(c, i)

LEMMA NewsAlt ==
  News <=> /\ told \in [Ids -> Status \cup {NoEvent}]
           /\ \A i \in Ids : told[i] # NoEvent => i < nextId
           /\ loop \in Seq(Handles)
           /\ \A h : In(h, loop) => h.id < nextId
           /\ \A i \in tracked : told[i] = status[i] \/ Lags(loop, waiters, i)
  <1>1. \A i : ViewLags(i) <=> Lags(loop, waiters, i)
    BY DEF ViewLags, Lags, In, StillToWrite, StillToHear
  <1>2. NewsOfEntries <=> /\ \A i \in Ids : told[i] # NoEvent => i < nextId
                          /\ \A h : In(h, loop) => h.id < nextId
    BY DEF NewsOfEntries, In
  <1> QED
    BY <1>1, <1>2 DEF News, ViewLagsOnlySilently

\* The same of the next state, in the form the steps establish it.
LEMMA NewsNext ==
  ASSUME told' \in [Ids -> Status \cup {NoEvent}],
         \A i \in Ids : told'[i] # NoEvent => i < nextId',
         loop' \in Seq(Handles),
         \A h : In(h, loop') => h.id < nextId',
         \A i \in tracked' :
            \/ told'[i] = status'[i]
            \/ status'[i] = "REMOVED"
            \/ status'[i] = "READY" /\ told'[i] = "WAITING_FOR_SPACE"
            \/ lock'.op = "update" /\ lock'.id = i /\ lock'.owed # NoEvent
            \/ In(Write(i, told'[i]), loop')
            \/ In([op |-> "update", id |-> i, to |-> told'[i]], waiters')
            \/ told'[i] = NoEvent /\ In(Publication(i, "DISCOVERED"), loop')
  PROVE  News'
  <1>1. \A i : ViewLags(i)' <=>
            \/ status'[i] = "REMOVED"
            \/ status'[i] = "READY" /\ told'[i] = "WAITING_FOR_SPACE"
            \/ lock'.op = "update" /\ lock'.id = i /\ lock'.owed # NoEvent
            \/ In(Write(i, told'[i]), loop')
            \/ In([op |-> "update", id |-> i, to |-> told'[i]], waiters')
            \/ told'[i] = NoEvent /\ In(Publication(i, "DISCOVERED"), loop')
    BY DEF ViewLags, In, StillToWrite, StillToHear, Write, Publication
  <1>2. NewsOfEntries'
    BY DEF NewsOfEntries, In
  <1> QED
    BY <1>1, <1>2 DEF News, ViewLagsOnlySilently

\* Telling the subscribers something leaves the loop in order.
LEMMA TellOK ==
  ASSUME tracked \subseteq Ids, nextId \in Nat,
         NEW i \in Ids, i < nextId, NEW s \in Status,
         NEW rest \in Seq(Handles), \A h : In(h, rest) => h.id < nextId,
         told \in [Ids -> Status \cup {NoEvent}],
         \A j \in Ids : told[j] # NoEvent => j < nextId,
         Tell(i, s, rest)
  PROVE  /\ told' \in [Ids -> Status \cup {NoEvent}]
         /\ \A j \in Ids : told'[j] # NoEvent => j < nextId
         /\ loop' \in Seq(Handles)
         /\ \A h : In(h, loop') => h.id < nextId
         /\ \A h : In(h, rest) => In(h, loop')
         /\ \A j \in tracked : IF j = i THEN told'[j] = s /\ In(Write(i, s), loop')
                                        ELSE told'[j] = told[j]
  <1>1. Write(i, s) \in Handles /\ Write(i, s).id = i
    BY DEF Write, Handles
  <1>2. /\ loop' = Append(rest, Write(i, s))
        /\ told' = [told EXCEPT ![i] = IF i \in tracked THEN s ELSE @]
    BY DEF Tell
  <1>3. /\ loop' \in Seq(Handles)
        /\ \A h : In(h, loop') <=> h = Write(i, s) \/ In(h, rest)
    BY <1>1, <1>2, InAppend
  <1> QED
    BY <1>1, <1>2, <1>3

\* add_file: of a new entry the subscribers are still to hear.
LEMMA AddFileNews ==
  ASSUME Registry, lock.op = "free", NEW p \in Paths, NEW rest, AddFile(p, rest),
         NEW c, c.op = "add", Ready(rest, waiters', c)
  PROVE  News'
  <1>0. UNCHANGED <<told, lock>> /\ lock.owed = NoEvent
    BY DEF AddFile, TellNobody, locking, Registry, LockHolder
  <1>1. \A j \in tracked :
            \/ told[j] = status[j]
            \/ status[j] = "REMOVED"
            \/ status[j] = "READY" /\ told[j] = "WAITING_FOR_SPACE"
            \/ In(Write(j, told[j]), rest)
            \/ In([op |-> "update", id |-> j, to |-> told[j]], waiters')
            \/ told[j] = NoEvent /\ In(Publication(j, "DISCOVERED"), rest)
    BY <1>0 DEF Ready, Lags, Excused
  <1>2. CASE UNCHANGED files /\ loop' = rest
    BY <1>0, <1>1, <1>2, NewsNext DEF files, Ready
  <1>3. CASE /\ nextId \in Ids
             /\ tracked' = tracked \cup {nextId}
             /\ status' = [status EXCEPT ![nextId] = "DISCOVERED"]
             /\ nextId' = nextId + 1
             /\ loop' = Append(rest, Publication(nextId, "DISCOVERED"))
    <2>1. Publication(nextId, "DISCOVERED") \in Handles
      BY <1>3 DEF Publication, Handles, Status
    <2>2. /\ loop' \in Seq(Handles)
          /\ \A h : In(h, loop') <=> h = Publication(nextId, "DISCOVERED") \/ In(h, rest)
      BY <1>3, <2>1, InAppend DEF Ready
    <2>3. /\ told[nextId] = NoEvent /\ nextId \in Nat
          /\ \A j \in tracked : j \in Ids /\ j < nextId /\ status'[j] = status[j]
          /\ Publication(nextId, "DISCOVERED").id = nextId
      BY <1>3 DEF Ready, Registry, TypeRegistry, RetryLinks, Ids, Publication
    <2>4. /\ told' \in [Ids -> Status \cup {NoEvent}]
          /\ \A j \in Ids : told'[j] # NoEvent => j < nextId'
          /\ \A h : In(h, loop') => h.id < nextId'
      <3>1. ASSUME NEW j \in Ids, told'[j] # NoEvent PROVE j < nextId'
        BY <1>0, <1>3, <2>3, <3>1 DEF Ready, Ids
      <3>2. ASSUME NEW h, In(h, loop') PROVE h.id < nextId'
        <4>1. CASE h = Publication(nextId, "DISCOVERED")
          BY <1>3, <2>3, <4>1
        <4>2. CASE In(h, rest)
          <5>1. h.id \in Nat /\ h.id < nextId
            <6>1. h \in Handles /\ h.id < nextId
              BY <4>2, InSeq DEF Ready
            <6> QED
              BY <6>1 DEF Handles, Ids
          <5> QED
            BY <1>3, <2>3, <5>1
        <4> QED
          BY <2>2, <3>2, <4>1, <4>2
      <3> QED
        BY <1>0, <3>1, <3>2 DEF Ready
    <2>5. ASSUME NEW j \in tracked'
          PROVE  \/ told'[j] = status'[j]
                 \/ status'[j] = "REMOVED"
                 \/ status'[j] = "READY" /\ told'[j] = "WAITING_FOR_SPACE"
                 \/ In(Write(j, told'[j]), loop')
                 \/ In([op |-> "update", id |-> j, to |-> told'[j]], waiters')
                 \/ told'[j] = NoEvent /\ In(Publication(j, "DISCOVERED"), loop')
      <3>1. CASE j = nextId
        BY <1>0, <2>2, <2>3, <3>1
      <3>2. CASE j \in tracked
        BY <1>0, <1>1, <2>2, <2>3, <3>2
      <3> QED
        BY <1>3, <3>1, <3>2
    <2> QED
      BY <2>2, <2>4, <2>5, NewsNext
  <1> QED
    BY <1>2, <1>3 DEF AddFile, TellNobody

\* update_file_status_by_id: the change is told, now or when the retry is
\* dead; and the call that writes what was told makes it true.
LEMMA UpdateStatusNews ==
  ASSUME Registry, lock.op = "free", NEW i \in Ids, NEW s \in Status, NEW rest,
         UpdateStatus(i, s, rest),
         NEW c, c.op = "update", c.id = i, c.to = s, Ready(rest, waiters', c)
  PROVE  News'
  <1>0. lock.owed = NoEvent
    BY DEF Registry, LockHolder
  <1>1. \A j \in tracked :
            \/ told[j] = status[j]
            \/ status[j] = "REMOVED"
            \/ status[j] = "READY" /\ told[j] = "WAITING_FOR_SPACE"
            \/ In(Write(j, told[j]), rest)
            \/ In([op |-> "update", id |-> j, to |-> told[j]], waiters')
            \/ told[j] = NoEvent /\ In(Publication(j, "DISCOVERED"), rest)
            \/ i = j /\ s = told[j]
    BY <1>0 DEF Ready, Lags, Excused
  <1>2. CASE i \notin tracked
    <2>1. UNCHANGED <<told, lock, tracked, status, nextId>> /\ loop' = rest
      BY <1>2 DEF UpdateStatus, TellNobody, files, locking
    <2> QED
      BY <1>1, <1>2, <2>1, NewsNext DEF Ready
  <1>3. CASE i \in tracked
    <2>1. /\ tracked' = tracked /\ nextId' = nextId
          /\ \A j \in tracked : status'[j] = IF j = i THEN s ELSE status[j]
          /\ \/ TellNobody(rest) /\ (status[i] = s \/ (lock'.op = "update" /\ lock'.id = i /\ lock'.owed = s))
             \/ Tell(i, s, rest)
      BY <1>3 DEF UpdateStatus, TellChange, StartCancel, Registry, TypeRegistry
    <2>2. CASE Tell(i, s, rest)
      <3>1. /\ tracked \subseteq Ids /\ nextId \in Nat /\ i < nextId
            /\ rest \in Seq(Handles) /\ (\A h : In(h, rest) => h.id < nextId)
            /\ told \in [Ids -> Status \cup {NoEvent}]
            /\ \A j \in Ids : told[j] # NoEvent => j < nextId
        BY <1>3 DEF Ready, Registry, TypeRegistry, RetryLinks
      <3>2. /\ told' \in [Ids -> Status \cup {NoEvent}]
            /\ \A j \in Ids : told'[j] # NoEvent => j < nextId
            /\ loop' \in Seq(Handles)
            /\ \A h : In(h, loop') => h.id < nextId
            /\ \A h : In(h, rest) => In(h, loop')
            /\ \A j \in tracked : IF j = i THEN told'[j] = s ELSE told'[j] = told[j]
        BY <2>2, <3>1, TellOK
      <3> QED
        BY <1>1, <2>1, <3>2, NewsNext
    <2>3. CASE TellNobody(rest) /\ (status[i] = s \/ (lock'.op = "update" /\ lock'.id = i /\ lock'.owed = s))
      <3>1. /\ told' = told /\ loop' = rest /\ s # NoEvent
            /\ \A j \in tracked : \/ status'[j] = status[j]
                                  \/ lock'.op = "update" /\ lock'.id = j /\ lock'.owed # NoEvent
            /\ status'[i] = s
        BY <1>3, <2>1, <2>3 DEF TellNobody, Status, NoEvent
      <3> QED
        BY <1>1, <2>1, <3>1, NewsNext DEF Ready
    <2> QED
      BY <2>1, <2>2, <2>3
  <1> QED
    BY <1>2, <1>3

\* The bodies that tell nobody and publish nothing: what they do silently is
\* what ViewLags allows them.
LEMMA SilentNews ==
  ASSUME Registry, lock.op = "free", NEW rest, NEW c, c.op # "update", Ready(rest, waiters', c),
         loop' = rest, nextId' = nextId, tracked' \subseteq tracked,
         \A j \in Ids : told'[j] = told[j] \/ (told'[j] = NoEvent /\ j \notin tracked'),
         told' \in [Ids -> Status \cup {NoEvent}],
         \A j \in tracked' :
            \/ status'[j] = status[j]
            \/ status'[j] = "REMOVED"
            \/ status'[j] = "READY" /\ status[j] = "WAITING_FOR_SPACE"
  PROVE  News'
  <1>0. lock.owed = NoEvent /\ tracked \subseteq Ids
    BY DEF Registry, LockHolder, TypeRegistry
  <1>1. ASSUME NEW j \in tracked'
        PROVE  \/ told'[j] = status'[j]
               \/ status'[j] = "REMOVED"
               \/ status'[j] = "READY" /\ told'[j] = "WAITING_FOR_SPACE"
               \/ In(Write(j, told'[j]), loop')
               \/ In([op |-> "update", id |-> j, to |-> told'[j]], waiters')
               \/ told'[j] = NoEvent /\ In(Publication(j, "DISCOVERED"), loop')
    <2>1. j \in tracked /\ told'[j] = told[j]
      BY <1>0, <1>1
    <2>2. \/ told[j] = status[j]
          \/ status[j] = "REMOVED"
          \/ status[j] = "READY" /\ told[j] = "WAITING_FOR_SPACE"
          \/ In(Write(j, told[j]), rest)
          \/ In([op |-> "update", id |-> j, to |-> told[j]], waiters')
          \/ told[j] = NoEvent /\ In(Publication(j, "DISCOVERED"), rest)
      BY <1>0, <2>1 DEF Ready, Lags, Excused
    <2> QED
      BY <1>1, <2>1, <2>2
  <1>2. \A j \in Ids : told'[j] # NoEvent => j < nextId'
    BY DEF Ready
  <1> QED
    BY <1>1, <1>2, NewsNext DEF Ready

\* Whatever the call, its body keeps the news in order.
LEMMA ExecuteNews ==
  ASSUME Registry, lock.op = "free", NEW c \in Calls, NEW rest, Execute(c, rest),
         c.op = "fire" => taskState[c.task] \in {"sleeping", "fired"},
         Ready(rest, waiters', c),
         rest = loop \/ c.op = "update"
  PROVE  News'
  <1>0. told \in [Ids -> Status \cup {NoEvent}] /\ status \in [Ids -> Status] /\ tracked \subseteq Ids
    BY DEF Ready, Registry, TypeRegistry
  <1>1. CASE c.op = "add" /\ AddFile(c.path, rest)
    BY <1>1, CallTypes, AddFileNews
  <1>2. CASE c.op = "update" /\ UpdateStatus(c.id, c.to, rest)
    BY <1>2, CallTypes, UpdateStatusNews
  <1>3. CASE c.op \in {"schedule", "cancel", "cancel_all"} /\ UNCHANGED <<files, news>>
    BY <1>0, <1>3, SilentNews DEF files, news
  <1>4. CASE c.op = "fire" /\ FireRetry(c.task)
    <2>1. /\ UNCHANGED <<tracked, nextId, told, loop>>
          /\ \A j \in Ids : \/ status'[j] = status[j]
                            \/ status'[j] = "READY" /\ status[j] = "WAITING_FOR_SPACE"
      BY <1>0, <1>4 DEF FireRetry, news
    <2> QED
      BY <1>0, <1>4, <2>1, SilentNews
  <1>5. CASE c.op = "missing" /\ CleanupMissing(c.present)
    <2>1. /\ UNCHANGED <<tracked, nextId, told, loop>>
          /\ \A j \in Ids : status'[j] = status[j] \/ status'[j] = "REMOVED"
      BY <1>0, <1>5 DEF CleanupMissing, Reset, news
    <2> QED
      BY <1>0, <1>5, <2>1, SilentNews
  <1>6. ASSUME c.op = "old", NEW old \in SUBSET tracked, CleanupOld(old)
        PROVE  News'
    <2>1. /\ tracked' = tracked \ old /\ nextId' = nextId /\ loop' = loop
          /\ told' = [j \in Ids |-> IF j \in old THEN NoEvent ELSE told[j]]
          /\ status' = [j \in Ids |-> IF j \in old THEN "DISCOVERED" ELSE status[j]]
      BY <1>6 DEF CleanupOld, Reset
    <2>2. /\ told' \in [Ids -> Status \cup {NoEvent}]
          /\ \A j \in Ids : told'[j] = told[j] \/ (told'[j] = NoEvent /\ j \notin tracked')
          /\ \A j \in tracked' : status'[j] = status[j]
      BY <1>0, <2>1
    <2>3. c.op # "update" /\ tracked' \subseteq tracked /\ loop' = rest
      BY <1>6, <2>1
    <2> QED
      BY <2>1, <2>2, <2>3, SilentNews
  <1> QED
    BY <1>1, <1>2, <1>3, <1>4, <1>5, <1>6 DEF Execute, ScheduleRetry, CancelRetry, CancelAllRetries

\* A call that waits takes what it is to write with it.
LEMMA BlockNews ==
  ASSUME Registry, waiters \in Seq(Calls), NEW c \in Calls, NEW rest, Block(c, rest),
         Ready(rest, waiters, c)
  PROVE  News'
  <1>1. /\ UNCHANGED <<tracked, status, nextId, told, lock>>
        /\ loop' = rest /\ waiters' = Append(waiters, c)
    BY DEF Block, TellNobody, files, locking
  <1>2. \A x : In(x, waiters') <=> x = c \/ In(x, waiters)
    BY <1>1, InAppend
  <1>3. \A j : Excused(c, j) => In([op |-> "update", id |-> j, to |-> told[j]], waiters')
    BY <1>2, CallTypes DEF Excused
  <1> QED
    BY <1>1, <1>2, <1>3, NewsNext DEF Ready, Lags

\* The event that was owed is published, and is true.
LEMMA EndCancelNews ==
  ASSUME Registry, News, EndCancel
  PROVE  News'
  <1>0. /\ told \in [Ids -> Status \cup {NoEvent}]
        /\ \A i \in Ids : told[i] # NoEvent => i < nextId
        /\ loop \in Seq(Handles)
        /\ \A h : In(h, loop) => h.id < nextId
        /\ \A i \in tracked : told[i] = status[i] \/ Lags(loop, waiters, i)
        /\ UNCHANGED <<tracked, status, nextId, waiters>>
    BY NewsAlt DEF EndCancel, files
  <1>1. CASE lock.owed = NoEvent
    <2>1. UNCHANGED <<told, loop>>
      BY <1>1 DEF EndCancel, TellNobody, news
    <2> QED
      BY <1>0, <1>1, <2>1, NewsNext DEF Lags
  <1>2. CASE lock.owed # NoEvent
    <2>1. /\ lock.op = "update" /\ lock.owed = status[lock.id]
          /\ lock.id \in tracked /\ lock.id \in Ids /\ lock.id < nextId /\ nextId \in Nat
          /\ status[lock.id] \in Status /\ tracked \subseteq Ids
      BY <1>2 DEF Registry, TypeRegistry, LockHolder, RetryLinks
    <2>2. Tell(lock.id, status[lock.id], loop)
      BY <1>2, <2>1 DEF EndCancel
    <2>3. /\ told' \in [Ids -> Status \cup {NoEvent}]
          /\ \A j \in Ids : told'[j] # NoEvent => j < nextId
          /\ loop' \in Seq(Handles)
          /\ \A h : In(h, loop') => h.id < nextId
          /\ \A h : In(h, loop) => In(h, loop')
          /\ \A j \in tracked : IF j = lock.id THEN told'[j] = status[lock.id] ELSE told'[j] = told[j]
      BY <1>0, <2>1, <2>2, TellOK
    <2> QED
      BY <1>0, <2>1, <2>3, NewsNext DEF Lags
  <1> QED
    BY <1>1, <1>2

\* An event that is none of the registry's: its handler is still to write it.
LEMMA ToldNews ==
  ASSUME Registry, NEW i \in Ids, NEW s \in Status, i < nextId, NEW rest, Tell(i, s, rest),
         rest \in Seq(Handles), \A h : In(h, rest) => In(h, loop),
         \A h : In(h, loop) /\ h.id # i => In(h, rest),
         News, UNCHANGED <<tracked, status, nextId, lock, waiters>>
  PROVE  News'
  <1>1. /\ told \in [Ids -> Status \cup {NoEvent}]
        /\ \A j \in Ids : told[j] # NoEvent => j < nextId
        /\ \A h : In(h, loop) => h.id < nextId
        /\ \A j \in tracked : told[j] = status[j] \/ Lags(loop, waiters, j)
        /\ tracked \subseteq Ids /\ nextId \in Nat
    BY NewsAlt DEF Registry, TypeRegistry
  <1>2. /\ told' \in [Ids -> Status \cup {NoEvent}]
        /\ \A j \in Ids : told'[j] # NoEvent => j < nextId
        /\ loop' \in Seq(Handles)
        /\ \A h : In(h, loop') => h.id < nextId
        /\ \A h : In(h, rest) => In(h, loop')
        /\ \A j \in tracked : IF j = i THEN told'[j] = s /\ In(Write(i, s), loop')
                                       ELSE told'[j] = told[j]
    BY <1>1, TellOK
  <1>3. \A j, t : Write(j, t).id = j /\ Publication(j, t).id = j
    BY DEF Write, Publication
  <1> QED
    BY <1>1, <1>2, <1>3, NewsNext DEF Lags

-----------------------------------------------------------------------------
(* Who calls.                                                              *)

\* A call with all of the loop and of the queue behind it.
LEMMA ReadyLoop ==
  ASSUME News, NEW c
  PROVE  Ready(loop, waiters, c)
  BY NewsAlt DEF Ready

\* A method is called: at once or from the back of the queue.
LEMMA CallFromOK ==
  ASSUME Registry, Queue, NEW c \in Calls, c.op # "fire", NEW rest, CallFrom(c, rest),
         Ready(rest, waiters, c), rest = loop \/ c.op = "update"
  PROVE  Registry' /\ Queue' /\ News'
  <1>1. CASE Free /\ Execute(c, rest) /\ UNCHANGED waiters
    <2>1. lock.op = "free" /\ Ready(rest, waiters', c)
      BY <1>1 DEF Free
    <2>2. Registry' /\ FiresStayFired
      BY <1>1, <2>1, ExecuteOK
    <2>3. News'
      BY <1>1, <2>1, ExecuteNews
    <2> QED
      BY <1>1, <2>2, <2>3, QueueKept
  <1>2. CASE Block(c, rest) /\ UNCHANGED taskState
    <2>1. FiresStayFired /\ taskState' \in [Tasks -> {"new", "sleeping", "fired", "done"}]
      BY <1>2 DEF FiresStayFired, Registry, TypeRegistry
    <2>2. Registry' /\ Queue'
      BY <1>2, <2>1, BlockOK
    <2>3. News'
      BY <1>2, BlockNews DEF Queue
    <2> QED
      BY <2>2, <2>3
  <1> QED
    BY <1>1, <1>2 DEF CallFrom

LEMMA CallOK ==
  ASSUME Registry, Queue, News, NEW c \in Calls, c.op # "fire", Call(c)
  PROVE  Registry' /\ Queue' /\ News'
  BY ReadyLoop, CallFromOK DEF Call

\* What the loop's next task is, and that the others keep their place.
LEMMA LoopHead ==
  ASSUME News, loop # <<>>
  PROVE  /\ Head(loop) \in Handles /\ Head(loop).id \in Ids /\ Head(loop).id < nextId
         /\ Head(loop).to \in Status
         /\ Tail(loop) \in Seq(Handles)
         /\ \A h : In(h, loop) <=> h = Head(loop) \/ In(h, Tail(loop))
  <1>1. /\ Head(loop) \in Handles /\ Tail(loop) \in Seq(Handles) /\ In(Head(loop), loop)
        /\ \A h : In(h, loop) <=> h = Head(loop) \/ In(h, Tail(loop))
    BY InTail DEF News
  <1>2. Head(loop).id < nextId
    BY <1>1, NewsAlt
  <1>3. Head(loop).id \in Ids /\ Head(loop).to \in Status
    BY <1>1 DEF Handles
  <1> QED
    BY <1>1, <1>2, <1>3

\* The registry hears of an event and writes its status.
LEMMA HandleOK ==
  ASSUME Registry, Queue, News, HandleFileStatusChanged
  PROVE  Registry' /\ Queue' /\ News'
  <1> DEFINE h == Head(loop)
             c == [op |-> "update", id |-> h.id, to |-> h.to]
             rest == Tail(loop)
  <1>1. loop # <<>> /\ h.do = "write" /\ CallFrom(c, rest)
    BY DEF HandleFileStatusChanged
  <1>2. /\ h \in Handles /\ h.id \in Ids /\ h.to \in Status /\ rest \in Seq(Handles)
        /\ \A x : In(x, loop) <=> x = h \/ In(x, rest)
    BY <1>1, LoopHead
  <1>3. c \in Calls /\ c.op = "update" /\ c.id = h.id /\ c.to = h.to
    BY <1>2 DEF Calls
  <1> HIDE DEF c, rest
  <1>4. Ready(rest, waiters, c)
    <2>1. ASSUME NEW j, NEW s, Write(j, s) = h
          PROVE  c.id = j /\ c.to = s
      BY <1>3, <2>1 DEF Write
    <2>2. \A j : Publication(j, "DISCOVERED") # h
      BY <1>1 DEF Publication
    <2> HIDE DEF h
    <2>3. ASSUME NEW j \in tracked, Lags(loop, waiters, j)
          PROVE  Lags(rest, waiters, j) \/ Excused(c, j)
      BY <1>2, <1>3, <2>1, <2>2, <2>3 DEF Lags, Excused
    <2> QED
      BY <1>2, <2>3, NewsAlt DEF Ready
  <1> QED
    BY <1>1, <1>3, <1>4, CallFromOK

\* add_file's task publishes its event; the scanner publishes its verdict.
LEMMA PublishOK ==
  ASSUME Registry, Queue, News, Publish
  PROVE  Registry' /\ Queue' /\ News'
  <1>1. /\ loop # <<>> /\ Tell(Head(loop).id, Head(loop).to, Tail(loop))
        /\ UNCHANGED <<files, retries, locking, waiters>>
    BY DEF Publish
  <1>2. Registry' /\ Queue'
    BY <1>1, RegistryKept, QueueKept
  <1>3. News'
    BY <1>1, LoopHead, ToldNews DEF files, locking
  <1> QED
    BY <1>2, <1>3

LEMMA ScannerTellsOK ==
  ASSUME Registry, Queue, News, NEW i \in Ids, NEW s \in Status, ScannerTells(i, s)
  PROVE  Registry' /\ Queue' /\ News'
  <1>1. /\ i < nextId /\ Tell(i, s, loop)
        /\ UNCHANGED <<files, retries, locking, waiters>>
    BY DEF ScannerTells
  <1>2. Registry' /\ Queue'
    BY <1>1, RegistryKept, QueueKept
  <1>3. loop \in Seq(Handles)
    BY DEF News
  <1>4. News'
    BY <1>1, <1>3, ToldNews DEF files, locking
  <1> QED
    BY <1>2, <1>4

\* A retry task asks for the lock when its sleep is over.
LEMMA TimerElapsedOK ==
  ASSUME Registry, Queue, News, NEW t \in Tasks, TimerElapsed(t)
  PROVE  Registry' /\ Queue' /\ News'
  <1> DEFINE c == [op |-> "fire", task |-> t]
  <1>0. c \in Calls /\ c.op = "fire" /\ c.task = t /\ taskState[t] = "sleeping"
    BY DEF Calls, TimerElapsed
  <1>1. \/ Free /\ Execute(c, loop) /\ UNCHANGED waiters
        \/ Block(c, loop) /\ taskState' = [taskState EXCEPT ![t] = "fired"]
    BY DEF TimerElapsed
  <1> HIDE DEF c
  <1>2. CASE Free /\ Execute(c, loop) /\ UNCHANGED waiters
    <2>1. lock.op = "free" /\ Ready(loop, waiters', c)
      BY <1>2, ReadyLoop DEF Free
    <2>2. Registry' /\ FiresStayFired
      BY <1>0, <1>2, <2>1, ExecuteOK
    <2>3. News'
      BY <1>0, <1>2, <2>1, ExecuteNews
    <2> QED
      BY <1>2, <2>2, <2>3, QueueKept
  <1>3. CASE Block(c, loop) /\ taskState' = [taskState EXCEPT ![t] = "fired"]
    <2>1. /\ FiresStayFired
          /\ taskState' \in [Tasks -> {"new", "sleeping", "fired", "done"}]
          /\ \A u \in Tasks : taskState'[u] # taskState[u]
                                  => taskState[u] = "sleeping" /\ taskState'[u] = "fired"
          /\ taskState'[t] = "fired"
      BY <1>0, <1>3 DEF FiresStayFired, Registry, TypeRegistry
    <2>2. Registry' /\ Queue'
      BY <1>0, <1>3, <2>1, BlockOK
    <2>3. News'
      BY <1>0, <1>3, ReadyLoop, BlockNews DEF Queue
    <2> QED
      BY <2>2, <2>3
  <1> QED
    BY <1>1, <1>2, <1>3

\* What the first in line is.
LEMMA QueueHead ==
  ASSUME Queue, waiters # <<>>
  PROVE  /\ Head(waiters) \in Calls /\ Tail(waiters) \in Seq(Calls)
         /\ Head(waiters).op = "fire" => taskState[Head(waiters).task] \in {"fired", "done"}
         /\ \A x : In(x, waiters) <=> x = Head(waiters) \/ In(x, Tail(waiters))
  <1>1. /\ Head(waiters) \in Calls /\ Tail(waiters) \in Seq(Calls) /\ In(Head(waiters), waiters)
        /\ \A x : In(x, waiters) <=> x = Head(waiters) \/ In(x, Tail(waiters))
    BY InTail DEF Queue
  <1>2. Head(waiters).op = "fire" => taskState[Head(waiters).task] \in {"fired", "done"}
    BY <1>1 DEF Queue, QueuedFires, In
  <1> QED
    BY <1>1, <1>2

\* The lock is handed to the first in line.
LEMMA ResumeOK ==
  ASSUME Registry, Queue, News, Resume
  PROVE  Registry' /\ Queue' /\ News'
  <1> DEFINE c == Head(waiters)
  <1>1. /\ waiters # <<>> /\ lock.op = "free" /\ waiters' = Tail(waiters)
        /\ \/ Gone(c) /\ UNCHANGED <<files, news, retries, locking>>
           \/ ~Gone(c) /\ Execute(c, loop)
    BY DEF Resume
  <1>2. /\ c \in Calls /\ waiters' \in Seq(Calls)
        /\ c.op = "fire" => taskState[c.task] \in {"fired", "done"}
        /\ \A x : In(x, waiters) <=> x = c \/ In(x, waiters')
    BY <1>1, QueueHead
  <1> HIDE DEF c
  <1>3. Ready(loop, waiters', c)
    <2>1. ASSUME NEW j, NEW s, [op |-> "update", id |-> j, to |-> s] = c
          PROVE  c.op = "update" /\ c.id = j /\ c.to = s
      BY <2>1
    <2>2. ASSUME NEW j \in tracked, Lags(loop, waiters, j)
          PROVE  Lags(loop, waiters', j) \/ Excused(c, j)
      BY <1>2, <2>1, <2>2 DEF Lags, Excused
    <2> QED
      BY <2>2, NewsAlt DEF Ready
  <1>4. Registry' /\ FiresStayFired /\ News'
    <2>1. CASE Gone(c) /\ UNCHANGED <<files, news, retries, locking>>
      <3>1. Registry' /\ FiresStayFired
        BY <2>1, RegistryKept
      <3>2. c.op # "update" /\ UNCHANGED <<tracked, status, nextId, told, loop>>
        BY <2>1 DEF Gone, files, news
      <3> QED
        BY <1>1, <1>3, <3>1, <3>2, SilentNews DEF Ready
    <2>2. CASE ~Gone(c) /\ Execute(c, loop)
      <3>1. c.op = "fire" => taskState[c.task] = "fired"
        BY <1>2, <2>2 DEF Gone
      <3> QED
        BY <1>1, <1>2, <1>3, <2>2, <3>1, ExecuteOK, ExecuteNews
    <2> QED
      BY <1>1, <2>1, <2>2
  <1>5. QueuedFires'
    <2> SUFFICES ASSUME NEW x, In(x, waiters'), x.op = "fire"
                 PROVE  taskState'[x.task] \in {"fired", "done"}
      BY DEF QueuedFires, In
    <2>1. In(x, waiters)
      BY <1>2
    <2>2. x.task \in Tasks
      BY <2>1, InSeq, CallTypes DEF Queue
    <2>3. taskState[x.task] \in {"fired", "done"}
      BY <2>1 DEF Queue, QueuedFires, In
    <2> QED
      BY <1>4, <2>2, <2>3 DEF FiresStayFired
  <1> QED
    BY <1>2, <1>4, <1>5 DEF Queue

-----------------------------------------------------------------------------
(* The theorems.                                                           *)

\* An empty registry satisfies the invariant.
LEMMA InitOK == Init => Registry /\ Queue /\ News
  <1> SUFFICES ASSUME Init PROVE Registry /\ Queue /\ News
    OBVIOUS
  <1>1. TypeRegistry
    BY BoundsAssumption DEF Init, TypeRegistry, Ids, Tasks, Status, FreeLock
  <1>2. LockHolder /\ RetryLinks
    BY BoundsAssumption DEF Init, LockHolder, RetryLinks, FreeLock, Tasks, Ids, Live
  <1>3. NoOrphanRetry /\ PendingRetryRecorded
    BY DEF Init, NoOrphanRetry, PendingRetryRecorded, Live, Tasks
  <1>4. waiters \in Seq(Calls) /\ loop \in Seq(Handles) /\ DOMAIN waiters = {} /\ DOMAIN loop = {}
    BY EmptySeq DEF Init
  <1>5. Queue
    BY <1>4 DEF Queue, QueuedFires
  <1>6. NewsOfEntries /\ ViewLagsOnlySilently /\ told \in [Ids -> Status \cup {NoEvent}]
    BY <1>4 DEF Init, NewsOfEntries, ViewLagsOnlySilently
  <1> QED
    BY <1>1, <1>2, <1>3, <1>4, <1>5, <1>6 DEF Registry, News

\* The invariant is preserved by every step.
LEMMA NextOK ==
  ASSUME Registry, Queue, News, [Next]_vars
  PROVE  Registry' /\ Queue' /\ News'
  <1> DEFINE Kept == Registry' /\ Queue' /\ News'
  <1>1. ASSUME NEW c \in Calls, c.op # "fire", Call(c) PROVE Kept
    BY <1>1, CallOK
  <1> HIDE DEF Kept
  <1>2. ASSUME NEW p \in Paths, Discovered(p) PROVE Kept
    <2>1. [op |-> "add", path |-> p] \in Calls
      BY DEF Calls
    <2> QED
      BY <1>1, <1>2, <2>1 DEF Discovered
  <1>3. ASSUME NEW i \in Ids, NEW s \in Targets, StatusRequested(i, s) PROVE Kept
    <2>1. [op |-> "update", id |-> i, to |-> s] \in Calls
      BY TargetsAssumption DEF Calls
    <2> QED
      BY <1>1, <1>3, <2>1 DEF StatusRequested
  <1>4. ASSUME NEW i \in Ids, RetryRequested(i) PROVE Kept
    <2>1. [op |-> "schedule", id |-> i] \in Calls
      BY DEF Calls
    <2> QED
      BY <1>1, <1>4, <2>1 DEF RetryRequested
  <1>5. ASSUME NEW i \in Ids, RetryCancelled(i) PROVE Kept
    <2>1. [op |-> "cancel", id |-> i] \in Calls
      BY DEF Calls
    <2> QED
      BY <1>1, <1>5, <2>1 DEF RetryCancelled
  <1>6. ASSUME AllRetriesCancelled \/ RetentionEnds PROVE Kept
    <2>1. [op |-> "cancel_all"] \in Calls /\ [op |-> "old"] \in Calls
      BY DEF Calls
    <2> QED
      BY <1>1, <1>6, <2>1 DEF AllRetriesCancelled, RetentionEnds
  <1>7. ASSUME NEW present \in SUBSET Paths, ScanSaw(present) PROVE Kept
    <2>1. [op |-> "missing", present |-> present] \in Calls
      BY DEF Calls
    <2> QED
      BY <1>1, <1>7, <2>1 DEF ScanSaw
  <1>8. ASSUME NEW t \in Tasks, TimerElapsed(t) PROVE Kept
    BY <1>8, TimerElapsedOK DEF Kept
  <1>9. ASSUME NEW i \in Ids, NEW s \in Verdicts, ScannerTells(i, s) PROVE Kept
    BY <1>9, ScannerTellsOK, TargetsAssumption DEF Kept
  <1>10. ASSUME Publish \/ HandleFileStatusChanged \/ Resume PROVE Kept
    BY <1>10, PublishOK, HandleOK, ResumeOK DEF Kept
  <1>11. ASSUME EndCancel PROVE Kept
    <2>1. Registry' /\ FiresStayFired /\ News'
      BY <1>11, EndCancelOK, EndCancelNews
    <2>2. UNCHANGED waiters
      BY <1>11 DEF EndCancel
    <2> QED
      BY <2>1, <2>2, QueueKept DEF Kept
  <1>12. CASE UNCHANGED vars
    <2>1. UNCHANGED <<files, retries, locking, waiters, told, loop>>
      BY <1>12 DEF vars, news
    <2>2. Registry' /\ FiresStayFired
      BY <2>1, RegistryKept
    <2>3. News'
      BY <2>1, NewsAlt, NewsNext DEF Lags, files, locking
    <2> QED
      BY <2>1, <2>2, <2>3, QueueKept DEF Kept
  <1> QED
    BY <1>2, <1>3, <1>4, <1>5, <1>6, <1>7, <1>8, <1>9, <1>10, <1>11, <1>12 DEF Next, Kept

(***************************************************************************)
(* The types and IInv hold in every state of the registry, for any number  *)
(* of paths, entries, retries, calls waiting for the lock and events under *)
(* way.                                                                    *)
(***************************************************************************)
THEOREM Inductive == Spec => [](TypeOK /\ IInv)
  <1>1. Init => TypeOK /\ IInv
    BY InitOK, Parts
  <1>2. TypeOK /\ IInv /\ [Next]_vars => (TypeOK /\ IInv)'
    <2>1. (TypeOK /\ IInv)' <=> Registry' /\ Queue' /\ News'
      BY DEF IInv, Registry, Queue, News, Handles, TypeOK, TypeRegistry
    <2> QED
      BY <2>1, NextOK, Parts
  <1> QED
    BY <1>1, <1>2, PTL DEF Spec

(***************************************************************************)
(* Type correctness of the registry.                                       *)
(***************************************************************************)
THEOREM TypeCorrect == Spec => []TypeOK
  BY Inductive, PTL

(***************************************************************************)
(* A retry task that can still fire is always the one _retry_tasks holds   *)
(* for its entry, unless it is being cancelled right now (state_manager.py *)
(* lines 474-526).                                                         *)
(***************************************************************************)
THEOREM RetriesFiled == Spec => []NoOrphanRetry
  <1>1. IInv => NoOrphanRetry
    BY DEF IInv
  <1> QED
    BY <1>1, Inductive, PTL

(***************************************************************************)
(* A pending retry of a tracked entry always has its retry_info, without   *)
(* which it would fire in vain (lines 483-493 and 533).                    *)
(***************************************************************************)
THEOREM RetriesRecorded == Spec => []PendingRetryRecorded
  <1>1. IInv => PendingRetryRecorded
    BY DEF IInv
  <1> QED
    BY <1>1, Inductive, PTL

(***************************************************************************)
(* What the subscribers were last told of an entry, by the registry, by    *)
(* add_file's task or by the scanner, differs from its status only in the  *)
(* five ways ViewLags lists (lines 56-60, 170-177, 323-326, 408-433 and    *)
(* 543).                                                                   *)
(***************************************************************************)
THEOREM ViewBounded == Spec => []ViewLagsOnlySilently
  <1>1. IInv => ViewLagsOnlySilently
    BY DEF IInv
  <1> QED
    BY <1>1, Inductive, PTL

-----------------------------------------------------------------------------
(* What the registry tells of an update.                                   *)

\* An event of the registry in this step is true, and nothing can undo it.
TrueAndFinal(i) ==
    Announces(i) =>
        /\ told'[i] = status'[i]
        /\ told'[i] \in Terminal => NoRetryPending(i)'

\* The bodies that publish within the step.
LEMMA ExecuteAnnounces ==
  ASSUME Registry, News, lock.op = "free", NEW c \in Calls, NEW rest, Execute(c, rest), NEW i \in Ids
  PROVE  TrueAndFinal(i)
  <1>0. /\ victim = 0 /\ status \in [Ids -> Status] /\ told \in [Ids -> Status \cup {NoEvent}]
        /\ tracked \subseteq Ids
    BY DEF Registry, TypeRegistry, LockHolder, News
  <1>1. ASSUME c.op = "update", NEW j \in Ids, NEW s \in Status, UpdateStatus(j, s, rest)
        PROVE  TrueAndFinal(i)
    <2>1. CASE /\ j \in tracked /\ s \in Terminal /\ ForgetRetry(j)
               /\ UNCHANGED <<taskOf, taskState>>
               /\ status' = [status EXCEPT ![j] = s]
               /\ TellChange(j, s, rest)
      <3>1. \A t \in Tasks : Live(t) => taskOf[t] # j
        BY <1>0, <2>1 DEF ForgetRetry, Registry, NoOrphanRetry, Live, Tasks
      <3>2. NoRetryPending(j)'
        BY <2>1, <3>1 DEF NoRetryPending, Live
      <3>3. told' = told \/ told' = [told EXCEPT ![j] = s]
        BY <1>0, <2>1 DEF TellChange, Tell, TellNobody
      <3> QED
        BY <1>0, <2>1, <3>2, <3>3 DEF TrueAndFinal, Announces
    <2>2. CASE j \in tracked /\ s \notin Terminal /\ status' = [status EXCEPT ![j] = s]
               /\ TellChange(j, s, rest)
      <3>1. told' = told \/ told' = [told EXCEPT ![j] = s]
        BY <1>0, <2>2 DEF TellChange, Tell, TellNobody
      <3> QED
        BY <1>0, <2>2, <3>1 DEF TrueAndFinal, Announces
    <2>3. CASE TellNobody(rest)
      BY <2>3 DEF TrueAndFinal, Announces, TellNobody
    <2> QED
      BY <1>1, <2>1, <2>2, <2>3 DEF UpdateStatus
  <1>2. CASE UNCHANGED told
    BY <1>2 DEF TrueAndFinal, Announces
  <1>3. ASSUME NEW old \in SUBSET tracked, CleanupOld(old)
        PROVE  TrueAndFinal(i)
    BY <1>0, <1>3 DEF CleanupOld, Reset, TrueAndFinal, Announces
  <1> QED
    BY <1>1, <1>2, <1>3, CallTypes DEF Execute, AddFile, ScheduleRetry, CancelRetry,
       CancelAllRetries, FireRetry, CleanupMissing, TellNobody, news

\* update_file_status_by_id publishes after the window.
LEMMA EndCancelAnnounces ==
  ASSUME Registry, News, EndCancel, NEW i \in Ids
  PROVE  TrueAndFinal(i)
  <1>0. told \in [Ids -> Status \cup {NoEvent}]
    BY DEF News
  <1>1. victim # 0 /\ UNCHANGED status
    BY DEF EndCancel, files
  <1>2. CASE lock.owed = NoEvent
    BY <1>2 DEF EndCancel, TrueAndFinal, Announces, TellNobody, news
  <1>3. CASE lock.owed # NoEvent
    <2>1. /\ lock.op = "update" /\ lock.owed = status[lock.id] /\ lock.id \in tracked
      BY <1>3 DEF Registry, LockHolder
    <2>2. /\ taskState' = [taskState EXCEPT ![victim] = "done"]
          /\ taskOf' = [taskOf EXCEPT ![victim] = 0]
          /\ told' = [told EXCEPT ![lock.id] = lock.owed]
      BY <1>3, <2>1 DEF EndCancel, Tell
    <2>3. /\ victim \in Tasks /\ lock.id \in Ids
          /\ \A t \in Tasks : Live(t) /\ taskOf[t] = lock.id => t = victim
      BY <1>1, VictimAlone
    <2>4. PICK j \in Ids : j = lock.id
      BY <2>3
    <2>5. NoRetryPending(j)'
      BY <2>2, <2>3, <2>4 DEF NoRetryPending, Live, Registry, TypeRegistry, Tasks, Ids
    <2>6. told'[i] # told[i] => i = j /\ told'[i] = status'[i]
      BY <1>0, <1>1, <2>1, <2>2, <2>4
    <2> QED
      BY <2>5, <2>6 DEF TrueAndFinal, Announces
  <1> QED
    BY <1>2, <1>3

LEMMA NextAnnounces ==
  ASSUME Registry, Queue, News, [Next]_vars, NEW i \in Ids
  PROVE  TrueAndFinal(i)
  <1>1. ASSUME NEW c \in Calls, NEW rest, CallFrom(c, rest)
        PROVE  TrueAndFinal(i)
    BY <1>1, ExecuteAnnounces DEF CallFrom, Free, Block, TellNobody, TrueAndFinal, Announces
  <1>2. ASSUME NEW t \in Tasks, TimerElapsed(t)
        PROVE  TrueAndFinal(i)
    <2>1. [op |-> "fire", task |-> t] \in Calls
      BY DEF Calls
    <2> QED
      BY <1>2, <2>1, ExecuteAnnounces DEF TimerElapsed, Free, Block, TellNobody, TrueAndFinal, Announces
  <1>3. CASE Resume
    <2>1. Head(waiters) \in Calls /\ lock.op = "free"
      BY <1>3, QueueHead DEF Resume
    <2> QED
      BY <1>3, <2>1, ExecuteAnnounces DEF Resume, TrueAndFinal, Announces, news
  <1>4. CASE EndCancel
    BY <1>4, EndCancelAnnounces
  <1>5. CASE UNCHANGED vars \/ UNCHANGED <<files, retries, locking>>
    BY <1>5 DEF vars, TrueAndFinal, Announces
  <1>6. CASE HandleFileStatusChanged
    <2>1. [op |-> "update", id |-> Head(loop).id, to |-> Head(loop).to] \in Calls
      BY <1>6, LoopHead DEF HandleFileStatusChanged, Calls
    <2> QED
      BY <1>1, <1>6, <2>1 DEF HandleFileStatusChanged
  <1>7. CASE Publish \/ \E j \in Ids, s \in Verdicts : ScannerTells(j, s)
    BY <1>5, <1>7 DEF Publish, ScannerTells
  <1>8. /\ \A p \in Paths : [op |-> "add", path |-> p] \in Calls
        /\ \A j \in Ids, s \in Targets : [op |-> "update", id |-> j, to |-> s] \in Calls
        /\ \A j \in Ids : /\ [op |-> "schedule", id |-> j] \in Calls
                          /\ [op |-> "cancel", id |-> j] \in Calls
        /\ [op |-> "cancel_all"] \in Calls /\ [op |-> "old"] \in Calls
        /\ \A present \in SUBSET Paths : [op |-> "missing", present |-> present] \in Calls
    BY TargetsAssumption DEF Calls
  <1> QED
    BY <1>1, <1>2, <1>3, <1>4, <1>5, <1>6, <1>7, <1>8 DEF Next, Call, Discovered, StatusRequested,
       RetryRequested, RetryCancelled, AllRetriesCancelled, ScanSaw, RetentionEnds

(***************************************************************************)
(* Every FileStatusChangedEvent by which the registry tells of an update   *)
(* is true when it is published, although the call that publishes it may   *)
(* have been suspended after it fixed the event (lines 388-433).  Nothing  *)
(* is said of the events of the scanner and of add_file's task.            *)
(***************************************************************************)
THEOREM TrueEvents == Spec => EventsAreTrue
  <1>1. TypeOK /\ IInv /\ [Next]_vars =>
          [\A i \in Ids : Announces(i) => told'[i] = status'[i]]_vars
    BY NextAnnounces, Parts DEF TrueAndFinal
  <1> QED
    BY <1>1, Inductive, PTL DEF Spec, EventsAreTrue

(***************************************************************************)
(* When the registry tells that a file is COMPLETED, FAILED or REMOVED, no *)
(* retry of it is left to fire (lines 404-412 before 430-433).  A verdict  *)
(* that the scanner publishes is not of this kind.                         *)
(***************************************************************************)
THEOREM FinalEvents == Spec => DeadBeforeAnnounced
  <1>1. TypeOK /\ IInv /\ [Next]_vars =>
          [\A i \in Ids : Announces(i) /\ told'[i] \in Terminal => NoRetryPending(i)']_vars
    BY NextAnnounces, Parts DEF TrueAndFinal
  <1> QED
    BY <1>1, Inductive, PTL DEF Spec, DeadBeforeAnnounced

-----------------------------------------------------------------------------
(* The methods are atomic.                                                 *)

\* A step of the promise, or of none of its variables.
Promised == Promise!PublishingNext \/ UNCHANGED <<tracked, status, PendingRetries, Heard>>

ToldTypes == told \in [Ids -> Status \cup {NoEvent}]

\* While the lock is free there is nothing to hide.
LEMMA ViewsFree ==
  ASSUME Registry, ToldTypes, lock.op = "free"
  PROVE  /\ victim = 0 /\ todo = {} /\ lock.owed = NoEvent
         /\ \A i : i \in PendingRetries <=> i \in Ids /\ Live(retryTask[i])
         /\ Heard = told
  <1>1. victim = 0 /\ todo = {} /\ lock.owed = NoEvent
    BY DEF Registry, TypeRegistry, LockHolder
  <1>2. \A i : i \in PendingRetries <=> i \in Ids /\ Live(retryTask[i])
    BY <1>1 DEF PendingRetries
  <1>3. Heard = told
    BY <1>1 DEF Heard, ToldTypes
  <1> QED
    BY <1>1, <1>2, <1>3

\* The subscribers' view when no event is owed.
LEMMA HeardAll ==
  ASSUME lock'.owed = NoEvent, told' \in [Ids -> Status \cup {NoEvent}]
  PROVE  Heard' = told'
  BY DEF Heard

\* add_file.
LEMMA AddFileAtomic ==
  ASSUME Registry, ToldTypes, lock.op = "free", NEW p \in Paths, NEW rest, AddFile(p, rest)
  PROVE  Promised
  <1>1. /\ \A i : i \in PendingRetries <=> i \in Ids /\ Live(retryTask[i])
        /\ Heard = told /\ todo = {} /\ lock.owed = NoEvent
    BY ViewsFree
  <1>2. UNCHANGED <<told, retryInfo, retryTask, taskOf, taskState, nextTask, lock, victim, todo>>
    BY DEF AddFile, TellNobody, retries, locking
  <1>3. PendingRetries' = PendingRetries /\ Heard' = Heard
    BY <1>1, <1>2 DEF PendingRetries, Live, Heard
  <1>4. CASE UNCHANGED files
    BY <1>3, <1>4 DEF files, Promised
  <1>5. CASE /\ nextId \in Ids
             /\ tracked' = tracked \cup {nextId}
             /\ status' = [status EXCEPT ![nextId] = "DISCOVERED"]
    <2>1. nextId \notin tracked
      BY <1>5 DEF Registry, RetryLinks, Ids
    <2>2. ~Live(retryTask[nextId])
      BY <1>5 DEF Registry, TypeRegistry, RetryLinks, Live, Ids, Tasks
    <2>3. Promise!Add(nextId)
      BY <1>1, <1>3, <1>5, <2>1, <2>2 DEF Promise!Add
    <2> QED
      BY <1>3, <1>5, <2>3 DEF Promised, Promise!PublishingNext
  <1> QED
    BY <1>4, <1>5 DEF AddFile

\* update_file_status_by_id: the event that is published after the wait for
\* the retry task counts from now on.
LEMMA UpdateStatusAtomic ==
  ASSUME Registry, ToldTypes, lock.op = "free", NEW i \in Ids, NEW s \in Status, NEW rest,
         UpdateStatus(i, s, rest)
  PROVE  Promised
  <1>1. /\ \A j : j \in PendingRetries <=> j \in Ids /\ Live(retryTask[j])
        /\ Heard = told /\ todo = {} /\ lock.owed = NoEvent
    BY ViewsFree
  <1>2. CASE TellNobody(rest) /\ UNCHANGED <<files, retries, locking>>
    BY <1>2 DEF TellNobody, files, retries, locking, Promised, PendingRetries, Live, Heard
  <1>3. ASSUME i \in tracked, status' = [status EXCEPT ![i] = s], tracked' = tracked,
               PendingRetries' = IF s \in Terminal THEN PendingRetries \ {i} ELSE PendingRetries,
               Heard' = [told EXCEPT ![i] = IF status[i] = s THEN told[i] ELSE s]
        PROVE  Promised
    <2>1. Promise!Update(i, s) /\ Promise!Tell(i, IF status[i] = s THEN Heard[i] ELSE s)
      BY <1>1, <1>3 DEF Promise!Update, Promise!Tell, Terminal, Promise!Terminal
    <2> QED
      BY <2>1 DEF Promised, Promise!PublishingNext, Status, Promise!Status
  <1>4. ASSUME i \in tracked, status' = [status EXCEPT ![i] = s], UNCHANGED <<tracked, todo>>,
               s \in Terminal, StartCancel(i, "update", IF status[i] # s THEN s ELSE NoEvent),
               UNCHANGED told
        PROVE  Promised
    <2>1. /\ retryTask' = [retryTask EXCEPT ![i] = 0] /\ taskState' = taskState
          /\ lock' = [op |-> "update", id |-> i, owed |-> IF status[i] # s THEN s ELSE NoEvent]
      BY <1>4 DEF StartCancel
    <2>2. PendingRetries' = PendingRetries \ {i}
      BY <1>1, <1>4, <2>1 DEF PendingRetries, Live, Registry, TypeRegistry
    <2>3. Heard' = [told EXCEPT ![i] = IF status[i] = s THEN told[i] ELSE s]
      BY <1>4, <2>1 DEF Heard, ToldTypes, NoEvent, Status
    <2> QED
      BY <1>3, <1>4, <2>2, <2>3
  <1>5. ASSUME i \in tracked, status' = [status EXCEPT ![i] = s], UNCHANGED <<tracked, todo>>,
               TellChange(i, s, rest),
               UNCHANGED <<taskState, lock>>,
               \/ s \in Terminal /\ ForgetRetry(i)
               \/ s \notin Terminal /\ UNCHANGED retryTask
        PROVE  Promised
    <2>1. PendingRetries' = IF s \in Terminal THEN PendingRetries \ {i} ELSE PendingRetries
      BY <1>1, <1>5 DEF ForgetRetry, PendingRetries, Live, Registry, TypeRegistry
    <2>2. told' = [told EXCEPT ![i] = IF status[i] = s THEN told[i] ELSE s]
      BY <1>5 DEF TellChange, Tell, TellNobody, ToldTypes
    <2>3. Heard' = told'
      BY <1>1, <1>5, <2>2, HeardAll DEF ToldTypes
    <2> QED
      BY <1>3, <1>5, <2>1, <2>2, <2>3
  <1> QED
    BY <1>2, <1>4, <1>5 DEF UpdateStatus, retries, TellNobody

\* schedule_retry: the retry that is cancelled lives on in the one that takes
\* its place.
LEMMA ScheduleRetryAtomic ==
  ASSUME Registry, ToldTypes, lock.op = "free", NEW i \in Ids, ScheduleRetry(i)
  PROVE  Promised
  <1>1. /\ \A j : j \in PendingRetries <=> j \in Ids /\ Live(retryTask[j])
        /\ Heard = told /\ todo = {} /\ lock.owed = NoEvent /\ victim = 0
        /\ UNCHANGED <<tracked, status, told>>
    BY ViewsFree DEF ScheduleRetry, files, news
  <1>2. CASE UNCHANGED <<retries, locking>>
    BY <1>1, <1>2 DEF retries, locking, Promised, PendingRetries, Live, Heard
  <1>3. CASE i \in tracked /\ StartCancel(i, "schedule", NoEvent) /\ UNCHANGED todo
    <2>1. /\ retryTask' = [retryTask EXCEPT ![i] = 0] /\ taskState' = taskState
          /\ lock' = [op |-> "schedule", id |-> i, owed |-> NoEvent] /\ Live(retryTask[i])
      BY <1>3 DEF StartCancel
    <2>2. PendingRetries' = PendingRetries
      BY <1>1, <1>3, <2>1 DEF PendingRetries, Live, Registry, TypeRegistry
    <2>3. Heard' = Heard
      BY <1>1, <2>1, HeardAll DEF ToldTypes
    <2> QED
      BY <1>1, <2>2, <2>3 DEF Promised
  <1>4. CASE i \in tracked /\ ~Live(retryTask[i]) /\ StartRetry(i) /\ Sleeps(i) /\ UNCHANGED locking
    <2>1. /\ nextTask \in Tasks /\ retryTask' = [retryTask EXCEPT ![i] = nextTask]
          /\ taskState' = [taskState EXCEPT ![nextTask] = "sleeping"]
          /\ UNCHANGED <<lock, todo>>
      BY <1>4 DEF StartRetry, Sleeps, locking
    <2>2. \A j \in Ids : retryTask[j] # nextTask
      BY <2>1 DEF Registry, RetryLinks, TypeRegistry, Tasks
    <2>3. PendingRetries' = PendingRetries \cup {i}
      BY <1>1, <1>4, <2>1, <2>2 DEF PendingRetries, Live, Registry, TypeRegistry, Tasks
    <2>4. Heard' = Heard
      BY <1>1, <2>1 DEF Heard
    <2>5. Promise!Schedule(i)
      BY <1>1, <1>4, <2>3 DEF Promise!Schedule
    <2> QED
      BY <2>4, <2>5 DEF Promised, Promise!PublishingNext
  <1> QED
    BY <1>2, <1>3, <1>4 DEF ScheduleRetry

\* cancel_retry.
LEMMA CancelRetryAtomic ==
  ASSUME Registry, ToldTypes, lock.op = "free", NEW i \in Ids, CancelRetry(i)
  PROVE  Promised
  <1>1. /\ \A j : j \in PendingRetries <=> j \in Ids /\ Live(retryTask[j])
        /\ Heard = told /\ todo = {} /\ lock.owed = NoEvent
        /\ UNCHANGED <<tracked, status, told>>
    BY ViewsFree DEF CancelRetry, files, news
  <1>2. /\ retryTask' = [retryTask EXCEPT ![i] = 0] /\ UNCHANGED <<taskState, todo>>
        /\ lock' \in {lock, [op |-> "cancel", id |-> i, owed |-> NoEvent]}
    BY DEF CancelRetry, StartCancel, ForgetRetry, locking
  <1>3. PendingRetries' = PendingRetries \ {i}
    BY <1>1, <1>2 DEF PendingRetries, Live, Registry, TypeRegistry
  <1>4. Heard' = Heard
    BY <1>1, <1>2, HeardAll DEF ToldTypes
  <1>5. Promise!Cancel(i)
    BY <1>1, <1>3 DEF Promise!Cancel
  <1> QED
    BY <1>4, <1>5 DEF Promised, Promise!PublishingNext

\* cancel_all_retries: all retries end with the first.
LEMMA CancelAllAtomic ==
  ASSUME Registry, ToldTypes, lock.op = "free", CancelAllRetries
  PROVE  Promised
  <1> DEFINE recorded == {j \in tracked : retryInfo[j]}
             running == {j \in recorded : Live(retryTask[j])}
             over == recorded \ running
  <1>1. /\ \A j : j \in PendingRetries <=> j \in Ids /\ Live(retryTask[j])
        /\ Heard = told /\ todo = {} /\ lock.owed = NoEvent /\ victim = 0
        /\ UNCHANGED <<tracked, status, told, taskState>>
    BY ViewsFree DEF CancelAllRetries, files, news
  <1>2. \A j \in Ids : j \in running <=> j \in tracked /\ Live(retryTask[j])
    <2>1. ASSUME NEW j \in Ids, j \in tracked, Live(retryTask[j])
          PROVE  retryInfo[j]
      <3>1. retryTask[j] \in Tasks /\ taskOf[retryTask[j]] = j
        BY <2>1 DEF Registry, TypeRegistry, RetryLinks, Live
      <3> QED
        BY <1>1, <2>1, <3>1 DEF Registry, PendingRetryRecorded, Tasks
    <2> QED
      BY <2>1
  <1>3. \/ /\ running = {} /\ retryTask' = Reset(retryTask, over, 0) /\ UNCHANGED <<lock, todo>>
        \/ \E i \in running :
              /\ retryTask' = Reset(retryTask, over \cup {i}, 0)
              /\ lock' = [op |-> "cancel_all", id |-> i, owed |-> NoEvent]
              /\ todo' = running \ {i}
    BY DEF CancelAllRetries, locking
  <1>4. /\ running \subseteq Ids
        /\ \A j \in Ids : j \in over => ~Live(retryTask[j])
    BY DEF Registry, TypeRegistry
  <1> HIDE DEF running, recorded, over
  <1>5. PendingRetries' = PendingRetries \ tracked
    <2>1. CASE running = {} /\ retryTask' = Reset(retryTask, over, 0) /\ UNCHANGED <<lock, todo>>
      <3>1. \A j \in Ids : Live(retryTask[j])' <=> Live(retryTask[j])
        BY <1>1, <1>4, <2>1 DEF Live, Reset
      <3> QED
        BY <1>1, <1>2, <2>1, <3>1 DEF PendingRetries
    <2>2. ASSUME NEW i \in running, retryTask' = Reset(retryTask, over \cup {i}, 0),
                 lock' = [op |-> "cancel_all", id |-> i, owed |-> NoEvent],
                 todo' = running \ {i}
          PROVE  PendingRetries' = PendingRetries \ tracked
      <3>1. \A j \in Ids : Live(retryTask[j])' <=> j # i /\ Live(retryTask[j])
        BY <1>1, <1>4, <2>2 DEF Live, Reset
      <3> QED
        BY <1>1, <1>2, <2>2, <3>1 DEF PendingRetries
    <2> QED
      BY <1>3, <2>1, <2>2
  <1>6. Heard' = Heard
    <2>1. CASE UNCHANGED lock
      BY <1>1, <2>1 DEF Heard
    <2>2. ASSUME NEW i, lock' = [op |-> "cancel_all", id |-> i, owed |-> NoEvent]
          PROVE  Heard' = Heard
      BY <1>1, <2>2, HeardAll DEF ToldTypes
    <2> QED
      BY <1>3, <2>1, <2>2
  <1>7. Promise!CancelAll
    BY <1>1, <1>5 DEF Promise!CancelAll
  <1> QED
    BY <1>6, <1>7 DEF Promised, Promise!PublishingNext

\* _execute_retry_task: only the pending retry of an entry fires, and it finds
\* its retry_info.
LEMMA FireRetryAtomic ==
  ASSUME Registry, ToldTypes, lock.op = "free", NEW t \in Tasks,
         taskState[t] \in {"sleeping", "fired"}, FireRetry(t)
  PROVE  Promised
  <1> DEFINE i == taskOf[t]
  <1>1. /\ \A j : j \in PendingRetries <=> j \in Ids /\ Live(retryTask[j])
        /\ Heard = told /\ todo = {} /\ lock.owed = NoEvent /\ victim = 0
        /\ UNCHANGED <<tracked, told, lock, todo>>
        /\ taskState' = [taskState EXCEPT ![t] = "done"]
    BY ViewsFree DEF FireRetry, locking, news
  <1>2. /\ i \in Ids /\ Live(t) /\ retryTask[i] = t
        /\ i \in tracked => retryInfo[i]
    BY <1>1 DEF Registry, TypeRegistry, NoOrphanRetry, PendingRetryRecorded, RetryLinks, Live, Tasks
  <1>3. \A j \in Ids \ {i} : retryTask[j] # t
    BY <1>2 DEF Registry, RetryLinks, Live
  <1>4. \/ ~(i \in tracked /\ status[i] = "WAITING_FOR_SPACE") /\ UNCHANGED <<status, retryTask>>
        \/ /\ i \in tracked /\ status[i] = "WAITING_FOR_SPACE"
           /\ status' = [status EXCEPT ![i] = "READY"]
           /\ retryTask' = [retryTask EXCEPT ![i] = 0]
    BY <1>2 DEF FireRetry
  <1> HIDE DEF i
  <1>5. PendingRetries' = PendingRetries \ {i}
    <2>1. \A j \in Ids : Live(retryTask[j])' <=> j # i /\ Live(retryTask[j])
      BY <1>1, <1>2, <1>3, <1>4 DEF Live, Registry, TypeRegistry
    <2> QED
      BY <1>1, <2>1 DEF PendingRetries
  <1>6. Heard' = Heard
    BY <1>1 DEF Heard
  <1>7. status' = [status EXCEPT ![i] =
                      IF i \in tracked /\ @ = "WAITING_FOR_SPACE" THEN "READY" ELSE @]
    BY <1>2, <1>4 DEF Registry, TypeRegistry
  <1>8. Promise!Fire(i)
    BY <1>1, <1>2, <1>5, <1>7 DEF Promise!Fire
  <1> QED
    BY <1>2, <1>6, <1>8 DEF Promised, Promise!PublishingNext

\* cleanup_missing_files.
LEMMA CleanupMissingAtomic ==
  ASSUME Registry, ToldTypes, lock.op = "free", NEW present, CleanupMissing(present)
  PROVE  Promised
  <1> DEFINE missing == Missing(present)
  <1>1. /\ UNCHANGED <<tracked, told, retryTask, taskState, lock, todo>>
        /\ PendingRetries' = PendingRetries /\ Heard' = Heard
    BY DEF CleanupMissing, retries, locking, news, PendingRetries, Live, Heard
  <1>2. /\ missing \in SUBSET tracked
        /\ \A i \in missing : status[i] \notin KeptWhenMissing
        /\ status' = [i \in Ids |-> IF i \in missing THEN "REMOVED" ELSE status[i]]
    BY DEF Missing, CleanupMissing, Reset
  <1> HIDE DEF missing
  <1>3. Promise!Sweep(missing)
    BY <1>1, <1>2 DEF Promise!Sweep, KeptWhenMissing, Promise!KeptWhenMissing
  <1> QED
    BY <1>1, <1>2, <1>3 DEF Promised, Promise!PublishingNext

\* cleanup_old_files.
LEMMA CleanupOldAtomic ==
  ASSUME Registry, ToldTypes, lock.op = "free", NEW old \in SUBSET tracked, CleanupOld(old)
  PROVE  Promised
  <1>1. /\ tracked' = tracked \ old
        /\ status' = [i \in Ids |-> IF i \in old THEN "DISCOVERED" ELSE status[i]]
        /\ told' = [i \in Ids |-> IF i \in old THEN NoEvent ELSE told[i]]
        /\ UNCHANGED <<retryTask, taskState, lock, todo>>
    BY DEF CleanupOld, Reset, locking
  <1>2. PendingRetries' = PendingRetries
    BY <1>1 DEF PendingRetries, Live
  <1>3. Heard = told /\ Heard' = told'
    BY <1>1, ViewsFree, HeardAll DEF ToldTypes
  <1>4. Promise!Forget(old)
    BY <1>1, <1>2 DEF Promise!Forget
  <1> QED
    BY <1>1, <1>3, <1>4 DEF Promised, Promise!PublishingNext, NoEvent

\* Whatever the call, its body does what the promise says of it.
LEMMA ExecuteAtomic ==
  ASSUME Registry, ToldTypes, lock.op = "free", NEW c \in Calls, NEW rest, Execute(c, rest),
         c.op = "fire" => taskState[c.task] \in {"sleeping", "fired"}
  PROVE  Promised
  BY CallTypes, AddFileAtomic, UpdateStatusAtomic, ScheduleRetryAtomic, CancelRetryAtomic,
     CancelAllAtomic, FireRetryAtomic, CleanupMissingAtomic, CleanupOldAtomic DEF Execute

\* The second half of a method that was suspended adds nothing.
LEMMA EndCancelHidden ==
  ASSUME Registry, ToldTypes, EndCancel
  PROVE  Promised
  <1>1. /\ victim \in Tasks /\ lock.id \in Ids /\ lock.op # "free"
        /\ Live(victim) /\ taskOf[victim] = lock.id /\ retryTask[lock.id] = 0
        /\ UNCHANGED <<tracked, status>>
    BY VictimAlone DEF EndCancel, files
  <1>2. \A j \in Ids : retryTask[j] # victim
    BY <1>1 DEF Registry, RetryLinks, Tasks
  <1>3. /\ lock.owed # NoEvent => lock.op = "update" /\ lock.owed = status[lock.id] /\ lock.id \in tracked
        /\ todo # {} => lock.op = "cancel_all"
    BY DEF Registry, LockHolder
  <1>4. Heard' = Heard
    <2>1. CASE lock.owed = NoEvent
      <3>1. UNCHANGED told /\ lock'.owed = NoEvent
        BY <2>1 DEF EndCancel, TellNobody, news, FreeLock
      <3> QED
        BY <2>1, <3>1 DEF Heard
    <2>2. CASE lock.owed # NoEvent
      <3>1. told' = [told EXCEPT ![lock.id] = lock.owed] /\ lock'.owed = NoEvent
        BY <1>3, <2>2 DEF EndCancel, Tell, FreeLock
      <3> QED
        BY <1>1, <2>2, <3>1 DEF Heard, ToldTypes
    <2> QED
      BY <2>1, <2>2
  <1>5. ASSUME lock.op # "schedule"
        PROVE  /\ taskState' = [taskState EXCEPT ![victim] = "done"]
               /\ \A j \in Ids : taskState'[retryTask[j]] = taskState[retryTask[j]] \/ retryTask[j] = 0
    BY <1>1, <1>2, <1>5 DEF EndCancel, Registry, TypeRegistry
  <1>6. CASE lock.op \in {"update", "cancel"} \/ (lock.op = "cancel_all" /\ todo = {})
    <2>1. lock' = FreeLock /\ UNCHANGED <<todo, retryTask>> /\ todo = {}
      BY <1>3, <1>6 DEF EndCancel
    <2>2. PendingRetries' = PendingRetries
      BY <1>5, <1>6, <2>1 DEF PendingRetries, Live, FreeLock
    <2> QED
      BY <1>1, <1>4, <2>2 DEF Promised
  <1>7. CASE lock.op = "schedule"
    <2>1. /\ nextTask \in Tasks /\ retryTask' = [retryTask EXCEPT ![lock.id] = nextTask]
          /\ taskState' = [taskState EXCEPT ![victim] = "done", ![nextTask] = "sleeping"]
          /\ todo = {} /\ todo' = {} /\ lock' = FreeLock
      BY <1>3, <1>7 DEF StartRetry, EndCancel
    <2>2. \A j \in Ids : retryTask[j] # nextTask
      BY <2>1 DEF Registry, RetryLinks, TypeRegistry, Tasks
    <2>3. ASSUME NEW j \in Ids
          PROVE  Live(retryTask[j])' <=> j = lock.id \/ Live(retryTask[j])
      BY <1>1, <1>2, <2>1, <2>2 DEF Live, Registry, TypeRegistry, Tasks
    <2>4. PendingRetries' = PendingRetries
      BY <1>1, <1>7, <2>1, <2>3 DEF PendingRetries, FreeLock
    <2> QED
      BY <1>1, <1>4, <2>4 DEF Promised
  <1>8. ASSUME NEW i \in todo, lock.op = "cancel_all", retryTask' = [retryTask EXCEPT ![i] = 0],
               lock' = [op |-> "cancel_all", id |-> i, owed |-> NoEvent],
               todo' = todo \ {i}
        PROVE  Promised
    <2>1. \A j \in Ids : Live(retryTask[j])' <=> j # i /\ Live(retryTask[j])
      BY <1>5, <1>8 DEF Live, Registry, TypeRegistry
    <2>2. PendingRetries' = PendingRetries
      BY <1>8, <2>1 DEF PendingRetries
    <2> QED
      BY <1>1, <1>4, <2>2 DEF Promised
  <1> QED
    BY <1>6, <1>7, <1>8 DEF EndCancel

\* To wait for the lock is nothing.
LEMMA BlockHidden ==
  ASSUME Registry, NEW c, NEW rest, Block(c, rest),
         \A t \in Tasks : Live(t)' <=> Live(t)
  PROVE  Promised
  <1>1. UNCHANGED <<tracked, status, told, retryTask, lock, todo>>
    BY DEF Block, TellNobody, files, locking
  <1>2. \A i \in Ids : Live(retryTask[i])' <=> Live(retryTask[i])
    BY <1>1 DEF Registry, TypeRegistry, Live
  <1>3. PendingRetries' = PendingRetries /\ Heard' = Heard
    BY <1>1, <1>2 DEF PendingRetries, Heard
  <1> QED
    BY <1>1, <1>3 DEF Promised

\* What others publish changes what is heard, unless it was not kept or the
\* registry's own event is still to follow.
LEMMA TellPromised ==
  ASSUME Registry, ToldTypes, NEW i \in Ids, NEW s \in Status, NEW rest, Tell(i, s, rest),
         UNCHANGED <<files, retries, locking>>
  PROVE  Promised
  <1>1. /\ UNCHANGED <<tracked, status, retryTask, taskState, lock, todo>>
        /\ told' = [told EXCEPT ![i] = IF i \in tracked THEN s ELSE @]
    BY DEF files, retries, locking, Tell
  <1>2. PendingRetries' = PendingRetries
    BY <1>1 DEF PendingRetries, Live
  <1>3. Heard' = Heard \/ Heard' = [Heard EXCEPT ![i] = s]
    <2>1. CASE i \in tracked /\ ~(lock.id = i /\ lock.owed # NoEvent)
      BY <1>1, <2>1 DEF Heard, ToldTypes
    <2>2. CASE i \notin tracked \/ (lock.id = i /\ lock.owed # NoEvent)
      BY <1>1, <2>2 DEF Heard, ToldTypes
    <2> QED
      BY <2>1, <2>2
  <1>4. CASE Heard' = Heard
    BY <1>1, <1>2, <1>4 DEF Promised
  <1>5. CASE Heard' = [Heard EXCEPT ![i] = s]
    <2>1. Promise!Tell(i, s) /\ UNCHANGED Promise!fileVars
      BY <1>1, <1>2, <1>5 DEF Promise!Tell, Promise!fileVars
    <2> QED
      BY <2>1 DEF Promised, Promise!PublishingNext, Status, Promise!Status
  <1> QED
    BY <1>3, <1>4, <1>5

\* Every step of the registry is one of the promise.
LEMMA NextAtomic ==
  ASSUME Registry, Queue, News, [Next]_vars
  PROVE  Promised
  <1>0. ToldTypes
    BY DEF News, ToldTypes
  <1>1. ASSUME NEW c \in Calls, c.op # "fire", NEW rest, CallFrom(c, rest)
        PROVE  Promised
    <2>1. CASE Free /\ Execute(c, rest)
      BY <1>0, <1>1, <2>1, ExecuteAtomic DEF Free
    <2>2. CASE Block(c, rest) /\ UNCHANGED taskState
      BY <2>2, BlockHidden DEF Live
    <2> QED
      BY <1>1, <2>1, <2>2 DEF CallFrom
  <1>2. ASSUME NEW t \in Tasks, TimerElapsed(t)
        PROVE  Promised
    <2> DEFINE c == [op |-> "fire", task |-> t]
    <2>1. c \in Calls /\ c.op = "fire" /\ c.task = t /\ taskState[t] = "sleeping"
      BY <1>2 DEF Calls, TimerElapsed
    <2>2. \/ Free /\ Execute(c, loop)
          \/ Block(c, loop) /\ taskState' = [taskState EXCEPT ![t] = "fired"]
      BY <1>2 DEF TimerElapsed
    <2> HIDE DEF c
    <2>3. CASE Free /\ Execute(c, loop)
      BY <1>0, <2>1, <2>3, ExecuteAtomic DEF Free
    <2>4. CASE Block(c, loop) /\ taskState' = [taskState EXCEPT ![t] = "fired"]
      <3>1. \A u \in Tasks : Live(u)' <=> Live(u)
        BY <2>1, <2>4 DEF Live, Registry, TypeRegistry
      <3> QED
        BY <2>4, <3>1, BlockHidden
    <2> QED
      BY <2>2, <2>3, <2>4
  <1>3. CASE Resume
    <2>1. /\ lock.op = "free" /\ Head(waiters) \in Calls
          /\ Head(waiters).op = "fire" => taskState[Head(waiters).task] \in {"fired", "done"}
      BY <1>3, QueueHead DEF Resume
    <2>2. CASE UNCHANGED <<files, news, retries, locking>>
      BY <2>2 DEF files, news, retries, locking, Promised, PendingRetries, Live, Heard
    <2>3. CASE ~Gone(Head(waiters)) /\ Execute(Head(waiters), loop)
      BY <1>0, <2>1, <2>3, ExecuteAtomic DEF Gone
    <2> QED
      BY <1>3, <2>2, <2>3 DEF Resume
  <1>4. CASE EndCancel
    BY <1>0, <1>4, EndCancelHidden
  <1>5. CASE UNCHANGED vars
    BY <1>5 DEF vars, files, news, retries, locking, Promised, PendingRetries, Live, Heard
  <1>6. CASE HandleFileStatusChanged
    <2>1. [op |-> "update", id |-> Head(loop).id, to |-> Head(loop).to] \in Calls
      BY <1>6, LoopHead DEF HandleFileStatusChanged, Calls
    <2> QED
      BY <1>1, <1>6, <2>1 DEF HandleFileStatusChanged
  <1>7. CASE Publish
    BY <1>0, <1>7, LoopHead, TellPromised DEF Publish
  <1>8. ASSUME NEW i \in Ids, NEW s \in Verdicts, ScannerTells(i, s)
        PROVE  Promised
    BY <1>0, <1>8, TellPromised, TargetsAssumption DEF ScannerTells
  <1>9. /\ \A p \in Paths : [op |-> "add", path |-> p] \in Calls
        /\ \A i \in Ids, s \in Targets : [op |-> "update", id |-> i, to |-> s] \in Calls
        /\ \A i \in Ids : /\ [op |-> "schedule", id |-> i] \in Calls
                          /\ [op |-> "cancel", id |-> i] \in Calls
        /\ [op |-> "cancel_all"] \in Calls /\ [op |-> "old"] \in Calls
        /\ \A present \in SUBSET Paths : [op |-> "missing", present |-> present] \in Calls
    BY TargetsAssumption DEF Calls
  <1>10. ASSUME NEW i \in Ids, RetryRequested(i) \/ RetryCancelled(i)
         PROVE  Promised
    BY <1>1, <1>9, <1>10 DEF Call, RetryRequested, RetryCancelled
  <1>11. ASSUME \/ \E p \in Paths : Discovered(p)
                \/ \E i \in Ids, s \in Targets : StatusRequested(i, s)
         PROVE  Promised
    BY <1>1, <1>9, <1>11 DEF Call, Discovered, StatusRequested
  <1>12. ASSUME \/ AllRetriesCancelled \/ RetentionEnds
                \/ \E present \in SUBSET Paths : ScanSaw(present)
         PROVE  Promised
    BY <1>1, <1>9, <1>12 DEF Call, AllRetriesCancelled, RetentionEnds, ScanSaw
  <1> QED
    BY <1>2, <1>3, <1>4, <1>5, <1>6, <1>7, <1>8, <1>10, <1>11, <1>12 DEF Next

(***************************************************************************)
(* The methods of the registry are atomic: what anybody sees who holds the *)
(* lock is the work of whole methods, although update_file_status_by_id,   *)
(* schedule_retry, cancel_retry and cancel_all_retries suspend inside      *)
(* (lines 377-434, 474-526, 567-580).                                      *)
(***************************************************************************)
THEOREM AtomicMethods == Spec => MethodsAreAtomic
  <1>1. Init => Promise!PublishingInit
    <2> SUFFICES ASSUME Init
                 PROVE  Promise!PublishingInit
      OBVIOUS
    <2>1. Registry /\ ToldTypes /\ lock.op = "free"
      BY InitOK DEF Init, FreeLock, News, ToldTypes
    <2>2. \A i \in Ids : ~Live(retryTask[i])
      BY DEF Init, Live
    <2>3. PendingRetries = {} /\ Heard = told
      BY <2>1, <2>2, ViewsFree
    <2> QED
      BY <2>3 DEF Init, NoEvent, Promise!PublishingInit, Promise!Init
  <1>2. TypeOK /\ IInv /\ [Next]_vars =>
            [Promise!PublishingNext]_<<Promise!fileVars, Heard>>
    BY NextAtomic, Parts DEF Promised, Promise!fileVars
  <1> QED
    BY <1>1, <1>2, Inductive, PTL DEF Spec, MethodsAreAtomic, Promise!PublishingSpec
=============================================================================
