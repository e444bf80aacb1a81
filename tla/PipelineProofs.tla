--------------------------- MODULE PipelineProofs ---------------------------
(***************************************************************************)
(* Proofs about the pipeline, for every number of files and workers and    *)
(* any length of the event loop's queue: its types, that a file that       *)
(* waits for space has a retry, and that a queued file has a job.          *)
(*                                                                         *)
(* The argument is about the event loop.  A handle is put into its queue   *)
(* by a coroutine that runs, so it is the only one for that coroutine, and *)
(* the coroutine does not move before it.  Control speaks of this, Shared  *)
(* of the status and the retries, Queueing of the jobs, Remaining of the   *)
(* types of the rest.  At the end, that all changes of a file are methods  *)
(* of TrackedFiles.                                                        *)
(***************************************************************************)
EXTENDS Pipeline, SequenceTheorems, TLAPS

Control ==
    /\ getters \in Seq(Workers)
    /\ cpu \in Procs \cup {None}
    /\ pc \in [Procs -> Phases]
    /\ cur \in [Procs -> Files \cup {None}]
    /\ loop \in Seq(Handles)
    /\ OneHandleEach
    /\ RunningIsAwake
    /\ GettersBlocked
    /\ BusyWithFile
    /\ SpaceIsTold

Shared ==
    /\ status \in [Files -> Status]
    /\ retry \in [Files -> BOOLEAN]
    /\ WaitingHasRetry

Remaining ==
    /\ present \in [Files -> BOOLEAN]
    /\ measured \subseteq Files
    /\ jobs \in Seq(Files)
    /\ dropped \subseteq Files
    /\ todo \in [Procs -> SUBSET Files]

Queueing == LeavingIsTold /\ QueuedIsAtHand

\* The invariant is the conjunction of its four parts.
LEMMA Parts ==
  TypeOK /\ WaitingHasRetry /\ IInv <=> Control /\ Shared /\ Remaining /\ Queueing
  BY DEF IInv, TypeOK, Control, Shared, Remaining, Queueing

\* The coroutines are the workers and three more; None is none of them.
LEMMA ProcsNamed ==
  /\ Workers \subseteq Procs
  /\ {"scanner", "monitor", "recovery"} \subseteq Procs \ Workers
  /\ None \notin Procs
  /\ None \notin Files
  BY WorkersAssumption, NoneAssumption DEF Procs

-----------------------------------------------------------------------------
(* Queues of handles.                                                      *)

\* No handle of l is for k.
Free(l, k) == \A i \in DOMAIN l : l[i].for # k

Proper(l) ==
    /\ l \in Seq(Handles)
    /\ \A i, j \in DOMAIN l : l[i].for = l[j].for /\ l[i].for # None => i = j

\* The handles of m are handles of l, or in new.
From(m, l, new) == \A i \in DOMAIN m : m[i] \in new \/ \E j \in DOMAIN l : m[i] = l[j]

\* A handle for somebody who has none is appended.
LEMMA AppendedHandle ==
  ASSUME NEW l, Proper(l), NEW h \in Handles, h.for = None \/ Free(l, h.for)
  PROVE  Proper(Append(l, h)) /\ From(Append(l, h), l, {h})
  <1>1. /\ Append(l, h) \in Seq(Handles)
        /\ Len(Append(l, h)) = Len(l) + 1
        /\ \A i \in 1..Len(l) : Append(l, h)[i] = l[i]
        /\ Append(l, h)[Len(l) + 1] = h
    BY AppendProperties DEF Proper
  <1>2. DOMAIN l = 1..Len(l) /\ DOMAIN Append(l, h) = 1..(Len(l) + 1) /\ Len(l) \in Nat
    BY <1>1, LenProperties DEF Proper
  <1>3. From(Append(l, h), l, {h})
    BY <1>1, <1>2 DEF From
  <1>4. ASSUME NEW i \in DOMAIN Append(l, h), NEW j \in DOMAIN Append(l, h),
               Append(l, h)[i].for = Append(l, h)[j].for, Append(l, h)[i].for # None
        PROVE  i = j
    <2>1. CASE i \in 1..Len(l) /\ j \in 1..Len(l)
      BY <1>1, <1>2, <1>4, <2>1 DEF Proper
    <2>2. CASE i = Len(l) + 1 /\ j \in 1..Len(l)
      BY <1>1, <1>2, <1>4, <2>2 DEF Free
    <2>3. CASE i \in 1..Len(l) /\ j = Len(l) + 1
      BY <1>1, <1>2, <1>4, <2>3 DEF Free
    <2> QED
      BY <1>2, <2>1, <2>2, <2>3
  <1> QED
    BY <1>1, <1>3, <1>4 DEF Proper

\* The first handle is taken, and was the only one of its coroutine.
LEMMA TakenHandle ==
  ASSUME NEW l, Proper(l), l # <<>>
  PROVE  /\ Proper(Tail(l)) /\ From(Tail(l), l, {})
         /\ Head(l) \in Handles /\ \E i \in DOMAIN l : l[i] = Head(l)
         /\ Head(l).for # None => Free(Tail(l), Head(l).for)
         /\ \A k : Free(l, k) => Free(Tail(l), k)
  <1>1. /\ Head(l) \in Handles /\ Tail(l) \in Seq(Handles)
        /\ Len(l) \in Nat /\ Len(l) # 0 /\ Len(Tail(l)) = Len(l) - 1
        /\ \A i \in 1..Len(Tail(l)) : Tail(l)[i] = l[i + 1]
        /\ Head(l) = l[1]
    BY HeadTailProperties, EmptySeq, LenProperties DEF Proper
  <1>2. DOMAIN l = 1..Len(l) /\ DOMAIN Tail(l) = 1..(Len(l) - 1)
    BY <1>1, LenProperties DEF Proper
  <1>3. \A i \in DOMAIN Tail(l) : i + 1 \in DOMAIN l /\ Tail(l)[i] = l[i + 1] /\ i + 1 # 1
    BY <1>1, <1>2
  <1>4. Proper(Tail(l))
    BY <1>1, <1>2, <1>3 DEF Proper
  <1>5. From(Tail(l), l, {}) /\ \A k : Free(l, k) => Free(Tail(l), k)
    BY <1>3 DEF From, Free
  <1>6. 1 \in DOMAIN l
    BY <1>1, <1>2
  <1>7. Head(l).for # None => Free(Tail(l), Head(l).for)
    BY <1>1, <1>3, <1>6 DEF Proper, Free
  <1> QED
    BY <1>1, <1>4, <1>5, <1>6, <1>7

\* What comes from a queue without a handle for k, and no new one, has none.
LEMMA FreeFrom ==
  ASSUME NEW l, NEW m, NEW new, NEW k, From(m, l, new), Free(l, k), \A h \in new : h.for # k
  PROVE  Free(m, k)
  BY DEF From, Free

\* The events of a status change (state_manager.py, lines 386-434).
LEMMA EventsProper ==
  ASSUME NEW l, Proper(l), NEW f \in Files, NEW s \in Status, NEW k \in Procs \cup {None},
         k = None \/ Free(l, k)
  PROVE  /\ Proper(l \o Events(f, s, k))
         /\ From(l \o Events(f, s, k), l, {Tell(f, s, k), Handle("ready", f, None, None)})
         /\ status[f] = s => l \o Events(f, s, k) = l
  <1> DEFINE tell == Tell(f, s, k)
             ready == Handle("ready", f, None, None)
  <1>1. tell \in Handles /\ ready \in Handles /\ tell.for = k /\ ready.for = None
    BY DEF Tell, Handle, Handles
  <1>2. l \in Seq(Handles)
    BY DEF Proper
  <1>3. CASE status[f] = s
    <2>1. l \o Events(f, s, k) = l
      BY <1>2, <1>3, ConcatEmptySeq DEF Events
    <2> QED
      BY <2>1 DEF From
  <1>4. CASE status[f] # s /\ s = "READY"
    <2>1. Proper(Append(l, ready)) /\ From(Append(l, ready), l, {ready})
      BY <1>1, AppendedHandle
    <2>2. k = None \/ Free(Append(l, ready), k)
      BY <1>1, <2>1 DEF From, Free
    <2>3. /\ Proper(Append(Append(l, ready), tell))
          /\ From(Append(Append(l, ready), tell), Append(l, ready), {tell})
      BY <1>1, <2>1, <2>2, AppendedHandle
    <2>4. From(Append(Append(l, ready), tell), l, {tell, ready})
      BY <2>1, <2>3 DEF From
    <2>5. l \o <<ready, tell>> = Append(Append(l, ready), tell)
      BY <1>1, <1>2
    <2> QED
      BY <1>4, <2>3, <2>4, <2>5 DEF Events
  <1>5. CASE status[f] # s /\ s # "READY"
    <2>1. Proper(Append(l, tell)) /\ From(Append(l, tell), l, {tell})
      BY <1>1, AppendedHandle
    <2>2. l \o <<tell>> = Append(l, tell)
      BY <1>1, <1>2
    <2> QED
      BY <1>5, <2>1, <2>2 DEF Events, From
  <1> QED
    BY <1>3, <1>4, <1>5

-----------------------------------------------------------------------------
(* Coroutines that run.                                                    *)

\* Coroutine k has moved to next, with f, and left new handles behind.
Moved(k, f, next, new) ==
    /\ pc' = [pc EXCEPT ![k] = next]
    /\ cur' = [cur EXCEPT ![k] = IF next \in Idle THEN None ELSE f]
    /\ Proper(loop') /\ From(loop', loop, new)
    /\ cpu' = None \/ (cpu' = k /\ loop' = loop)

\* A step of the coroutine that runs keeps the order of the event loop, if it
\* tells of WAITING_FOR_SPACE only where it goes on to schedule the retry.
LEMMA MovedControl ==
  ASSUME Control, NEW k \in Procs, cpu = k, NEW f \in Files \cup {None},
         NEW next \in Phases, NEW new, Moved(k, f, next, new), UNCHANGED getters,
         next \notin Idle => f \in Files,
         \A h \in new : h.for \in {k, None},
         \A h \in new : h.do = "tell" /\ h.to = "WAITING_FOR_SPACE" =>
                          k \in Workers /\ h.for = k /\ next = "schedule" /\ h.file = f
  PROVE  Control'
  <1>1. /\ pc \in [Procs -> Phases] /\ pc' \in [Procs -> Phases]
        /\ pc'[k] = next /\ \A j \in Procs \ {k} : pc'[j] = pc[j]
    BY DEF Control, Moved
  <1>2. /\ cur \in [Procs -> Files \cup {None}] /\ cur' \in [Procs -> Files \cup {None}]
        /\ cur'[k] = (IF next \in Idle THEN None ELSE f) /\ \A j \in Procs \ {k} : cur'[j] = cur[j]
    BY DEF Control, Moved
  <1>3. Free(loop, k) /\ k # None
    BY ProcsNamed DEF Control, RunningIsAwake, Awaits, Free
  <1>4. OneHandleEach' /\ loop' \in Seq(Handles) /\ cpu' \in Procs \cup {None}
    BY DEF Moved, Proper, OneHandleEach
  <1>5. RunningIsAwake'
    BY <1>3 DEF Moved, RunningIsAwake, Awaits, Free
  <1>6. GettersBlocked'
    <2>1. ASSUME NEW i \in DOMAIN getters
          PROVE  pc'[getters[i]] = "get" /\ cpu' # getters[i] /\ ~Awaits(getters[i])'
      <3>1. /\ pc[getters[i]] = "get" /\ getters[i] # k /\ Free(loop, getters[i])
            /\ getters[i] \in Procs /\ getters[i] # None
        BY <2>1, ElementOfSeq, LenProperties, ProcsNamed
           DEF Control, GettersBlocked, Awaits, Free
      <3>2. Free(loop', getters[i])
        BY <3>1 DEF Moved, From, Free
      <3> QED
        BY <1>1, <3>1, <3>2 DEF Moved, Free, Awaits
    <2> QED
      BY <2>1 DEF Control, GettersBlocked
  <1>7. BusyWithFile'
    BY <1>1, <1>2 DEF Control, BusyWithFile
  <1>8. SpaceIsTold'
    <2>1. ASSUME NEW i \in DOMAIN loop', loop'[i].do = "tell", loop'[i].to = "WAITING_FOR_SPACE"
          PROVE  /\ loop'[i].for \in Workers /\ pc'[loop'[i].for] = "schedule"
                 /\ cur'[loop'[i].for] = loop'[i].file
      <3>1. CASE loop'[i] \in new
        BY <1>1, <1>2, <2>1, <3>1 DEF Idle
      <3>2. ASSUME NEW j \in DOMAIN loop, loop'[i] = loop[j]
            PROVE  /\ loop[j].for \in Workers /\ pc'[loop[j].for] = "schedule"
                   /\ cur'[loop[j].for] = loop[j].file
        BY <1>1, <1>2, <1>3, <2>1, <3>2, ProcsNamed DEF Control, SpaceIsTold, Free
      <3> QED
        BY <3>1, <3>2 DEF Moved, From
    <2> QED
      BY <2>1 DEF SpaceIsTold
  <1> QED
    BY <1>1, <1>2, <1>4, <1>5, <1>6, <1>7, <1>8 DEF Control

\* Coroutine k suspends or goes on, and nothing is written.
LEMMA Paused ==
  ASSUME Control, NEW k \in Procs, cpu = k, NEW f \in Files \cup {None}, NEW next \in Phases,
         Suspend(k, f, next) \/ Continue(k, f, next), UNCHANGED getters,
         next \notin Idle => f \in Files
  PROVE  Control'
  <1>1. Moved(k, f, next, {})
    BY DEF Moved, Suspend, Continue, Goes, Idle, From, Control, Proper, OneHandleEach
  <1> QED
    BY <1>1, MovedControl

\* Where a worker has left no "schedule", who waits for space has a retry still.
LEMMA StillWaiting ==
  ASSUME Control, Shared, NEW k \in Procs, pc[k] # "schedule", NEW next, NEW g,
         pc' = [pc EXCEPT ![k] = next], cur' = [cur EXCEPT ![k] = g],
         \A f \in Files : status'[f] = "WAITING_FOR_SPACE" =>
             status[f] = "WAITING_FOR_SPACE" /\ (retry[f] => retry'[f])
  PROVE  WaitingHasRetry'
  <1>1. \A w \in Workers : pc[w] = "schedule" => pc'[w] = "schedule" /\ cur'[w] = cur[w]
    BY ProcsNamed DEF Control
  <1> QED
    BY <1>1 DEF Shared, WaitingHasRetry

\* update_file_status_by_id in a coroutine (state_manager.py, lines 377-434).
LEMMA Updated ==
  ASSUME Control, Shared, NEW k \in Procs, cpu = k, pc[k] # "schedule",
         NEW f \in Files, NEW s \in Status, NEW next \in Phases, Update(k, f, s, next),
         UNCHANGED getters, s = "WAITING_FOR_SPACE" => k \in Workers /\ next = "schedule"
  PROVE  Control' /\ Shared'
  <1> DEFINE new == {Tell(f, s, k), Handle("ready", f, None, None)}
  <1>1. Free(loop, k) /\ Proper(loop)
    BY ProcsNamed DEF Control, RunningIsAwake, Awaits, Free, Proper, OneHandleEach
  <1>2. /\ status' = [status EXCEPT ![f] = s]
        /\ retry' = [retry EXCEPT ![f] = @ /\ s \notin Terminal]
        /\ loop' = loop \o Events(f, s, k)
        /\ pc' = [pc EXCEPT ![k] = next]
        /\ cur' = [cur EXCEPT ![k] = IF next \in Idle THEN None ELSE f]
        /\ cpu' = IF status[f] = s THEN k ELSE None
    BY DEF Update, Write, Ready, Goes, Idle
  <1>3. Moved(k, f, next, new)
    BY <1>1, <1>2, EventsProper DEF Moved
  <1>4. Control'
    <2>1. \A h \in new : h.for \in {k, None}
      BY DEF Tell, Handle
    <2>2. \A h \in new : h.do = "tell" /\ h.to = "WAITING_FOR_SPACE" =>
             k \in Workers /\ h.for = k /\ next = "schedule" /\ h.file = f
      BY DEF Tell, Handle
    <2> QED
      BY <1>3, <2>1, <2>2, MovedControl
  <1>5. status' \in [Files -> Status] /\ retry' \in [Files -> BOOLEAN]
    BY <1>2 DEF Shared
  <1>6. WaitingHasRetry'
    <2>1. CASE s # "WAITING_FOR_SPACE"
      <3>1. \A g \in Files : status'[g] = "WAITING_FOR_SPACE" =>
               status[g] = "WAITING_FOR_SPACE" /\ (retry[g] => retry'[g])
        BY <1>2, <2>1 DEF Shared
      <3> QED
        BY <1>2, <3>1, StillWaiting
    <2>2. CASE s = "WAITING_FOR_SPACE"
      <3>1. k \in Workers /\ pc'[k] = "schedule" /\ cur'[k] = f
        BY <1>2, <2>2 DEF Control, Idle
      <3>2. \A w \in Workers : pc[w] = "schedule" => pc'[w] = "schedule" /\ cur'[w] = cur[w]
        BY <1>2, ProcsNamed DEF Control
      <3>3. \A g \in Files \ {f} : status'[g] = status[g] /\ retry'[g] = retry[g]
        BY <1>2 DEF Shared
      <3> QED
        BY <3>1, <3>2, <3>3 DEF Shared, WaitingHasRetry
    <2> QED
      BY <2>1, <2>2
  <1> QED
    BY <1>4, <1>5, <1>6 DEF Shared

-----------------------------------------------------------------------------
(* The event loop.                                                         *)

\* A step of the loop moves no coroutine; what it adds to the queue is for
\* nobody who blocks in queue.get, and tells of no new wait for space.
LEMMA Turned ==
  ASSUME Control, pc' = pc, cur' = cur, NEW new, Proper(loop'), From(loop', loop, new),
         \A h \in new : h.do = "tell" /\ h.to = "WAITING_FOR_SPACE" =>
             h.for \in Workers /\ pc[h.for] = "schedule" /\ cur[h.for] = h.file,
         cpu' = None \/ (cpu' \in Procs /\ Free(loop', cpu')),
         getters' \in Seq(Workers),
         \A i, j \in DOMAIN getters' : getters'[i] = getters'[j] => i = j,
         \A i \in DOMAIN getters' :
             /\ \E j \in DOMAIN getters : getters'[i] = getters[j]
             /\ cpu' # getters'[i] /\ Free(loop', getters'[i])
  PROVE  Control'
  <1>1. OneHandleEach' /\ loop' \in Seq(Handles) /\ RunningIsAwake' /\ BusyWithFile'
    BY DEF Control, Proper, OneHandleEach, RunningIsAwake, Free, Awaits, BusyWithFile
  <1>2. GettersBlocked'
    BY DEF Control, GettersBlocked, Free, Awaits
  <1>3. SpaceIsTold'
    BY DEF Control, SpaceIsTold, From
  <1> QED
    BY <1>1, <1>2, <1>3 DEF Control

\* What nobody waits for is nobody's in getters.
LEMMA GettersFree ==
  ASSUME Control, NEW i \in DOMAIN getters
  PROVE  /\ getters[i] \in Workers /\ getters[i] \in Procs /\ getters[i] # None
         /\ pc[getters[i]] = "get" /\ cpu # getters[i] /\ Free(loop, getters[i])
  BY ElementOfSeq, LenProperties, ProcsNamed DEF Control, GettersBlocked, Awaits, Free

\* While nothing runs nothing is said of the running coroutine, and the first
\* handle is taken.
LEMMA FirstHandle ==
  ASSUME Control, loop # <<>>
  PROVE  /\ Proper(loop) /\ Proper(Tail(loop)) /\ From(Tail(loop), loop, {})
         /\ Head(loop) \in Handles
         /\ Head(loop).for # None => Free(Tail(loop), Head(loop).for)
         /\ \A k : Free(loop, k) => Free(Tail(loop), k)
         /\ \A i \in DOMAIN getters : getters[i] # Head(loop).for
         /\ Head(loop).do = "tell" /\ Head(loop).to = "WAITING_FOR_SPACE" =>
                /\ Head(loop).for \in Workers /\ pc[Head(loop).for] = "schedule"
                /\ cur[Head(loop).for] = Head(loop).file
  <1>1. Proper(loop)
    BY DEF Control, Proper, OneHandleEach
  <1>2. PICK i \in DOMAIN loop : loop[i] = Head(loop)
    BY <1>1, TakenHandle
  <1>3. \A j \in DOMAIN getters : getters[j] # Head(loop).for
    BY <1>2, GettersFree DEF Free
  <1> QED
    BY <1>1, <1>2, <1>3, TakenHandle DEF Control, SpaceIsTold

\* The coroutine of the first handle runs.
LEMMA RunResumeOK ==
  ASSUME Control, Shared, RunResume
  PROVE  Control' /\ Shared'
  <1>1. loop # <<>> /\ Head(loop).do = "resume" /\ cpu' = Head(loop).for /\ loop' = Tail(loop)
    BY DEF RunResume, Head1
  <1>2. cpu' \in Procs /\ cpu' # None
    BY <1>1, FirstHandle, ProcsNamed DEF Handles
  <1>3. UNCHANGED <<getters, pc, cur, status, retry>>
    BY DEF RunResume, queue
  <1>4. \A i \in DOMAIN getters : cpu' # getters[i] /\ Free(loop', getters[i])
    BY <1>1, FirstHandle, GettersFree
  <1>5. Control'
    BY <1>1, <1>2, <1>3, <1>4, FirstHandle, Turned DEF Control, GettersBlocked
  <1> QED
    BY <1>3, <1>5 DEF Shared, WaitingHasRetry

\* A status that is no wait for space leaves the others as they were.
LEMMA WrittenShared ==
  ASSUME Control, Shared, NEW f \in Files, NEW s \in Status, NEW k, NEW rest,
         Write(f, s, k, rest), pc' = pc, cur' = cur,
         s = "WAITING_FOR_SPACE" => \E w \in Workers : pc[w] = "schedule" /\ cur[w] = f
  PROVE  Shared'
  <1>1. /\ status' = [status EXCEPT ![f] = s]
        /\ retry' = [retry EXCEPT ![f] = @ /\ s \notin Terminal]
    BY DEF Write
  <1>2. status' \in [Files -> Status] /\ retry' \in [Files -> BOOLEAN]
    BY <1>1 DEF Shared
  <1>3. \A g \in Files \ {f} : status'[g] = status[g] /\ retry'[g] = retry[g]
    BY <1>1 DEF Shared
  <1>4. status'[f] = s
    BY <1>1 DEF Shared
  <1> QED
    BY <1>2, <1>3, <1>4 DEF Shared, WaitingHasRetry

\* The first handle writes a status, for whoever waits for it.
LEMMA FirstWrites ==
  ASSUME Control, Shared, cpu = None, loop # <<>>, NEW f \in Files, NEW s \in Status,
         NEW k, k = Head(loop).for, Write(f, s, k, Tail(loop)),
         UNCHANGED <<getters, cpu, pc, cur>>,
         s = "WAITING_FOR_SPACE" => k \in Workers /\ pc[k] = "schedule" /\ cur[k] = f
  PROVE  Control' /\ Shared'
  <1> DEFINE new == {Tell(f, s, k), Handle("ready", f, None, None)}
  <1>1. k \in Procs \cup {None} /\ (k = None \/ Free(Tail(loop), k))
    BY FirstHandle, ProcsNamed DEF Handles
  <1>2. Proper(loop') /\ From(loop', loop, new)
    <2>1. loop' = Tail(loop) \o Events(f, s, k)
      BY DEF Write, Ready
    <2>2. Proper(loop') /\ From(loop', Tail(loop), new)
      BY <1>1, <2>1, FirstHandle, EventsProper
    <2> QED
      BY <2>2, FirstHandle DEF From
  <1>3. ASSUME NEW i \in DOMAIN getters
        PROVE  Free(loop', getters[i])
    <2>1. Free(loop, getters[i]) /\ getters[i] # k /\ getters[i] # None
      BY GettersFree, FirstHandle
    <2>2. \A x \in new : x.for # getters[i]
      BY <2>1 DEF Tell, Handle
    <2> QED
      BY <1>2, <2>1, <2>2, FreeFrom
  <1>4. \A x \in new : x.do = "tell" /\ x.to = "WAITING_FOR_SPACE" =>
           x.for \in Workers /\ pc[x.for] = "schedule" /\ cur[x.for] = x.file
    BY DEF Tell, Handle
  <1>5. Control'
    <2>1. \A i \in DOMAIN getters' :
             /\ \E j \in DOMAIN getters : getters'[i] = getters[j]
             /\ cpu' # getters'[i] /\ Free(loop', getters'[i])
      BY <1>3, GettersFree
    <2> HIDE DEF new
    <2> QED
      BY <1>2, <1>4, <2>1, Turned DEF Control, GettersBlocked
  <1>6. Shared'
    BY <1>1, WrittenShared
  <1> QED
    BY <1>5, <1>6

\* The state manager hears its own event (state_manager.py, lines 56-60).
LEMMA HandleFileStatusChangedOK ==
  ASSUME Control, Shared, HandleFileStatusChanged
  PROVE  Control' /\ Shared'
  <1> DEFINE h == Head(loop)
  <1>1. /\ cpu = None /\ loop # <<>> /\ h.do = "tell"
        /\ Write(h.file, h.to, h.for, Tail(loop))
        /\ UNCHANGED <<getters, cpu, pc, cur>>
    BY DEF HandleFileStatusChanged, Head1, queue
  <1>2. h.file \in Files /\ h.to \in Status
    BY <1>1, FirstHandle DEF Handles
  <1> QED
    BY <1>1, <1>2, FirstHandle, FirstWrites

\* FileReadyEvent goes on to its handler.
LEMMA PublishReadyOK ==
  ASSUME Control, Shared, PublishReady
  PROVE  Control' /\ Shared'
  <1> DEFINE h == [Head(loop) EXCEPT !.do = "queue"]
  <1>1. /\ cpu = None /\ loop # <<>> /\ Head(loop).do = "ready"
        /\ loop' = Append(Tail(loop), h)
        /\ UNCHANGED <<getters, cpu, pc, cur, status, retry>>
    BY DEF PublishReady, Head1, queue
  <1>2. h \in Handles /\ h.do = "queue" /\ h.for = Head(loop).for
    BY <1>1, FirstHandle DEF Handles
  <1>3. Proper(loop') /\ From(loop', Tail(loop), {h})
    BY <1>1, <1>2, FirstHandle, AppendedHandle
  <1>4. From(loop', loop, {h})
    BY <1>1, <1>3, FirstHandle DEF From
  <1>5. ASSUME NEW i \in DOMAIN getters
        PROVE  Free(loop', getters[i])
    <2>1. Free(loop, getters[i]) /\ getters[i] # Head(loop).for
      BY <1>1, GettersFree, FirstHandle
    <2>2. \A x \in {h} : x.for # getters[i]
      BY <1>2, <2>1
    <2> HIDE DEF h
    <2> QED
      BY <1>4, <2>1, <2>2, FreeFrom
  <1>6. Control'
    <2>1. \A i \in DOMAIN getters' :
             /\ \E j \in DOMAIN getters : getters'[i] = getters[j]
             /\ cpu' # getters'[i] /\ Free(loop', getters'[i])
      BY <1>1, <1>5, GettersFree
    <2>2. \A x \in {h} : x.do # "tell"
      BY <1>2
    <2> HIDE DEF h
    <2> QED
      BY <1>1, <1>3, <1>4, <2>1, <2>2, Turned DEF Control, GettersBlocked
  <1> QED
    BY <1>1, <1>6 DEF Shared, WaitingHasRetry

\* The job is put, the first getter woken, and the status follows
\* (job_queue.py, lines 80-131).
LEMMA HandleFileReadyOK ==
  ASSUME Control, Shared, HandleFileReady
  PROVE  Control' /\ Shared'
  <1> DEFINE h == Head(loop)
             g == Head(getters)
             new == {Resumption(g), Tell(h.file, "IN_QUEUE", h.for),
                     Handle("ready", h.file, None, None)}
  <1>1. /\ cpu = None /\ loop # <<>> /\ h.do = "queue"
        /\ UNCHANGED <<cpu, pc, cur>>
    BY DEF HandleFileReady, Head1
  <1>2. h.file \in Files
    BY <1>1, FirstHandle DEF Handles
  <1>3. CASE loop' = Tail(loop) /\ UNCHANGED <<status, retry, getters>>
    <2>1. \A i \in DOMAIN getters' :
             /\ \E j \in DOMAIN getters : getters'[i] = getters[j]
             /\ cpu' # getters'[i] /\ Free(loop', getters'[i])
      BY <1>1, <1>3, FirstHandle, GettersFree
    <2>2. Control'
      BY <1>1, <1>3, <2>1, FirstHandle, Turned DEF Control, GettersBlocked
    <2> QED
      BY <1>1, <1>3, <2>2 DEF Shared, WaitingHasRetry
  <1>4. CASE UNCHANGED getters /\ \E s \in {"IN_QUEUE", "WAITING_FOR_NETWORK"} :
                                     Write(h.file, s, h.for, Tail(loop))
    BY <1>1, <1>2, <1>4, FirstWrites DEF Status
  <1>5. CASE /\ getters # <<>> /\ getters' = Tail(getters)
             /\ Write(h.file, "IN_QUEUE", h.for, Tail(loop) \o <<Resumption(g)>>)
    <2>1. /\ g \in Workers /\ g \in Procs /\ g # None /\ Free(loop, g) /\ g # h.for
          /\ getters' \in Seq(Workers)
          /\ \A i \in DOMAIN getters' : i + 1 \in DOMAIN getters /\ getters'[i] = getters[i + 1]
          /\ \A i \in DOMAIN getters' : getters'[i] # g
          /\ \A i, j \in DOMAIN getters' : getters'[i] = getters'[j] => i = j
      <3>1. /\ Len(getters) \in Nat /\ Len(getters) # 0 /\ DOMAIN getters = 1..Len(getters)
            /\ getters' \in Seq(Workers) /\ Len(getters') = Len(getters) - 1
            /\ \A i \in 1..Len(getters') : getters'[i] = getters[i + 1]
            /\ g = getters[1]
        BY <1>5, HeadTailProperties, EmptySeq, LenProperties DEF Control
      <3>2. DOMAIN getters' = 1..(Len(getters) - 1)
        BY <3>1, LenProperties
      <3>3. 1 \in DOMAIN getters
        BY <3>1
      <3>4. g \in Workers /\ g \in Procs /\ g # None /\ Free(loop, g) /\ g # h.for
        BY <1>1, <3>1, <3>3, GettersFree, FirstHandle
      <3>5. \A i \in DOMAIN getters' :
               i + 1 \in DOMAIN getters /\ getters'[i] = getters[i + 1] /\ i + 1 # 1 /\ i \in Int
        BY <3>1, <3>2
      <3>6. \A i, j \in DOMAIN getters : getters[i] = getters[j] => i = j
        BY DEF Control, GettersBlocked
      <3> QED
        BY <3>1, <3>3, <3>4, <3>5, <3>6
    <2>2. h.for \in Procs \cup {None} /\ (h.for = None \/ Free(Tail(loop), h.for))
      BY <1>1, FirstHandle DEF Handles
    <2> DEFINE rest == Append(Tail(loop), Resumption(g))
    <2>3. Resumption(g) \in Handles /\ Resumption(g).for = g
      BY <2>1 DEF Resumption, Handle, Handles
    <2>4. Proper(rest) /\ From(rest, Tail(loop), {Resumption(g)})
      BY <1>1, <2>1, <2>3, FirstHandle, AppendedHandle
    <2>5. h.for = None \/ Free(rest, h.for)
      BY <2>1, <2>2, <2>3, <2>4, FreeFrom
    <2>6. Tail(loop) \o <<Resumption(g)>> = rest
      BY <1>1, <2>3, FirstHandle DEF Proper
    <2>7. /\ Proper(loop')
          /\ From(loop', rest, {Tell(h.file, "IN_QUEUE", h.for), Handle("ready", h.file, None, None)})
      <3>1. loop' = rest \o Events(h.file, "IN_QUEUE", h.for)
        BY <1>5, <2>6 DEF Write, Ready
      <3> HIDE DEF rest, h
      <3> QED
        BY <1>2, <2>2, <2>4, <2>5, <3>1, EventsProper DEF Status
    <2>8. From(loop', loop, new)
      BY <1>1, <2>4, <2>7, FirstHandle DEF From
    <2>9. ASSUME NEW i \in DOMAIN getters'
          PROVE  /\ \E j \in DOMAIN getters : getters'[i] = getters[j]
                 /\ cpu' # getters'[i] /\ Free(loop', getters'[i])
      <3>1. i + 1 \in DOMAIN getters /\ getters'[i] = getters[i + 1] /\ getters'[i] # g
        BY <2>1
      <3>2. Free(loop, getters'[i]) /\ getters'[i] # None /\ getters'[i] # h.for /\ cpu # getters'[i]
        BY <1>1, <3>1, GettersFree, FirstHandle
      <3>3. \A x \in new : x.for # getters'[i]
        BY <2>3, <3>1, <3>2 DEF Tell, Handle
      <3>4. Free(loop', getters'[i])
        BY <2>8, <3>2, <3>3, FreeFrom
      <3> QED
        BY <1>1, <3>1, <3>2, <3>4
    <2>10. \A x \in new : ~(x.do = "tell" /\ x.to = "WAITING_FOR_SPACE")
      BY DEF Tell, Handle, Resumption
    <2>11. Control'
      <3> HIDE DEF new
      <3> QED
        BY <1>1, <2>1, <2>7, <2>8, <2>9, <2>10, Turned
    <2>12. Shared'
      BY <1>1, <1>2, <1>5, WrittenShared DEF Status
    <2> QED
      BY <2>11, <2>12
  <1>6. CASE /\ getters = <<>> /\ getters' = <<>>
             /\ Write(h.file, "IN_QUEUE", h.for, Tail(loop) \o <<>>)
    <2>1. Tail(loop) \o <<>> = Tail(loop)
      BY <1>1, FirstHandle, ConcatEmptySeq DEF Proper
    <2> QED
      BY <1>4, <1>6, <2>1
  <1> QED
    BY <1>3, <1>4, <1>5, <1>6 DEF HandleFileReady, queue

-----------------------------------------------------------------------------
(* Timers, I/O and the world.                                              *)

\* A coroutine in I/O, or asleep, is made ready.
LEMMA CompletedOK ==
  ASSUME Control, Shared, NEW k \in Procs, Completed(k)
  PROVE  Control' /\ Shared'
  <1> DEFINE h == Resumption(k)
  <1>1. /\ cpu = None /\ Free(loop, k) /\ pc[k] # "get" /\ loop' = Append(loop, h)
        /\ UNCHANGED <<getters, cpu, pc, cur, status, retry>>
    BY DEF Completed, InIO, Awaits, Free, Ready, queue
  <1>2. h \in Handles /\ h.do = "resume" /\ h.for = k
    BY DEF Resumption, Handle, Handles
  <1>3. Proper(loop') /\ From(loop', loop, {h})
    <2>1. Proper(loop)
      BY DEF Control, Proper, OneHandleEach
    <2> QED
      BY <1>1, <1>2, <2>1, AppendedHandle
  <1>4. ASSUME NEW i \in DOMAIN getters
        PROVE  Free(loop', getters[i])
    <2>1. Free(loop, getters[i]) /\ getters[i] # k
      BY <1>1, GettersFree
    <2>2. \A x \in {h} : x.for # getters[i]
      BY <1>2, <2>1
    <2> HIDE DEF h
    <2> QED
      BY <1>3, <2>1, <2>2, FreeFrom
  <1>5. Control'
    <2>1. \A i \in DOMAIN getters' :
             /\ \E j \in DOMAIN getters : getters'[i] = getters[j]
             /\ cpu' # getters'[i] /\ Free(loop', getters'[i])
      BY <1>1, <1>4, GettersFree
    <2>2. \A x \in {h} : x.do # "tell"
      BY <1>2
    <2> HIDE DEF h
    <2> QED
      BY <1>1, <1>3, <2>1, <2>2, Turned DEF Control, GettersBlocked
  <1> QED
    BY <1>1, <1>5 DEF Shared, WaitingHasRetry

\* The sequence s without its i-th element.
Without(s, i) == SubSeq(s, 1, i - 1) \o SubSeq(s, i + 1, Len(s))

\* A getter is taken out of a sequence where nobody occurs twice.
LEMMA Removed ==
  ASSUME NEW s \in Seq(Workers), NEW i \in DOMAIN s,
         \A a, b \in DOMAIN s : s[a] = s[b] => a = b
  PROVE  /\ Without(s, i) \in Seq(Workers)
         /\ \A a \in DOMAIN Without(s, i) : \E b \in DOMAIN s : b # i /\ Without(s, i)[a] = s[b]
         /\ \A a, b \in DOMAIN Without(s, i) : Without(s, i)[a] = Without(s, i)[b] => a = b
  <1> DEFINE u == SubSeq(s, 1, i - 1)
             v == SubSeq(s, i + 1, Len(s))
             t == u \o v
  <1>1. Len(s) \in Nat /\ DOMAIN s = 1..Len(s) /\ i \in 1..Len(s)
    BY LenProperties
  <1>2. \A a \in 1..Len(s) : s[a] \in Workers
    BY ElementOfSeq
  <1>3. u \in Seq(Workers) /\ Len(u) = i - 1 /\ \A a \in 1..(i - 1) : u[a] = s[a]
    <2>1. \A a \in 1..(i - 1) : s[a] \in Workers
      BY <1>1, <1>2
    <2> QED
      BY <1>1, <2>1, SubSeqProperties
  <1>4. v \in Seq(Workers) /\ Len(v) = Len(s) - i /\ \A a \in 1..(Len(s) - i) : v[a] = s[i + a]
    <2>1. \A a \in (i + 1)..Len(s) : s[a] \in Workers
      BY <1>1, <1>2
    <2>2. /\ v \in Seq(Workers)
          /\ Len(v) = IF i + 1 <= Len(s) THEN Len(s) - (i + 1) + 1 ELSE 0
          /\ \A a \in 1..(Len(s) - (i + 1) + 1) : v[a] = s[(i + 1) + a - 1]
      BY <1>1, <2>1, SubSeqProperties
    <2> QED
      BY <1>1, <2>2
  <1>5. /\ t \in Seq(Workers) /\ Len(t) = Len(s) - 1
        /\ \A a \in 1..(Len(s) - 1) : t[a] = IF a <= i - 1 THEN u[a] ELSE v[a - (i - 1)]
    <2>1. /\ t \in Seq(Workers) /\ Len(t) = Len(u) + Len(v)
          /\ \A a \in 1..(Len(u) + Len(v)) : t[a] = IF a <= Len(u) THEN u[a] ELSE v[a - Len(u)]
      <3>1. u \in Seq(Workers) /\ v \in Seq(Workers)
        BY <1>3, <1>4
      <3> HIDE DEF u, v
      <3>2. /\ u \o v \in Seq(Workers)
            /\ Len(u \o v) = Len(u) + Len(v)
            /\ \A a \in 1..(Len(u) + Len(v)) :
                  (u \o v)[a] = IF a <= Len(u) THEN u[a] ELSE v[a - Len(u)]
        BY <3>1, ConcatProperties, Zenon
      <3> QED
        BY <3>2
    <2>2. Len(u) + Len(v) = Len(s) - 1
      BY <1>1, <1>3, <1>4
    <2> QED
      BY <1>3, <2>1, <2>2
  <1>6. DOMAIN t = 1..(Len(s) - 1)
    BY <1>5, LenProperties
  <1> DEFINE from(a) == IF a < i THEN a ELSE a + 1
  <1>7. ASSUME NEW a \in DOMAIN t
        PROVE  from(a) \in DOMAIN s /\ from(a) # i /\ t[a] = s[from(a)]
    <2>1. a \in Int /\ i \in Int /\ Len(s) \in Int /\ 1 <= a /\ a <= Len(s) - 1
      BY <1>1, <1>6, <1>7
    <2>2. CASE a < i
      <3>1. a \in 1..(i - 1) /\ a \in 1..(Len(s) - 1) /\ a <= i - 1 /\ a \in 1..Len(s)
        BY <2>1, <2>2
      <3>2. t[a] = s[a]
        BY <1>3, <1>5, <3>1
      <3> QED
        BY <1>1, <2>2, <3>1, <3>2
    <2>3. CASE ~(a < i)
      <3>1. /\ a - (i - 1) \in 1..(Len(s) - i) /\ i + (a - (i - 1)) = a + 1
            /\ a \in 1..(Len(s) - 1) /\ ~(a <= i - 1) /\ a + 1 \in 1..Len(s) /\ a + 1 # i
        BY <1>1, <2>1, <2>3
      <3>2. v[a - (i - 1)] = s[a + 1]
        BY <1>4, <3>1
      <3>3. t[a] = v[a - (i - 1)]
        BY <1>5, <3>1
      <3> QED
        BY <1>1, <2>3, <3>1, <3>2, <3>3
    <2> QED
      BY <2>2, <2>3
  <1>8. \A a, b \in DOMAIN t : from(a) = from(b) => a = b
    BY <1>1, <1>6
  <1>9. Without(s, i) = t
    BY DEF Without
  <1> HIDE DEF from, t
  <1> QED
    BY <1>5, <1>7, <1>8, <1>9

\* A worker gives up waiting for a job: nobody else knew that it waited.
LEMMA GetTimeoutOK ==
  ASSUME Control, Shared, NEW w \in Workers, GetTimeout(w)
  PROVE  Control' /\ Shared'
  <1>1. /\ cpu = None /\ pc' = [pc EXCEPT ![w] = "take"]
        /\ UNCHANGED <<status, retry, loop, cpu, cur>>
    BY DEF GetTimeout
  <1>2. PICK i \in DOMAIN getters :
           /\ getters[i] = w
           /\ getters' = Without(getters, i)
    BY DEF GetTimeout, Without
  <1>3. w \in Procs /\ pc[w] = "get" /\ Free(loop, w)
    BY <1>2, GettersFree
  <1>4. /\ getters \in Seq(Workers)
        /\ \A a, b \in DOMAIN getters : getters[a] = getters[b] => a = b
    BY DEF Control, GettersBlocked
  <1>5. /\ getters' \in Seq(Workers)
        /\ \A a \in DOMAIN getters' : \E b \in DOMAIN getters : b # i /\ getters'[a] = getters[b]
        /\ \A a, b \in DOMAIN getters' : getters'[a] = getters'[b] => a = b
    BY <1>2, <1>4, Removed
  <1>6. pc' \in [Procs -> Phases] /\ pc'[w] = "take" /\ \A j \in Procs \ {w} : pc'[j] = pc[j]
    BY <1>1, <1>3 DEF Control, Phases
  <1>7. GettersBlocked'
    <2>1. ASSUME NEW a \in DOMAIN getters'
          PROVE  pc'[getters'[a]] = "get" /\ cpu' # getters'[a] /\ Free(loop', getters'[a])
      <3>1. PICK b \in DOMAIN getters : b # i /\ getters'[a] = getters[b]
        BY <1>5, <2>1
      <3>2. getters[b] # w
        BY <1>2, <1>4, <3>1
      <3> QED
        BY <1>1, <1>6, <3>1, <3>2, GettersFree
    <2> QED
      BY <1>5, <2>1 DEF GettersBlocked, Free, Awaits
  <1>8. SpaceIsTold'
    BY <1>1, <1>3, <1>6, ProcsNamed DEF Control, SpaceIsTold, Free
  <1>9. Control'
    BY <1>1, <1>5, <1>6, <1>7, <1>8
       DEF Control, OneHandleEach, RunningIsAwake, Awaits, BusyWithFile, Idle
  <1>10. WaitingHasRetry'
    BY <1>1, <1>3, <1>6, ProcsNamed DEF Shared, WaitingHasRetry
  <1> QED
    BY <1>1, <1>9, <1>10 DEF Shared

\* A retry that fires ends the wait it was for (state_manager.py,
\* lines 528-549).
LEMMA RetryFiresOK ==
  ASSUME Control, Shared, NEW f \in Files, RetryFires(f)
  PROVE  Control' /\ Shared'
  <1>1. /\ retry' = [retry EXCEPT ![f] = FALSE]
        /\ status' = [status EXCEPT ![f] = IF @ = "WAITING_FOR_SPACE" THEN "READY" ELSE @]
        /\ UNCHANGED control /\ UNCHANGED getters
    BY DEF RetryFires, queue
  <1>2. Control'
    BY <1>1 DEF Control, control, OneHandleEach, RunningIsAwake, GettersBlocked, Awaits,
                BusyWithFile, SpaceIsTold
  <1>3. status' \in [Files -> Status] /\ retry' \in [Files -> BOOLEAN]
    BY <1>1 DEF Shared, Status
  <1>4. WaitingHasRetry'
    BY <1>1 DEF Shared, WaitingHasRetry, control
  <1> QED
    BY <1>2, <1>3, <1>4 DEF Shared

-----------------------------------------------------------------------------
(* The coroutines' own steps.                                              *)

\* Coroutine k suspends or goes on, and no status changes.
LEMMA Quiet ==
  ASSUME Control, Shared, NEW k \in Procs, cpu = k, pc[k] # "schedule",
         NEW f \in Files \cup {None}, NEW next \in Phases,
         Suspend(k, f, next) \/ Continue(k, f, next),
         UNCHANGED <<getters, status, retry>>, next \notin Idle => f \in Files
  PROVE  Control' /\ Shared'
  <1>1. Control'
    BY Paused
  <1>2. /\ pc' = [pc EXCEPT ![k] = next]
        /\ cur' = [cur EXCEPT ![k] = IF next \in Idle THEN None ELSE f]
    BY DEF Suspend, Continue, Goes, Idle
  <1>3. WaitingHasRetry'
    BY <1>2, StillWaiting
  <1> QED
    BY <1>1, <1>3 DEF Shared

\* Coroutine k publishes an event, and waits until its handlers are done.
LEMMA Told ==
  ASSUME Control, Shared, NEW k \in Procs, cpu = k, pc[k] # "schedule", NEW f \in Files,
         NEW h \in Handles, h.for = k, h.do = "tell" => h.to # "WAITING_FOR_SPACE",
         loop' = Append(loop, h), cpu' = None, NEW next \in Phases, Goes(k, f, next),
         UNCHANGED <<getters, status, retry>>
  PROVE  Control' /\ Shared'
  <1>1. Free(loop, k) /\ Proper(loop)
    BY ProcsNamed DEF Control, RunningIsAwake, Awaits, Free, Proper, OneHandleEach
  <1>2. /\ pc' = [pc EXCEPT ![k] = next]
        /\ cur' = [cur EXCEPT ![k] = IF next \in Idle THEN None ELSE f]
    BY DEF Goes, Idle
  <1>3. Moved(k, f, next, {h})
    BY <1>1, <1>2, AppendedHandle DEF Moved
  <1>4. Control'
    BY <1>3, MovedControl
  <1>5. WaitingHasRetry'
    BY <1>2, StillWaiting
  <1> QED
    BY <1>4, <1>5 DEF Shared

\* What a worker is busy with is a file.
LEMMA Busy ==
  ASSUME Control, NEW k \in Procs, pc[k] \notin Idle
  PROVE  cur[k] \in Files
  BY DEF Control, BusyWithFile

\* A worker takes a job, or is the last one to wait for one.
LEMMA GetNextJobOK ==
  ASSUME Control, Shared, Remaining, NEW w \in Workers, GetNextJob(w)
  PROVE  Control' /\ Shared'
  <1>1. /\ w \in Procs /\ w # None /\ cpu = w /\ pc[w] \in {"take", "get"}
        /\ UNCHANGED <<status, retry>>
    BY ProcsNamed DEF GetNextJob
  <1>2. CASE jobs # <<>> /\ Continue(w, Head(jobs), "check") /\ UNCHANGED getters
    <2>1. Head(jobs) \in Files
      BY <1>2, HeadTailProperties, EmptySeq DEF Remaining
    <2> QED
      BY <1>1, <1>2, <2>1, Quiet DEF Phases
  <1>3. CASE getters' = Append(getters, w) /\ Suspend(w, None, "get")
    <2>1. /\ pc' = [pc EXCEPT ![w] = "get"] /\ cur' = [cur EXCEPT ![w] = None]
          /\ cpu' = None /\ loop' = loop
      BY <1>3 DEF Suspend, Goes
    <2>2. /\ pc' \in [Procs -> Phases] /\ pc'[w] = "get"
          /\ \A j \in Procs \ {w} : pc'[j] = pc[j] /\ cur'[j] = cur[j]
          /\ cur' \in [Procs -> Files \cup {None}]
      BY <1>1, <2>1 DEF Control, Phases
    <2>3. Free(loop, w)
      BY <1>1 DEF Control, RunningIsAwake, Awaits, Free
    <2>4. /\ getters' \in Seq(Workers)
          /\ DOMAIN getters = 1..Len(getters) /\ Len(getters) \in Nat
          /\ DOMAIN getters' = 1..(Len(getters) + 1)
          /\ \A i \in 1..Len(getters) : getters'[i] = getters[i]
          /\ getters'[Len(getters) + 1] = w
      BY <1>3, AppendProperties, LenProperties DEF Control
    <2>5. \A i \in DOMAIN getters : getters[i] # w
      BY <1>1, GettersFree
    <2>6. \A i \in DOMAIN getters' :
             (i \in DOMAIN getters /\ getters'[i] = getters[i])
                 \/ (i = Len(getters) + 1 /\ getters'[i] = w)
      BY <2>4
    <2>7. ASSUME NEW i \in DOMAIN getters'
          PROVE  /\ pc'[getters'[i]] = "get" /\ cpu' # getters'[i] /\ Free(loop', getters'[i])
      <3>1. CASE i \in DOMAIN getters /\ getters'[i] = getters[i]
        BY <2>1, <2>2, <2>5, <3>1, GettersFree
      <3>2. CASE getters'[i] = w
        BY <1>1, <2>1, <2>2, <2>3, <3>2
      <3> QED
        BY <2>6, <3>1, <3>2
    <2>8. ASSUME NEW i \in DOMAIN getters', NEW j \in DOMAIN getters', getters'[i] = getters'[j]
          PROVE  i = j
      <3>1. \A a, b \in DOMAIN getters : getters[a] = getters[b] => a = b
        BY DEF Control, GettersBlocked
      <3> QED
        BY <2>5, <2>6, <2>8, <3>1
    <2>9. GettersBlocked'
      BY <2>7, <2>8 DEF GettersBlocked, Awaits, Free
    <2>10. SpaceIsTold'
      BY <2>1, <2>2, <2>3, ProcsNamed DEF Control, SpaceIsTold, Free
    <2>11. Control'
      BY <2>1, <2>2, <2>4, <2>9, <2>10
         DEF Control, OneHandleEach, RunningIsAwake, BusyWithFile, Idle
    <2>12. WaitingHasRetry'
      BY <1>1, <2>1, StillWaiting
    <2> QED
      BY <1>1, <2>11, <2>12 DEF Shared
  <1> QED
    BY <1>2, <1>3 DEF GetNextJob

\* The retry is scheduled for the file that waits
\* (space_retry_manager.py, lines 37-93).
LEMMA ScheduleSpaceRetryOK ==
  ASSUME Control, Shared, NEW w \in Workers, ScheduleSpaceRetry(w)
  PROVE  Control' /\ Shared'
  <1>1. /\ w \in Procs /\ cpu = w /\ pc[w] = "schedule" /\ cur[w] \in Files
        /\ retry' = [retry EXCEPT ![cur[w]] = TRUE]
        /\ Continue(w, cur[w], "take")
        /\ UNCHANGED <<getters, status>>
    BY ProcsNamed, Busy DEF ScheduleSpaceRetry, At, queue, Idle
  <1>2. Control'
    BY <1>1, Paused DEF Idle, Phases
  <1>3. /\ pc' = [pc EXCEPT ![w] = "take"] /\ cur' = [cur EXCEPT ![w] = None]
    BY <1>1 DEF Continue, Goes
  <1>4. /\ \A v \in Workers \ {w} : pc'[v] = pc[v] /\ cur'[v] = cur[v]
        /\ \A f \in Files \ {cur[w]} : retry'[f] = retry[f]
        /\ retry'[cur[w]] = TRUE /\ retry' \in [Files -> BOOLEAN]
    BY <1>1, <1>3, ProcsNamed DEF Control, Shared
  <1>5. ASSUME NEW f \in Files, status'[f] = "WAITING_FOR_SPACE"
        PROVE  retry'[f] \/ \E v \in Workers : cur'[v] = f /\ pc'[v] = "schedule"
    <2>1. CASE f = cur[w]
      BY <1>4, <2>1
    <2>2. CASE f # cur[w]
      <3>1. retry[f] \/ \E v \in Workers : cur[v] = f /\ pc[v] = "schedule"
        BY <1>1, <1>5 DEF Shared, WaitingHasRetry
      <3> QED
        BY <1>4, <2>2, <3>1
    <2> QED
      BY <2>1, <2>2
  <1> QED
    BY <1>1, <1>2, <1>4, <1>5 DEF Shared, WaitingHasRetry

\* Every other step of a worker keeps quiet or writes one status.
LEMMA WorkerOK ==
  ASSUME Control, Shared, Remaining, NEW w \in Workers, Worker(w)
  PROVE  Control' /\ Shared'
  <1>1. w \in Procs
    BY ProcsNamed
  <1> DEFINE f == cur[w]
  <1>2. f \in Files \cup {None} /\ (pc[w] \notin Idle => f \in Files)
    BY <1>1, Busy DEF Control
  <1>3. ASSUME cpu = w, pc[w] \notin Idle, pc[w] # "schedule", NEW next \in Phases,
               Suspend(w, f, next) \/ Continue(w, f, next), UNCHANGED <<getters, status, retry>>
        PROVE  Control' /\ Shared'
    BY <1>1, <1>2, <1>3, Quiet
  <1>4. ASSUME cpu = w, pc[w] \notin Idle, pc[w] # "schedule", UNCHANGED getters,
               NEW s \in Status, NEW next \in Phases, Update(w, f, s, next),
               s = "WAITING_FOR_SPACE" => next = "schedule"
        PROVE  Control' /\ Shared'
    BY <1>1, <1>2, <1>4, Updated
  <1> HIDE DEF f
  <1>5. CASE GetNextJob(w)
    BY <1>5, GetNextJobOK
  <1>6. CASE ScheduleSpaceRetry(w)
    BY <1>6, ScheduleSpaceRetryOK
  <1>7. CASE DropJob(w)
    BY <1>3, <1>7 DEF DropJob, At, Idle, Phases, f
  <1>8. CASE InitializeCopy(w)
    BY <1>4, <1>8 DEF InitializeCopy, At, Idle, Phases, queue, Status, f
  <1>9. CASE WaitForNetwork(w)
    BY <1>4, <1>9 DEF WaitForNetwork, At, Idle, Phases, queue, Status, f
  <1>10. CASE MarkSpaceError(w)
    BY <1>4, <1>10 DEF MarkSpaceError, At, Idle, Phases, queue, Status, f
  <1>11. CASE WaitForSpace(w)
    BY <1>4, <1>11 DEF WaitForSpace, At, Idle, Phases, queue, Status, f
  <1>12. CASE StartCopy(w)
    BY <1>3, <1>12 DEF StartCopy, At, Idle, Phases, queue, f
  <1>13. CASE CopyChunk(w)
    BY <1>4, <1>13 DEF CopyChunk, At, Idle, Phases, queue, Status, f
  <1>14. CASE NextChunk(w)
    BY <1>3, <1>14 DEF NextChunk, At, Idle, Phases, queue, f
  <1>15. CASE RemoveSource(w)
    BY <1>3, <1>15 DEF RemoveSource, At, Idle, Phases, queue, f
  <1>16. CASE Complete(w)
    BY <1>4, <1>16 DEF Complete, At, Idle, Phases, queue, Status, f
  <1>17. CASE FailCopy(w)
    BY <1>4, <1>17 DEF FailCopy, Classify, Idle, Phases, queue, Status, f
  <1>18. CASE LeaveCopy(w)
    BY <1>3, <1>18 DEF LeaveCopy, Idle, Phases, queue, f
  <1> QED
    BY <1>5, <1>6, <1>7, <1>8, <1>9, <1>10, <1>11, <1>12, <1>13, <1>14, <1>15, <1>16,
       <1>17, <1>18 DEF Worker

\* A list is made, or the round is over: nothing is written.
LEMMA ListOK ==
  ASSUME Control, Shared, NEW k \in Procs, UNCHANGED <<getters, status, retry>>,
         Rest(k) \/ \E chosen : List(k, chosen)
  PROVE  Control' /\ Shared'
  <1>1. /\ cpu = k /\ pc[k] # "schedule"
        /\ \E next \in {"list", "next"} : Suspend(k, None, next) \/ Continue(k, None, next)
    BY DEF Rest, List, At
  <1> QED
    BY <1>1, Quiet DEF Idle, Phases

\* The scanner: what is missing is REMOVED, the rest is told.
LEMMA ScannerOK ==
  ASSUME Control, Shared, Scanner
  PROVE  Control' /\ Shared'
  <1> DEFINE k == "scanner"
             f == cur[k]
  <1>1. k \in Procs
    BY ProcsNamed
  <1>2. f \in Files \cup {None} /\ (pc[k] \notin Idle => f \in Files)
    BY <1>1, Busy DEF Control
  <1>3. CASE Scan
    <2>1. /\ cpu = k /\ pc[k] = "list" /\ Continue(k, None, "next")
          /\ UNCHANGED <<getters, retry>>
      BY <1>3 DEF Scan, List, At, queue
    <2>2. \A g \in Files : status'[g] \in {status[g], "REMOVED"}
      BY <1>3 DEF Scan
    <2>3. status' \in [Files -> Status]
      BY <1>3 DEF Scan, Shared, Status
    <2>4. Control'
      BY <1>1, <2>1, Paused DEF Idle, Phases
    <2>5. pc' = [pc EXCEPT ![k] = "next"] /\ cur' = [cur EXCEPT ![k] = None]
      BY <2>1 DEF Continue, Goes
    <2>6. WaitingHasRetry'
      BY <1>1, <2>1, <2>2, <2>5, StillWaiting
    <2> QED
      BY <2>1, <2>3, <2>4, <2>6 DEF Shared
  <1>4. CASE Rest(k)
    BY <1>1, <1>4, ListOK DEF Rest, queue
  <1>5. CASE \E g \in Files : AskMetadata(g)
    BY <1>1, <1>5, Quiet DEF AskMetadata, Pick, At, Idle, Phases, queue
  <1>6. CASE Measure
    <2>1. /\ cpu = k /\ pc[k] = "metadata" /\ UNCHANGED <<getters, status, retry>>
          /\ Suspend(k, f, "judge") \/ Continue(k, f, "next")
      BY <1>6 DEF Measure, At, queue
    <2> HIDE DEF f
    <2> QED
      BY <1>1, <1>2, <2>1, Quiet DEF Idle, Phases
  <1>7. CASE PublishVerdict
    <2>1. cpu = k /\ pc[k] = "judge" /\ UNCHANGED <<getters, status, retry>>
      BY <1>7 DEF PublishVerdict, At, queue
    <2>2. CASE Continue(k, f, "next")
      <3> HIDE DEF f
      <3> QED
        BY <1>1, <1>2, <2>1, <2>2, Quiet DEF Idle, Phases
    <2>3. ASSUME NEW v \in Verdict(f), loop' = Append(loop, Tell(f, v, k)), cpu' = None,
                 Goes(k, f, IF v = "READY" THEN "announce" ELSE "next")
          PROVE  Control' /\ Shared'
      <3>1. f \in Files
        BY <1>2, <2>1 DEF Idle
      <3>2. v \in Status /\ v # "WAITING_FOR_SPACE"
        BY <2>3, VerdictsAssumption DEF Verdict, Status
      <3>3. /\ Tell(f, v, k) \in Handles /\ Tell(f, v, k).for = k
            /\ Tell(f, v, k).to # "WAITING_FOR_SPACE"
        BY <1>1, <3>1, <3>2 DEF Tell, Handle, Handles
      <3> HIDE DEF f
      <3> QED
        BY <1>1, <2>1, <2>3, <3>1, <3>3, Told DEF Phases
    <2> QED
      BY <1>7, <2>2, <2>3 DEF PublishVerdict, Ready
  <1>8. CASE AnnounceReady
    <2> DEFINE h == Handle("queue", f, None, k)
    <2>1. /\ cpu = k /\ pc[k] = "announce" /\ UNCHANGED <<getters, status, retry>>
          /\ loop' = Append(loop, h) /\ cpu' = None /\ Goes(k, f, "next")
      BY <1>8 DEF AnnounceReady, At, Ready, queue
    <2>2. f \in Files
      BY <1>2, <2>1 DEF Idle
    <2>3. h \in Handles /\ h.for = k /\ h.do = "queue"
      BY <1>1, <2>2 DEF Handle, Handles
    <2> HIDE DEF f, h
    <2> QED
      BY <1>1, <2>1, <2>2, <2>3, Told DEF Phases
  <1> QED
    BY <1>3, <1>4, <1>5, <1>6, <1>7, <1>8 DEF Scanner

\* The growth monitor writes its verdict.
LEMMA MonitorOK ==
  ASSUME Control, Shared, Monitor
  PROVE  Control' /\ Shared'
  <1> DEFINE k == "monitor"
             f == cur[k]
  <1>1. k \in Procs
    BY ProcsNamed
  <1>2. pc[k] \notin Idle => f \in Files
    BY <1>1, Busy
  <1>3. CASE ListWatched
    BY <1>1, <1>3, ListOK DEF ListWatched, queue
  <1>4. CASE Rest(k)
    BY <1>1, <1>4, ListOK DEF Rest, queue
  <1>5. CASE \E g \in Files : CheckGrowth(g)
    BY <1>1, <1>5, Quiet DEF CheckGrowth, Pick, At, Idle, Phases, queue
  <1>6. CASE ApplyVerdict
    <2>1. cpu = k /\ pc[k] = "judge" /\ UNCHANGED getters
      BY <1>6 DEF ApplyVerdict, At, queue
    <2>2. PICK v \in Verdict(f) : Update(k, f, v, "next")
      BY <1>6 DEF ApplyVerdict
    <2>3. v \in Status /\ v # "WAITING_FOR_SPACE"
      BY VerdictsAssumption DEF Verdict, Status
    <2>4. f \in Files
      BY <1>2, <2>1 DEF Idle
    <2> HIDE DEF f
    <2> QED
      BY <1>1, <2>1, <2>2, <2>3, <2>4, Updated DEF Phases
  <1> QED
    BY <1>3, <1>4, <1>5, <1>6 DEF Monitor

\* The recovery reactivates a file.
LEMMA RecoveryOK ==
  ASSUME Control, Shared, Recovery
  PROVE  Control' /\ Shared'
  <1> DEFINE k == "recovery"
  <1>1. k \in Procs
    BY ProcsNamed
  <1>2. CASE ListWaiting
    BY <1>1, <1>2, ListOK DEF ListWaiting, queue
  <1>3. CASE Rest(k)
    BY <1>1, <1>3, ListOK DEF Rest, queue
  <1>4. ASSUME NEW f \in Files, Reactivate(f)
        PROVE  Control' /\ Shared'
    <2>1. /\ cpu = k /\ pc[k] = "next" /\ UNCHANGED getters
          /\ Update(k, f, "DISCOVERED", "next")
      BY <1>4 DEF Reactivate, Pick, At, queue
    <2> QED
      BY <1>1, <2>1, Updated DEF Phases, Status
  <1> QED
    BY <1>2, <1>3, <1>4 DEF Recovery

\* The source file vanishes, and nobody notices yet.
LEMMA VanishOK ==
  ASSUME Control, Shared, NEW f \in Files, Vanish(f)
  PROVE  Control' /\ Shared'
  BY DEF Vanish, control, queue, Control, Shared, OneHandleEach, RunningIsAwake,
         GettersBlocked, Awaits, BusyWithFile, SpaceIsTold, WaitingHasRetry

-----------------------------------------------------------------------------
(* The jobs.                                                               *)

\* After an event of IN_QUEUE for f there is one of another status in l.
Followed(l, f) ==
    \A i \in DOMAIN l : TellsQueued(l[i], f) =>
        \E j \in DOMAIN l : i < j /\ TellsOther(l[j], f)

\* Some event in l is of another status of f.
Other(l, f) == \E i \in DOMAIN l : TellsOther(l[i], f)

LEMMA QueueingFollowed ==
  /\ LeavingIsTold <=> \A f \in Files : status[f] # "IN_QUEUE" => Followed(loop, f)
  /\ LeavingIsTold' <=> \A f \in Files : status'[f] # "IN_QUEUE" => Followed(loop', f)
  /\ \A f : Echo(f) <=> Other(loop, f)
  /\ \A f : Echo(f)' <=> Other(loop', f)
  BY DEF LeavingIsTold, Followed, Echo, Other

\* What is appended comes after all the rest.
LEMMA AppendedTells ==
  ASSUME NEW l \in Seq(Handles), NEW h \in Handles, NEW f
  PROVE  /\ Other(l, f) => Other(Append(l, h), f)
         /\ Followed(l, f) /\ ~TellsQueued(h, f) => Followed(Append(l, h), f)
         /\ TellsOther(h, f) => Followed(Append(l, h), f)
  <1> DEFINE m == Append(l, h)
             n == Len(l)
  <1>1. /\ n \in Nat /\ DOMAIN l = 1..n /\ DOMAIN m = 1..(n + 1)
        /\ m[n + 1] = h /\ \A i \in 1..n : m[i] = l[i]
    BY AppendProperties, LenProperties
  <1> HIDE DEF m, n
  <1>2. Other(l, f) => Other(m, f)
    BY <1>1 DEF Other
  <1>3. ASSUME Followed(l, f), ~TellsQueued(h, f)
        PROVE  Followed(m, f)
    <2> SUFFICES ASSUME NEW i \in DOMAIN m, TellsQueued(m[i], f)
                 PROVE  \E j \in DOMAIN m : i < j /\ TellsOther(m[j], f)
      BY DEF Followed
    <2>1. i \in DOMAIN l /\ TellsQueued(l[i], f)
      BY <1>1, <1>3
    <2>2. PICK j \in DOMAIN l : i < j /\ TellsOther(l[j], f)
      BY <1>3, <2>1 DEF Followed
    <2> QED
      BY <1>1, <2>2
  <1>4. ASSUME TellsOther(h, f)
        PROVE  Followed(m, f)
    <2> SUFFICES ASSUME NEW i \in DOMAIN m, TellsQueued(m[i], f)
                 PROVE  \E j \in DOMAIN m : i < j /\ TellsOther(m[j], f)
      BY DEF Followed
    <2>1. i # n + 1
      BY <1>1, <1>4 DEF TellsQueued, TellsOther
    <2>2. n + 1 \in DOMAIN m /\ i < n + 1
      BY <1>1, <2>1
    <2> QED
      BY <1>1, <1>4, <2>2
  <1> QED
    BY <1>2, <1>3, <1>4 DEF m

\* The first event is handled: if it is of IN_QUEUE, the one that follows it
\* is still there.
LEMMA TakenTells ==
  ASSUME NEW l \in Seq(Handles), l # <<>>, NEW f
  PROVE  /\ Followed(l, f) => Followed(Tail(l), f)
         /\ Other(l, f) /\ ~TellsOther(Head(l), f) => Other(Tail(l), f)
         /\ Followed(l, f) /\ TellsQueued(Head(l), f) => Other(Tail(l), f)
  <1> DEFINE m == Tail(l)
             n == Len(l)
  <1>1. /\ n \in Nat /\ n > 0 /\ DOMAIN l = 1..n /\ DOMAIN m = 1..(n - 1)
        /\ l[1] = Head(l) /\ \A i \in 1..(n - 1) : m[i] = l[i + 1]
    <2>1. /\ m \in Seq(Handles) /\ Len(m) = n - 1 /\ \A i \in 1..Len(m) : m[i] = l[i + 1]
          /\ n \in Nat /\ n # 0 /\ Head(l) = l[1]
      BY HeadTailProperties, EmptySeq, LenProperties
    <2> QED
      BY <2>1, LenProperties
  <1> HIDE DEF m, n
  <1>2. ASSUME NEW j \in DOMAIN l, j # 1
        PROVE  j - 1 \in DOMAIN m /\ m[j - 1] = l[j]
    <2>1. j - 1 \in 1..(n - 1) /\ (j - 1) + 1 = j
      BY <1>1, <1>2
    <2> QED
      BY <1>1, <2>1
  <1>3. ASSUME Followed(l, f)
        PROVE  Followed(m, f)
    <2> SUFFICES ASSUME NEW i \in DOMAIN m, TellsQueued(m[i], f)
                 PROVE  \E j \in DOMAIN m : i < j /\ TellsOther(m[j], f)
      BY DEF Followed
    <2>1. i + 1 \in DOMAIN l /\ TellsQueued(l[i + 1], f) /\ i \in Nat
      BY <1>1
    <2>2. PICK j \in DOMAIN l : i + 1 < j /\ TellsOther(l[j], f)
      BY <1>3, <2>1 DEF Followed
    <2>3. j # 1 /\ i < j - 1
      BY <1>1, <2>1, <2>2
    <2> QED
      BY <1>2, <2>2, <2>3
  <1>4. ASSUME Other(l, f), ~TellsOther(Head(l), f)
        PROVE  Other(m, f)
    BY <1>1, <1>2, <1>4 DEF Other
  <1>5. ASSUME Followed(l, f), TellsQueued(Head(l), f)
        PROVE  Other(m, f)
    <2>1. 1 \in DOMAIN l
      BY <1>1
    <2>2. PICK j \in DOMAIN l : 1 < j /\ TellsOther(l[j], f)
      BY <1>1, <1>5, <2>1 DEF Followed
    <2>3. j # 1
      BY <2>2
    <2> QED
      BY <1>2, <2>2, <2>3 DEF Other
  <1> QED
    BY <1>3, <1>4, <1>5 DEF m

\* The events of a status change: a change from IN_QUEUE, or to anything but
\* IN_QUEUE, is told after all the rest.
LEMMA EventsTell ==
  ASSUME NEW l \in Seq(Handles), NEW f \in Files, NEW s \in Status, NEW k \in Procs \cup {None}, NEW g
  PROVE  LET m == l \o Events(f, s, k)
         IN  /\ Other(l, g) => Other(m, g)
             /\ Followed(l, g) /\ (g # f \/ s # "IN_QUEUE") => Followed(m, g)
             /\ status[f] # s /\ s # "IN_QUEUE" => Followed(m, f)
  <1> DEFINE tell == Tell(f, s, k)
             ready == Handle("ready", f, None, None)
  <1>1. /\ tell \in Handles /\ ready \in Handles
        /\ tell.do = "tell" /\ tell.file = f /\ tell.to = s /\ ready.do = "ready"
    BY DEF Tell, Handle, Handles
  <1>2. CASE status[f] = s
    <2>1. l \o Events(f, s, k) = l
      BY <1>2, ConcatEmptySeq DEF Events
    <2> QED
      BY <1>2, <2>1
  <1>3. ASSUME NEW r \in Seq(Handles), status[f] # s,
               Other(l, g) => Other(r, g), \A e : Followed(l, e) => Followed(r, e),
               l \o Events(f, s, k) = Append(r, tell)
        PROVE  LET m == l \o Events(f, s, k)
               IN  /\ Other(l, g) => Other(m, g)
                   /\ Followed(l, g) /\ (g # f \/ s # "IN_QUEUE") => Followed(m, g)
                   /\ status[f] # s /\ s # "IN_QUEUE" => Followed(m, f)
    <2>1. s # "IN_QUEUE" => TellsOther(tell, f)
      BY <1>1 DEF TellsOther
    <2>2. g # f \/ s # "IN_QUEUE" => ~TellsQueued(tell, g)
      BY <1>1 DEF TellsQueued
    <2> HIDE DEF tell
    <2> QED
      BY <1>1, <1>3, <2>1, <2>2, AppendedTells
  <1>4. CASE status[f] # s /\ s = "READY"
    <2>1. l \o <<ready, tell>> = Append(Append(l, ready), tell) /\ Append(l, ready) \in Seq(Handles)
      BY <1>1
    <2>2. \A e : ~TellsQueued(ready, e)
      BY <1>1 DEF TellsQueued
    <2>3. /\ Other(l, g) => Other(Append(l, ready), g)
          /\ \A e : Followed(l, e) => Followed(Append(l, ready), e)
      BY <1>1, <2>2, AppendedTells
    <2>4. l \o Events(f, s, k) = Append(Append(l, ready), tell)
      BY <1>4, <2>1 DEF Events
    <2> HIDE DEF tell, ready
    <2> QED
      BY <1>3, <1>4, <2>1, <2>3, <2>4
  <1>5. CASE status[f] # s /\ s # "READY"
    <2>1. l \o <<tell>> = Append(l, tell)
      BY <1>1
    <2>2. l \o Events(f, s, k) = Append(l, tell)
      BY <1>5, <2>1 DEF Events
    <2> HIDE DEF tell
    <2> QED
      BY <1>3, <1>5, <2>2
  <1> QED
    BY <1>2, <1>4, <1>5

\* A job that is at hand stays at hand, while no job is taken and no worker
\* that has one goes on with it.
LEMMA StaysAtHand ==
  ASSUME NEW f, AtHand(f), jobs' = jobs, dropped \subseteq dropped',
         \A w \in Workers : pc[w] = "check" /\ cur[w] = f => pc'[w] = "check" /\ cur'[w] = f
  PROVE  AtHand(f)'
  BY DEF AtHand, Queued

\* A step keeps the jobs, if no file gets IN_QUEUE by it.
LEMMA QueueingKept ==
  ASSUME Queueing,
         \A f \in Files : status'[f] = "IN_QUEUE" => status[f] = "IN_QUEUE",
         \A f \in Files : status'[f] # "IN_QUEUE" => Followed(loop', f),
         \A f \in Files : status'[f] = "IN_QUEUE" /\ Other(loop, f) => Other(loop', f),
         \A f \in Files : status'[f] = "IN_QUEUE" /\ AtHand(f) => AtHand(f)'
  PROVE  Queueing'
  <1>1. LeavingIsTold'
    BY QueueingFollowed
  <1>2. QueuedIsAtHand'
    BY QueueingFollowed DEF Queueing, QueuedIsAtHand
  <1> QED
    BY <1>1, <1>2 DEF Queueing

\* Coroutine k suspends or goes on: if it is a worker that has just taken a
\* job, the file is no longer IN_QUEUE, or its job was dropped.
LEMMA QueueingQuiet ==
  ASSUME Control, Queueing, NEW k \in Procs, NEW next, NEW f, Goes(k, f, next),
         loop' = loop, jobs' = jobs, dropped \subseteq dropped',
         \A g \in Files : status'[g] = "IN_QUEUE" <=> status[g] = "IN_QUEUE",
         k \in Workers /\ pc[k] = "check" => cur[k] \in dropped'
  PROVE  Queueing'
  <1>1. \A w \in Procs \ {k} : pc'[w] = pc[w] /\ cur'[w] = cur[w]
    BY DEF Control, Goes
  <1>2. ASSUME NEW g \in Files, AtHand(g)
        PROVE  AtHand(g)'
    <2>1. CASE k \in Workers /\ pc[k] = "check" /\ cur[k] = g
      BY <2>1 DEF AtHand
    <2>2. CASE ~(k \in Workers /\ pc[k] = "check" /\ cur[k] = g)
      <3>1. \A w \in Workers : pc[w] = "check" /\ cur[w] = g => pc'[w] = "check" /\ cur'[w] = g
        BY <1>1, <2>2, ProcsNamed
      <3> QED
        BY <1>2, <3>1, StaysAtHand
    <2> QED
      BY <2>1, <2>2
  <1>3. \A g \in Files : status'[g] # "IN_QUEUE" => Followed(loop', g)
    BY QueueingFollowed DEF Queueing
  <1> QED
    BY <1>2, <1>3, QueueingKept

\* Coroutine k writes another status than IN_QUEUE; a worker writes that of
\* the file whose job it has taken.
LEMMA QueueingUpdated ==
  ASSUME Control, Shared, Queueing, NEW k \in Procs, NEW f \in Files, NEW s \in Status, NEW next,
         Update(k, f, s, next), UNCHANGED <<jobs, dropped>>, s # "IN_QUEUE",
         k \in Workers /\ pc[k] = "check" => f = cur[k]
  PROVE  Queueing'
  <1>1. /\ status' = [status EXCEPT ![f] = s] /\ loop' = loop \o Events(f, s, k)
        /\ Goes(k, f, next)
    BY DEF Update, Write, Ready
  <1>2. status'[f] = s /\ \A g \in Files : g # f => status'[g] = status[g]
    BY <1>1 DEF Shared
  <1>3. loop \in Seq(Handles)
    BY DEF Control
  <1>4. ASSUME NEW g \in Files
        PROVE  Other(loop, g) => Other(loop', g)
    BY <1>1, <1>3, EventsTell
  <1>5. ASSUME NEW g \in Files, status'[g] # "IN_QUEUE"
        PROVE  Followed(loop', g)
    <2>1. CASE status[g] # "IN_QUEUE"
      <3>1. Followed(loop, g)
        BY <2>1, QueueingFollowed DEF Queueing
      <3> QED
        BY <1>1, <1>3, <3>1, EventsTell
    <2>2. CASE status[g] = "IN_QUEUE"
      <3>1. g = f /\ status[f] # s
        BY <1>2, <1>5, <2>2
      <3> QED
        BY <1>1, <1>3, <3>1, EventsTell
    <2> QED
      BY <2>1, <2>2
  <1>6. ASSUME NEW g \in Files, status'[g] = "IN_QUEUE", AtHand(g)
        PROVE  AtHand(g)'
    <2>1. g # f
      BY <1>2, <1>6
    <2>2. \A w \in Procs \ {k} : pc'[w] = pc[w] /\ cur'[w] = cur[w]
      BY <1>1 DEF Control, Goes
    <2>3. \A w \in Workers : pc[w] = "check" /\ cur[w] = g => pc'[w] = "check" /\ cur'[w] = g
      BY <2>1, <2>2, ProcsNamed
    <2> QED
      BY <1>6, <2>3, StaysAtHand
  <1> QED
    BY <1>2, <1>4, <1>5, <1>6, QueueingKept

\* The state manager hears its own event.  If that sets IN_QUEUE again, the
\* event of the status it overwrites is still to be handled.
LEMMA HandleFileStatusChangedQueueing ==
  ASSUME Control, Shared, Queueing, HandleFileStatusChanged
  PROVE  Queueing'
  <1>0. PICK h \in Handles : h = Head(loop)
    BY FirstHandle DEF HandleFileStatusChanged, Head1
  <1>1. /\ loop # <<>> /\ h.do = "tell" /\ h.file \in Files /\ h.to \in Status
        /\ h.for \in Procs \cup {None}
        /\ status' = [status EXCEPT ![h.file] = h.to]
        /\ loop' = Tail(loop) \o Events(h.file, h.to, h.for)
        /\ UNCHANGED <<jobs, dropped, pc, cur>>
    BY <1>0 DEF HandleFileStatusChanged, Head1, Write, Ready, queue, Handles
  <1> DEFINE f == h.file
             s == h.to
  <1>2. status'[f] = s /\ \A g \in Files : g # f => status'[g] = status[g]
    BY <1>1 DEF Shared
  <1>3. loop \in Seq(Handles) /\ Tail(loop) \in Seq(Handles)
    BY <1>1, HeadTailProperties DEF Control
  <1>4. ASSUME NEW g \in Files
        PROVE  /\ Followed(loop, g) => Followed(Tail(loop), g)
               /\ Other(loop, g) /\ (g # f \/ s = "IN_QUEUE") => Other(Tail(loop), g)
               /\ Followed(loop, f) /\ s = "IN_QUEUE" => Other(Tail(loop), f)
    <2>1. /\ g # f \/ s = "IN_QUEUE" => ~TellsOther(Head(loop), g)
          /\ s = "IN_QUEUE" => TellsQueued(Head(loop), f)
      BY <1>0, <1>1 DEF TellsOther, TellsQueued
    <2> QED
      BY <1>1, <1>3, <2>1, TakenTells
  <1>5. ASSUME NEW g \in Files
        PROVE  /\ Other(Tail(loop), g) => Other(loop', g)
               /\ Followed(Tail(loop), g) /\ (g # f \/ s # "IN_QUEUE") => Followed(loop', g)
               /\ status[f] # s /\ s # "IN_QUEUE" => Followed(loop', f)
    <2> DEFINE l == Tail(loop)
               k == h.for
    <2>1. /\ l \in Seq(Handles) /\ f \in Files /\ s \in Status /\ k \in Procs \cup {None}
          /\ loop' = l \o Events(f, s, k)
      BY <1>1, <1>3
    <2>2. l = Tail(loop)
      OBVIOUS
    <2> HIDE DEF l, f, s, k
    <2>3. /\ Other(l, g) => Other(loop', g)
          /\ Followed(l, g) /\ (g # f \/ s # "IN_QUEUE") => Followed(loop', g)
          /\ status[f] # s /\ s # "IN_QUEUE" => Followed(loop', f)
      BY <2>1, EventsTell
    <2> QED
      BY <2>2, <2>3
  <1> HIDE DEF f, s
  <1>6. f \in Files
    BY <1>1 DEF f
  <1>7. LeavingIsTold'
    <2> SUFFICES ASSUME NEW g \in Files, status'[g] # "IN_QUEUE"
                 PROVE  Followed(loop', g)
      BY QueueingFollowed
    <2>1. CASE status[g] # "IN_QUEUE"
      <3>1. Followed(loop, g)
        BY <2>1, QueueingFollowed DEF Queueing
      <3> QED
        BY <1>2, <1>4, <1>5, <3>1
    <2>2. CASE status[g] = "IN_QUEUE"
      <3>1. g = f /\ status[f] # s /\ s # "IN_QUEUE"
        BY <1>2, <2>2
      <3> QED
        BY <1>5, <3>1
    <2> QED
      BY <2>1, <2>2
  <1>8. QueuedIsAtHand'
    <2> SUFFICES ASSUME NEW g \in Files, status'[g] = "IN_QUEUE"
                 PROVE  AtHand(g)' \/ Other(loop', g)
      BY QueueingFollowed DEF QueuedIsAtHand
    <2>1. g # f \/ s = "IN_QUEUE"
      BY <1>2
    <2>2. CASE status[g] = "IN_QUEUE"
      <3>1. AtHand(g) \/ Other(loop, g)
        BY <2>2, QueueingFollowed DEF Queueing, QueuedIsAtHand
      <3>2. AtHand(g) => AtHand(g)'
        BY <1>1 DEF AtHand, Queued
      <3> QED
        BY <1>4, <1>5, <2>1, <3>1, <3>2
    <2>3. CASE status[g] # "IN_QUEUE"
      <3>1. g = f /\ s = "IN_QUEUE" /\ Followed(loop, f)
        BY <1>2, <1>6, <2>1, <2>3, QueueingFollowed DEF Queueing
      <3> QED
        BY <1>4, <1>5, <3>1
    <2> QED
      BY <2>2, <2>3
  <1> QED
    BY <1>7, <1>8 DEF Queueing

\* The first handle is taken, and nothing else is done to jobs or statuses.
LEMMA TakenQueueing ==
  ASSUME Control, Queueing, loop # <<>>, Head(loop).do # "tell",
         \/ loop' = Tail(loop)
         \/ \E h \in Handles : h.do # "tell" /\ loop' = Append(Tail(loop), h),
         UNCHANGED <<status, jobs, dropped, pc, cur>>
  PROVE  Queueing'
  <1>1. loop \in Seq(Handles) /\ Tail(loop) \in Seq(Handles)
    BY HeadTailProperties DEF Control
  <1>2. ASSUME NEW g \in Files
        PROVE  /\ Followed(loop, g) => Followed(loop', g)
               /\ Other(loop, g) => Other(loop', g)
    <2>1. ~TellsOther(Head(loop), g)
      BY DEF TellsOther
    <2>2. /\ Followed(loop, g) => Followed(Tail(loop), g)
          /\ Other(loop, g) => Other(Tail(loop), g)
      BY <1>1, <2>1, TakenTells
    <2>3. ASSUME NEW h \in Handles, h.do # "tell", loop' = Append(Tail(loop), h)
          PROVE  /\ Followed(Tail(loop), g) => Followed(loop', g)
                 /\ Other(Tail(loop), g) => Other(loop', g)
      <3>1. ~TellsQueued(h, g)
        BY <2>3 DEF TellsQueued
      <3> QED
        BY <1>1, <2>3, <3>1, AppendedTells
    <2> QED
      BY <2>2, <2>3
  <1>3. \A g \in Files : AtHand(g) => AtHand(g)'
    BY DEF AtHand, Queued
  <1> QED
    BY <1>2, <1>3, QueueingFollowed, QueueingKept DEF Queueing

\* The job is put before the status is IN_QUEUE.
LEMMA HandleFileReadyQueueing ==
  ASSUME Control, Shared, Remaining, Queueing, HandleFileReady
  PROVE  Queueing'
  <1>0. PICK h \in Handles : h = Head(loop)
    BY FirstHandle DEF HandleFileReady, Head1
  <1>1. /\ loop # <<>> /\ h.do = "queue" /\ h.file \in Files /\ h.for \in Procs \cup {None}
        /\ UNCHANGED <<pc, cur>>
    BY <1>0 DEF HandleFileReady, Head1, Handles
  <1>2. loop \in Seq(Handles) /\ Tail(loop) \in Seq(Handles)
    BY <1>1, HeadTailProperties DEF Control
  <1> DEFINE f == h.file
  <1>3. CASE loop' = Tail(loop) /\ UNCHANGED <<status, jobs, dropped>>
    BY <1>0, <1>1, <1>2, <1>3, TakenQueueing
  <1>4. ASSUME NEW rest \in Seq(Handles), NEW s \in {"IN_QUEUE", "WAITING_FOR_NETWORK"},
               \/ rest = Tail(loop)
               \/ \E x \in Handles : x.do # "tell" /\ rest = Append(Tail(loop), x),
               Write(f, s, h.for, rest),
               \A g \in Files : g # f /\ AtHand(g) => AtHand(g)',
               s = "IN_QUEUE" => AtHand(f)'
        PROVE  Queueing'
    <2>1. /\ status' = [status EXCEPT ![f] = s] /\ loop' = rest \o Events(f, s, h.for)
      BY <1>4 DEF Write, Ready
    <2>2. status'[f] = s /\ (\A g \in Files : g # f => status'[g] = status[g]) /\ s \in Status
      BY <1>1, <2>1 DEF Shared, Status
    <2>3. ASSUME NEW g \in Files
          PROVE  /\ Followed(loop, g) => Followed(rest, g)
                 /\ Other(loop, g) => Other(rest, g)
      <3>1. ~TellsOther(Head(loop), g)
        BY <1>0, <1>1 DEF TellsOther
      <3>2. /\ Followed(loop, g) => Followed(Tail(loop), g)
            /\ Other(loop, g) => Other(Tail(loop), g)
        BY <1>1, <1>2, <3>1, TakenTells
      <3>3. ASSUME NEW x \in Handles, x.do # "tell", rest = Append(Tail(loop), x)
            PROVE  /\ Followed(Tail(loop), g) => Followed(rest, g)
                   /\ Other(Tail(loop), g) => Other(rest, g)
        <4>1. ~TellsQueued(x, g)
          BY <3>3 DEF TellsQueued
        <4> QED
          BY <1>2, <3>3, <4>1, AppendedTells
      <3> QED
        BY <1>4, <3>2, <3>3
    <2>4. ASSUME NEW g \in Files
          PROVE  /\ Other(rest, g) => Other(loop', g)
                 /\ Followed(rest, g) /\ (g # f \/ s # "IN_QUEUE") => Followed(loop', g)
                 /\ status[f] # s /\ s # "IN_QUEUE" => Followed(loop', f)
      BY <1>1, <2>1, <2>2, EventsTell
    <2>5. ASSUME NEW g \in Files, status'[g] # "IN_QUEUE"
          PROVE  Followed(loop', g)
      <3>1. CASE status[g] # "IN_QUEUE"
        <4>1. Followed(loop, g)
          BY <3>1, QueueingFollowed DEF Queueing
        <4> QED
          BY <2>2, <2>3, <2>4, <2>5, <4>1
      <3>2. CASE status[g] = "IN_QUEUE"
        <4>1. g = f /\ status[f] # s /\ s # "IN_QUEUE"
          BY <2>2, <2>5, <3>2
        <4> QED
          BY <2>4, <4>1
      <3> QED
        BY <3>1, <3>2
    <2>6. ASSUME NEW g \in Files, status'[g] = "IN_QUEUE"
          PROVE  AtHand(g)' \/ Other(loop', g)
      <3>1. CASE g = f
        BY <1>4, <2>2, <2>6, <3>1
      <3>2. CASE g # f
        <4>1. AtHand(g) \/ Other(loop, g)
          BY <2>2, <2>6, <3>2, QueueingFollowed DEF Queueing, QueuedIsAtHand
        <4> QED
          BY <1>4, <2>3, <2>4, <3>2, <4>1
      <3> QED
        BY <3>1, <3>2
    <2> QED
      BY <2>5, <2>6, QueueingFollowed DEF Queueing, QueuedIsAtHand
  <1>5. CASE Write(f, "WAITING_FOR_NETWORK", h.for, Tail(loop)) /\ UNCHANGED <<jobs, dropped>>
    <2>1. \A g \in Files : AtHand(g) => AtHand(g)'
      BY <1>1, <1>5 DEF AtHand, Queued
    <2> HIDE DEF f
    <2> QED
      BY <1>2, <1>4, <1>5, <2>1
  <1>6. ASSUME NEW woken, Write(f, "IN_QUEUE", h.for, Tail(loop) \o woken),
               woken = IF getters = <<>> THEN <<>> ELSE <<Resumption(Head(getters))>>,
               jobs' = Append(jobs, f), dropped' = dropped \ {f}
        PROVE  Queueing'
    <2>1. /\ f \in Files /\ jobs \in Seq(Files) /\ Len(jobs) \in Nat /\ DOMAIN jobs = 1..Len(jobs)
          /\ DOMAIN jobs' = 1..(Len(jobs) + 1)
          /\ jobs'[Len(jobs) + 1] = f /\ \A i \in 1..Len(jobs) : jobs'[i] = jobs[i]
      BY <1>1, <1>6, AppendProperties, LenProperties DEF Remaining
    <2>2. AtHand(f)'
      <3>1. Len(jobs) + 1 \in Queued(f)'
        BY <2>1 DEF Queued
      <3> QED
        BY <3>1 DEF AtHand
    <2>3. ASSUME NEW g \in Files, g # f, AtHand(g)
          PROVE  AtHand(g)'
      <3>1. CASE Queued(g) # {}
        <4>1. PICK i \in DOMAIN jobs : jobs[i] = g
          BY <3>1 DEF Queued
        <4>2. i \in Queued(g)'
          BY <2>1, <4>1 DEF Queued
        <4> QED
          BY <4>2 DEF AtHand
      <3>2. CASE Queued(g) = {}
        BY <1>1, <1>6, <2>3, <3>2 DEF AtHand
      <3> QED
        BY <3>1, <3>2
    <2> HIDE DEF f
    <2>4. CASE getters = <<>>
      <3>1. Tail(loop) \o woken = Tail(loop)
        BY <1>2, <1>6, <2>4, ConcatEmptySeq
      <3> QED
        BY <1>2, <1>4, <1>6, <2>2, <2>3, <3>1
    <2>5. CASE getters # <<>>
      <3>0. /\ Resumption(Head(getters)) \in Handles
            /\ Resumption(Head(getters)).do = "resume"
        <4>1. Head(getters) \in Procs
          BY <2>5, HeadTailProperties, ProcsNamed DEF Control
        <4> QED
          BY <4>1 DEF Resumption, Handle, Handles
      <3>1. PICK x \in Handles : x = Resumption(Head(getters)) /\ x.do = "resume"
        BY <3>0
      <3>2. Tail(loop) \o woken = Append(Tail(loop), x) /\ Append(Tail(loop), x) \in Seq(Handles)
        BY <1>2, <1>6, <2>5, <3>1
      <3> QED
        BY <1>4, <1>6, <2>2, <2>3, <3>1, <3>2
    <2> QED
      BY <2>4, <2>5
  <1> HIDE DEF f
  <1>7. \/ loop' = Tail(loop) /\ UNCHANGED <<status, jobs, dropped>>
        \/ Write(f, "WAITING_FOR_NETWORK", h.for, Tail(loop)) /\ UNCHANGED <<jobs, dropped>>
        \/ \E woken : /\ Write(f, "IN_QUEUE", h.for, Tail(loop) \o woken)
                      /\ woken = IF getters = <<>> THEN <<>> ELSE <<Resumption(Head(getters))>>
                      /\ jobs' = Append(jobs, f) /\ dropped' = dropped \ {f}
    BY <1>0 DEF HandleFileReady, queue, f
  <1> QED
    BY <1>3, <1>5, <1>6, <1>7

\* A job that is taken is in the hands of the worker.
LEMMA GetNextJobQueueing ==
  ASSUME Control, Remaining, Queueing, NEW w \in Workers, GetNextJob(w)
  PROVE  Queueing'
  <1>1. /\ w \in Procs /\ pc[w] \in {"take", "get"} /\ UNCHANGED <<status, dropped>>
    BY ProcsNamed DEF GetNextJob
  <1>2. CASE jobs' = jobs /\ Suspend(w, None, "get")
    BY <1>1, <1>2, QueueingQuiet DEF Suspend
  <1>3. CASE jobs # <<>> /\ jobs' = Tail(jobs) /\ Continue(w, Head(jobs), "check")
    <2>1. /\ loop' = loop /\ pc' = [pc EXCEPT ![w] = "check"] /\ cur' = [cur EXCEPT ![w] = Head(jobs)]
      BY <1>3 DEF Continue, Goes
    <2>2. /\ pc'[w] = "check" /\ cur'[w] = Head(jobs)
          /\ \A v \in Procs \ {w} : pc'[v] = pc[v] /\ cur'[v] = cur[v]
      BY <1>1, <2>1 DEF Control
    <2>3. ASSUME NEW g \in Files, AtHand(g)
          PROVE  AtHand(g)'
      <3>1. CASE Queued(g) # {}
        <4>1. PICK i \in DOMAIN jobs : jobs[i] = g
          BY <3>1 DEF Queued
        <4>2. /\ Len(jobs) \in Nat /\ DOMAIN jobs = 1..Len(jobs) /\ DOMAIN jobs' = 1..(Len(jobs) - 1)
              /\ \A j \in 1..(Len(jobs) - 1) : jobs'[j] = jobs[j + 1]
              /\ Head(jobs) = jobs[1]
          <5>1. /\ jobs' \in Seq(Files) /\ Len(jobs') = Len(jobs) - 1
                /\ \A j \in 1..Len(jobs') : jobs'[j] = jobs[j + 1]
                /\ Head(jobs) = jobs[1]
            BY <1>3, HeadTailProperties DEF Remaining
          <5> QED
            BY <5>1, LenProperties DEF Remaining
        <4>3. CASE i = 1
          BY <2>2, <4>1, <4>2, <4>3 DEF AtHand
        <4>4. CASE i # 1
          <5>1. i - 1 \in 1..(Len(jobs) - 1) /\ (i - 1) + 1 = i
            BY <4>1, <4>2, <4>4
          <5>2. i - 1 \in Queued(g)'
            BY <4>1, <4>2, <5>1 DEF Queued
          <5> QED
            BY <5>2 DEF AtHand
        <4> QED
          BY <4>3, <4>4
      <3>2. CASE g \in dropped
        BY <1>1, <3>2 DEF AtHand
      <3>3. ASSUME NEW v \in Workers, cur[v] = g, pc[v] = "check"
            PROVE  AtHand(g)'
        BY <1>1, <2>2, <3>3, ProcsNamed DEF AtHand
      <3> QED
        BY <2>3, <3>1, <3>2, <3>3 DEF AtHand
    <2>4. \A g \in Files : status'[g] # "IN_QUEUE" => Followed(loop', g)
      BY <1>1, <2>1, QueueingFollowed DEF Queueing
    <2> QED
      BY <1>1, <2>1, <2>3, <2>4, QueueingKept
  <1> QED
    BY <1>2, <1>3 DEF GetNextJob

\* A worker writes a status where it goes on with a job, or drops it.
LEMMA WorkerQueueing ==
  ASSUME Control, Shared, Remaining, Queueing, NEW w \in Workers, Worker(w)
  PROVE  Queueing'
  <1>1. w \in Procs
    BY ProcsNamed
  <1> DEFINE f == cur[w]
  <1>2. pc[w] \notin Idle => f \in Files
    BY <1>1, Busy
  <1>3. ASSUME NEW next, Suspend(w, f, next) \/ Continue(w, f, next), UNCHANGED <<status, jobs>>,
               dropped \subseteq dropped', pc[w] = "check" => f \in dropped'
        PROVE  Queueing'
    BY <1>1, <1>3, QueueingQuiet DEF Suspend, Continue
  <1>4. ASSUME pc[w] \notin Idle, UNCHANGED <<jobs, dropped>>, NEW s \in Status, NEW next,
               Update(w, f, s, next), s # "IN_QUEUE"
        PROVE  Queueing'
    BY <1>1, <1>2, <1>4, QueueingUpdated
  <1> HIDE DEF f
  <1>5. CASE GetNextJob(w)
    BY <1>5, GetNextJobQueueing
  <1>6. CASE ScheduleSpaceRetry(w)
    BY <1>3, <1>6 DEF ScheduleSpaceRetry, At, queue, f
  <1>7. CASE DropJob(w)
    BY <1>3, <1>7 DEF DropJob, At, f
  <1>8. CASE InitializeCopy(w)
    BY <1>4, <1>8 DEF InitializeCopy, At, Idle, queue, Status, f
  <1>9. CASE WaitForNetwork(w)
    BY <1>4, <1>9 DEF WaitForNetwork, At, Idle, queue, Status, f
  <1>10. CASE MarkSpaceError(w)
    BY <1>4, <1>10 DEF MarkSpaceError, At, Idle, queue, Status, f
  <1>11. CASE WaitForSpace(w)
    BY <1>4, <1>11 DEF WaitForSpace, At, Idle, queue, Status, f
  <1>12. CASE StartCopy(w)
    BY <1>3, <1>12 DEF StartCopy, At, queue, f
  <1>13. CASE CopyChunk(w)
    BY <1>4, <1>13 DEF CopyChunk, At, Idle, queue, Status, f
  <1>14. CASE NextChunk(w)
    BY <1>3, <1>14 DEF NextChunk, At, queue, f
  <1>15. CASE RemoveSource(w)
    BY <1>3, <1>15 DEF RemoveSource, At, queue, f
  <1>16. CASE Complete(w)
    BY <1>4, <1>16 DEF Complete, At, Idle, queue, Status, f
  <1>17. CASE FailCopy(w)
    BY <1>4, <1>17 DEF FailCopy, Classify, Idle, queue, Status, f
  <1>18. CASE LeaveCopy(w)
    BY <1>3, <1>18 DEF LeaveCopy, queue, f
  <1> QED
    BY <1>5, <1>6, <1>7, <1>8, <1>9, <1>10, <1>11, <1>12, <1>13, <1>14, <1>15, <1>16,
       <1>17, <1>18 DEF Worker

\* The scanner never writes IN_QUEUE, nor over it, nor tells of it.
LEMMA ScannerQueueing ==
  ASSUME Control, Shared, Queueing, Scanner
  PROVE  Queueing'
  <1> DEFINE k == "scanner"
             f == cur[k]
  <1>1. k \in Procs /\ k \notin Workers /\ loop \in Seq(Handles)
    BY ProcsNamed DEF Control
  <1>2. pc[k] \notin Idle => f \in Files
    BY <1>1, Busy
  <1>3. ASSUME NEW e, NEW next, Suspend(k, e, next) \/ Continue(k, e, next),
               UNCHANGED <<jobs, dropped>>,
               \A g \in Files : status'[g] = "IN_QUEUE" <=> status[g] = "IN_QUEUE"
        PROVE  Queueing'
    BY <1>1, <1>3, QueueingQuiet DEF Suspend, Continue
  <1>4. ASSUME NEW h \in Handles, \A g \in Files : ~TellsQueued(h, g),
               loop' = Append(loop, h), NEW next, Goes(k, f, next),
               UNCHANGED <<status, jobs, dropped>>
        PROVE  Queueing'
    <2>1. ASSUME NEW g \in Files
          PROVE  /\ Followed(loop, g) => Followed(loop', g)
                 /\ Other(loop, g) => Other(loop', g)
      BY <1>1, <1>4, AppendedTells
    <2>2. \A w \in Workers : pc'[w] = pc[w] /\ cur'[w] = cur[w]
      BY <1>1, <1>4, ProcsNamed DEF Goes, Control
    <2>3. \A g \in Files : AtHand(g) => AtHand(g)'
      BY <1>4, <2>2, StaysAtHand
    <2>4. \A g \in Files : status'[g] # "IN_QUEUE" => Followed(loop', g)
      BY <1>4, <2>1, QueueingFollowed DEF Queueing
    <2> QED
      BY <1>4, <2>1, <2>3, <2>4, QueueingKept
  <1>5. CASE Scan
    <2>1. \A g \in Files : status'[g] = "IN_QUEUE" <=> status[g] = "IN_QUEUE"
      BY <1>5 DEF Scan, KeptWhenMissing
    <2> QED
      BY <1>3, <1>5, <2>1 DEF Scan, List, queue
  <1>6. CASE Rest(k)
    BY <1>3, <1>6 DEF Rest, queue
  <1>7. CASE \E g \in Files : AskMetadata(g)
    BY <1>3, <1>7 DEF AskMetadata, queue
  <1>8. CASE Measure
    <2>1. UNCHANGED <<status, jobs, dropped>> /\ (Suspend(k, f, "judge") \/ Continue(k, f, "next"))
      BY <1>8 DEF Measure, queue
    <2> HIDE DEF f
    <2> QED
      BY <1>3, <2>1
  <1>9. CASE PublishVerdict
    <2>1. pc[k] = "judge" /\ UNCHANGED <<status, jobs, dropped>>
      BY <1>9 DEF PublishVerdict, At, queue
    <2>2. CASE Continue(k, f, "next")
      <3> HIDE DEF f
      <3> QED
        BY <1>3, <2>1, <2>2
    <2>3. ASSUME NEW v \in Verdict(f), loop' = Append(loop, Tell(f, v, k)), NEW next, Goes(k, f, next)
          PROVE  Queueing'
      <3>1. f \in Files
        BY <1>2, <2>1 DEF Idle
      <3>2. v \in Status /\ v # "IN_QUEUE"
        BY <2>3, VerdictsAssumption DEF Verdict, Status
      <3> DEFINE h == Tell(f, v, k)
      <3>3. h \in Handles /\ \A g \in Files : ~TellsQueued(h, g)
        BY <1>1, <3>1, <3>2 DEF Tell, Handle, Handles, TellsQueued
      <3>4. loop' = Append(loop, h)
        BY <2>3
      <3> HIDE DEF f, h
      <3> QED
        BY <1>4, <2>1, <2>3, <3>3, <3>4
    <2> QED
      BY <1>9, <2>2, <2>3 DEF PublishVerdict, Ready
  <1>10. CASE AnnounceReady
    <2> DEFINE h == Handle("queue", f, None, k)
    <2>1. /\ pc[k] = "announce" /\ UNCHANGED <<status, jobs, dropped>>
          /\ loop' = Append(loop, h) /\ Goes(k, f, "next")
      BY <1>10 DEF AnnounceReady, At, Ready, queue
    <2>2. f \in Files
      BY <1>2, <2>1 DEF Idle
    <2>3. h \in Handles /\ \A g \in Files : ~TellsQueued(h, g)
      BY <1>1, <2>2 DEF Handle, Handles, TellsQueued
    <2> HIDE DEF f, h
    <2> QED
      BY <1>4, <2>1, <2>3
  <1> QED
    BY <1>5, <1>6, <1>7, <1>8, <1>9, <1>10 DEF Scanner

\* The growth monitor writes its verdict, and tells of it.
LEMMA MonitorQueueing ==
  ASSUME Control, Shared, Queueing, Monitor
  PROVE  Queueing'
  <1> DEFINE k == "monitor"
             f == cur[k]
  <1>1. k \in Procs /\ k \notin Workers
    BY ProcsNamed
  <1>2. ASSUME NEW e, NEW next, Suspend(k, e, next) \/ Continue(k, e, next),
               UNCHANGED <<status, jobs, dropped>>
        PROVE  Queueing'
    BY <1>1, <1>2, QueueingQuiet DEF Suspend, Continue
  <1>3. CASE ListWatched
    BY <1>2, <1>3 DEF ListWatched, List, queue
  <1>4. CASE Rest(k)
    BY <1>2, <1>4 DEF Rest, queue
  <1>5. CASE \E g \in Files : CheckGrowth(g)
    BY <1>2, <1>5 DEF CheckGrowth, queue
  <1>6. CASE ApplyVerdict
    <2>1. pc[k] = "judge" /\ UNCHANGED <<jobs, dropped>>
      BY <1>6 DEF ApplyVerdict, At, queue
    <2>2. PICK v \in Verdict(f) : Update(k, f, v, "next")
      BY <1>6 DEF ApplyVerdict
    <2>3. v \in Status /\ v # "IN_QUEUE"
      BY VerdictsAssumption DEF Verdict, Status
    <2>4. f \in Files
      BY <1>1, <2>1, Busy DEF Idle
    <2> HIDE DEF f
    <2> QED
      BY <1>1, <2>1, <2>2, <2>3, <2>4, QueueingUpdated
  <1> QED
    BY <1>3, <1>4, <1>5, <1>6 DEF Monitor

\* The recovery writes DISCOVERED, and tells of it.
LEMMA RecoveryQueueing ==
  ASSUME Control, Shared, Queueing, Recovery
  PROVE  Queueing'
  <1> DEFINE k == "recovery"
  <1>1. k \in Procs /\ k \notin Workers
    BY ProcsNamed
  <1>2. ASSUME NEW e, NEW next, Suspend(k, e, next) \/ Continue(k, e, next),
               UNCHANGED <<status, jobs, dropped>>
        PROVE  Queueing'
    BY <1>1, <1>2, QueueingQuiet DEF Suspend, Continue
  <1>3. CASE ListWaiting
    BY <1>2, <1>3 DEF ListWaiting, List, queue
  <1>4. CASE Rest(k)
    BY <1>2, <1>4 DEF Rest, queue
  <1>5. ASSUME NEW f \in Files, Reactivate(f)
        PROVE  Queueing'
    <2>1. Update(k, f, "DISCOVERED", "next") /\ UNCHANGED <<jobs, dropped>>
      BY <1>5 DEF Reactivate, queue
    <2> QED
      BY <1>1, <2>1, QueueingUpdated DEF Status
  <1> QED
    BY <1>3, <1>4, <1>5 DEF Recovery

\* The event loop resumes a coroutine, or runs a handler.
LEMMA EventLoopQueueing ==
  ASSUME Control, Shared, Remaining, Queueing, EventLoop
  PROVE  Queueing'
  <1>1. CASE RunResume
    BY <1>1, TakenQueueing DEF RunResume, Head1, queue
  <1>2. CASE PublishReady
    <2>0. PICK h \in Handles : h = Head(loop)
      BY <1>2, FirstHandle DEF PublishReady, Head1
    <2> DEFINE x == [h EXCEPT !.do = "queue"]
    <2>1. /\ loop # <<>> /\ h.do = "ready" /\ loop' = Append(Tail(loop), x)
          /\ UNCHANGED <<status, jobs, dropped, pc, cur>>
      BY <1>2, <2>0 DEF PublishReady, Head1, queue
    <2>2. x \in Handles /\ x.do = "queue"
      BY <2>1 DEF Handles
    <2> HIDE DEF x
    <2> QED
      BY <2>0, <2>1, <2>2, TakenQueueing
  <1> QED
    BY <1>1, <1>2, HandleFileStatusChangedQueueing, HandleFileReadyQueueing DEF EventLoop

\* The end of a sleep or of an I/O call is one more handle, and it tells nothing.
LEMMA CompletedQueueing ==
  ASSUME Control, Queueing, NEW k \in Procs, Completed(k)
  PROVE  Queueing'
  <1> DEFINE h == Resumption(k)
  <1>1. loop' = Append(loop, h) /\ UNCHANGED <<status, jobs, dropped, pc, cur>>
    BY DEF Completed, Ready, queue
  <1>2. h \in Handles /\ h.do = "resume"
    BY DEF Resumption, Handle, Handles
  <1> HIDE DEF h
  <1>3. ASSUME NEW g \in Files
        PROVE  /\ Followed(loop, g) => Followed(loop', g)
               /\ Other(loop, g) => Other(loop', g)
    <2>1. ~TellsQueued(h, g)
      BY <1>2 DEF TellsQueued
    <2> QED
      BY <1>1, <1>2, <2>1, AppendedTells DEF Control
  <1>4. \A g \in Files : AtHand(g) => AtHand(g)'
    BY <1>1 DEF AtHand, Queued
  <1>5. \A g \in Files : status'[g] # "IN_QUEUE" => Followed(loop', g)
    BY <1>1, <1>3, QueueingFollowed DEF Queueing
  <1> QED
    BY <1>1, <1>3, <1>4, <1>5, QueueingKept

\* A file waits in the queue or in the hands of a worker, whatever step is
\* taken.
LEMMA QueueingOK ==
  ASSUME Control, Shared, Remaining, Queueing, Next
  PROVE  Queueing'
  <1>1. ASSUME NEW w \in Workers, GetTimeout(w)
        PROVE  Queueing'
    <2>1. /\ pc' = [pc EXCEPT ![w] = "take"] /\ UNCHANGED <<status, jobs, dropped, loop, cur>>
          /\ \E i \in DOMAIN getters : getters[i] = w
      BY <1>1 DEF GetTimeout
    <2>2. pc[w] = "get"
      BY <2>1 DEF Control, GettersBlocked
    <2>3. \A v \in Workers : pc[v] = "check" => pc'[v] = "check"
      BY <2>1, <2>2, ProcsNamed DEF Control
    <2>4. \A g \in Files : AtHand(g) => AtHand(g)'
      BY <2>1, <2>3, StaysAtHand
    <2> QED
      BY <2>1, <2>4, QueueingFollowed, QueueingKept DEF Queueing
  <1>2. ASSUME NEW f \in Files, RetryFires(f)
        PROVE  Queueing'
    <2>1. UNCHANGED <<jobs, dropped, loop, pc, cur>>
      BY <1>2 DEF RetryFires, queue, control
    <2>2. \A g \in Files : status'[g] = "IN_QUEUE" <=> status[g] = "IN_QUEUE"
      BY <1>2 DEF RetryFires, Shared
    <2>3. \A g \in Files : AtHand(g) => AtHand(g)'
      BY <2>1 DEF AtHand, Queued
    <2>4. \A g \in Files : status'[g] # "IN_QUEUE" => Followed(loop', g)
      BY <2>1, <2>2, QueueingFollowed DEF Queueing
    <2> QED
      BY <2>1, <2>2, <2>3, <2>4, QueueingKept
  <1>3. ASSUME NEW f \in Files, Vanish(f)
        PROVE  Queueing'
    <2>1. UNCHANGED <<status, jobs, dropped, loop, pc, cur>>
      BY <1>3 DEF Vanish, queue, control
    <2> QED
      BY <2>1 DEF Queueing, LeavingIsTold, QueuedIsAtHand, AtHand, Queued, Echo
  <1> QED
    BY <1>1, <1>2, <1>3, EventLoopQueueing, WorkerQueueing, ScannerQueueing, MonitorQueueing,
       RecoveryQueueing, CompletedQueueing DEF Next

-----------------------------------------------------------------------------
(* The theorems.                                                           *)

\* The types of what neither the event loop nor the retries depend on.
LEMMA RemainingOK ==
  ASSUME Control, Shared, Remaining, Next
  PROVE  Remaining'
  <1>1. ASSUME NEW w \in Workers, Worker(w)
        PROVE  Remaining'
    <2>1. w \in Procs
      BY ProcsNamed
    <2>2. CASE GetNextJob(w)
      <3>1. jobs' \in Seq(Files)
        BY <2>2, HeadTailProperties, EmptySeq DEF GetNextJob, Remaining
      <3> QED
        BY <2>2, <3>1 DEF GetNextJob, Remaining, source
    <2>3. CASE DropJob(w)
      BY <2>1, <2>3, Busy DEF DropJob, At, Idle, Remaining, source
    <2>4. CASE InitializeCopy(w) \/ WaitForNetwork(w) \/ ScheduleSpaceRetry(w) \/ CopyChunk(w)
                  \/ FailCopy(w)
      BY <2>4 DEF InitializeCopy, WaitForNetwork, ScheduleSpaceRetry, CopyChunk, FailCopy,
                  Remaining, source, queue
    <2>5. CASE StartCopy(w) \/ NextChunk(w) \/ LeaveCopy(w)
      BY <2>5 DEF StartCopy, NextChunk, LeaveCopy, Remaining, source, queue
    <2>6. CASE MarkSpaceError(w) \/ WaitForSpace(w)
      BY <2>6 DEF MarkSpaceError, WaitForSpace, Remaining, source, queue
    <2>7. CASE RemoveSource(w)
      BY <2>7 DEF RemoveSource, Remaining, queue
    <2>8. CASE Complete(w)
      BY <2>8 DEF Complete, Remaining, source, queue
    <2> QED
      BY <1>1, <2>2, <2>3, <2>4, <2>5, <2>6, <2>7, <2>8 DEF Worker
  <1>2. CASE EventLoop
    <2>1. CASE RunResume \/ HandleFileStatusChanged \/ PublishReady
      BY <2>1 DEF RunResume, HandleFileStatusChanged, PublishReady, Remaining, source, queue
    <2>2. CASE HandleFileReady
      <3>1. Head(loop).file \in Files
        BY <2>2, FirstHandle DEF HandleFileReady, Head1, Handles
      <3>2. jobs' \in {jobs, Append(jobs, Head(loop).file)} /\ dropped' \subseteq dropped
        BY <2>2 DEF HandleFileReady, queue
      <3>3. jobs' \in Seq(Files) /\ dropped' \subseteq Files
        <4>1. Append(jobs, Head(loop).file) \in Seq(Files)
          BY <3>1, AppendProperties DEF Remaining
        <4> QED
          BY <3>2, <4>1 DEF Remaining
      <3> QED
        BY <2>2, <3>3 DEF HandleFileReady, Remaining, source
    <2> QED
      BY <1>2, <2>1, <2>2 DEF EventLoop
  <1>3. CASE Scanner
    <2>1. CASE Scan
      BY <2>1 DEF Scan, List, Remaining, source, queue
    <2>2. CASE \E f \in Files : AskMetadata(f)
      BY <2>2 DEF AskMetadata, Pick, Remaining, source, queue
    <2>3. CASE Measure
      <3>1. cur["scanner"] \in Files
        BY <2>3, ProcsNamed, Busy DEF Measure, At, Idle
      <3> QED
        BY <2>3, <3>1 DEF Measure, Remaining, queue
    <2>4. CASE PublishVerdict \/ AnnounceReady \/ Rest("scanner")
      BY <2>4 DEF PublishVerdict, AnnounceReady, Rest, Remaining, source, queue
    <2> QED
      BY <1>3, <2>1, <2>2, <2>3, <2>4 DEF Scanner
  <1>4. CASE Monitor
    <2>1. CASE ListWatched
      BY <2>1 DEF ListWatched, List, Remaining, source, queue
    <2>2. CASE \E f \in Files : CheckGrowth(f)
      BY <2>2 DEF CheckGrowth, Pick, Remaining, source, queue
    <2>3. CASE ApplyVerdict \/ Rest("monitor")
      BY <2>3 DEF ApplyVerdict, Rest, Remaining, source, queue
    <2> QED
      BY <1>4, <2>1, <2>2, <2>3 DEF Monitor
  <1>5. CASE Recovery
    <2>1. CASE ListWaiting
      BY <2>1 DEF ListWaiting, List, Remaining, source, queue
    <2>2. CASE \E f \in Files : Reactivate(f)
      BY <2>2 DEF Reactivate, Pick, Remaining, source, queue
    <2>3. CASE Rest("recovery")
      BY <2>3 DEF Rest, Remaining, source, queue
    <2> QED
      BY <1>5, <2>1, <2>2, <2>3 DEF Recovery
  <1>6. CASE \E k \in Procs : Completed(k)
    BY <1>6 DEF Completed, Remaining, source, queue
  <1>7. CASE \E w \in Workers : GetTimeout(w)
    BY <1>7 DEF GetTimeout, Remaining, source
  <1>8. CASE \E f \in Files : RetryFires(f)
    BY <1>8 DEF RetryFires, Remaining, source, queue, control
  <1>9. CASE \E f \in Files : Vanish(f)
    BY <1>9 DEF Vanish, Remaining, queue, control
  <1> QED
    BY <1>1, <1>2, <1>3, <1>4, <1>5, <1>6, <1>7, <1>8, <1>9 DEF Next

\* Every state of the pipeline satisfies the inductive invariant: handles and
\* getters are in order, a wait for space is paired with its retry, and a
\* file in the queue with its job or with an event that is still to come.
THEOREM Inductive == Spec => [](TypeOK /\ WaitingHasRetry /\ IInv)
  <1>1. Init => TypeOK /\ WaitingHasRetry /\ IInv
    <2> SUFFICES ASSUME Init
                 PROVE  Control /\ Shared /\ Remaining /\ Queueing
      BY Parts
    <2>1. loop = <<>> /\ getters = <<>> /\ jobs = <<>> /\ cpu = None
      BY DEF Init
    <2>2. DOMAIN loop = {} /\ DOMAIN getters = {} /\ loop \in Seq(Handles) /\ getters \in Seq(Workers)
          /\ jobs \in Seq(Files)
      BY <2>1, EmptySeq
    <2>3. pc \in [Procs -> Phases] /\ cur \in [Procs -> Files \cup {None}]
          /\ \A k \in Procs : pc[k] \in Idle
      BY DEF Init, Phases, Idle
    <2>4. Control
      BY <2>1, <2>2, <2>3
         DEF Control, OneHandleEach, RunningIsAwake, GettersBlocked, BusyWithFile, SpaceIsTold
    <2>5. Shared
      BY DEF Init, Shared, WaitingHasRetry, Status
    <2>6. Remaining
      BY <2>2 DEF Init, Remaining
    <2>7. Queueing
      BY <2>2 DEF Init, Queueing, LeavingIsTold, QueuedIsAtHand
    <2> QED
      BY <2>4, <2>5, <2>6, <2>7
  <1>2. TypeOK /\ WaitingHasRetry /\ IInv /\ [Next]_vars => (TypeOK /\ WaitingHasRetry /\ IInv)'
    <2> SUFFICES ASSUME Control, Shared, Remaining, Queueing, [Next]_vars
                 PROVE  Control' /\ Shared' /\ Remaining' /\ Queueing'
      BY Parts, PTL
    <2>1. CASE Next
      <3> SUFFICES Control' /\ Shared'
        BY <2>1, RemainingOK, QueueingOK
      <3>1. CASE EventLoop
        BY <3>1, RunResumeOK, HandleFileStatusChangedOK, PublishReadyOK, HandleFileReadyOK
           DEF EventLoop
      <3>2. CASE \E w \in Workers : Worker(w)
        BY <3>2, WorkerOK
      <3>3. CASE Scanner \/ Monitor \/ Recovery
        BY <3>3, ScannerOK, MonitorOK, RecoveryOK
      <3>4. CASE \E k \in Procs : Completed(k)
        BY <3>4, CompletedOK
      <3>5. CASE \E w \in Workers : GetTimeout(w)
        BY <3>5, GetTimeoutOK
      <3>6. CASE \E f \in Files : RetryFires(f) \/ Vanish(f)
        BY <3>6, RetryFiresOK, VanishOK
      <3> QED
        BY <2>1, <3>1, <3>2, <3>3, <3>4, <3>5, <3>6 DEF Next
    <2>2. CASE UNCHANGED vars
      <3>1. Control' /\ Shared' /\ Remaining'
        BY <2>2 DEF vars, control, queue, source, Control, Shared, Remaining,
                    OneHandleEach, RunningIsAwake, GettersBlocked, Awaits, BusyWithFile,
                    SpaceIsTold, WaitingHasRetry
      <3>2. Queueing'
        BY <2>2 DEF vars, control, queue, Queueing, LeavingIsTold, QueuedIsAtHand,
                    AtHand, Queued, Echo
      <3> QED
        BY <3>1, <3>2
    <2> QED
      BY <2>1, <2>2
  <1> QED
    BY <1>1, <1>2, PTL DEF Spec

\* The variables keep their types.
THEOREM TypeCorrect == Spec => []TypeOK
  BY Inductive, PTL

\* A file that waits for space has a retry, or gets one from the worker that
\* found the shortage (space_retry_manager.py, lines 37-93): no event that
\* comes between its status and its retry, however late, leaves it alone.
THEOREM SpaceRetried == Spec => []WaitingHasRetry
  BY Inductive, PTL

\* A file that is IN_QUEUE has a job, in the queue or in the hands of a worker
\* (job_queue.py, lines 80-131), unless the job was dropped where its copy was
\* prepared, or the status is an echo that another event overwrites
\* (state_manager.py, handle_file_status_changed).
THEOREM QueuedFilesHaveJobs == Spec => []QueuedHasJob
  <1>1. IInv => QueuedHasJob
    BY DEF IInv, QueuedIsAtHand, AtHand, QueuedHasJob, Holders
  <1> QED
    BY <1>1, Inductive, PTL

-----------------------------------------------------------------------------
(* The registry.                                                           *)

\* A step of the registry, or of none of its variables.
Registered == Registry!Next \/ UNCHANGED <<status, retry>>

\* Whoever writes a status calls update_file_status_by_id.
LEMMA WriteRegistered ==
  ASSUME Shared, NEW f \in Files, NEW s \in Status, NEW k, NEW rest, Write(f, s, k, rest)
  PROVE  Registered
  <1>1. /\ status' = [status EXCEPT ![f] = s]
        /\ retry' = [retry EXCEPT ![f] = @ /\ s \notin Terminal]
    BY DEF Write
  <1>2. {g \in Files : retry'[g]} =
            IF s \in Terminal THEN {g \in Files : retry[g]} \ {f} ELSE {g \in Files : retry[g]}
    BY <1>1 DEF Shared
  <1>3. Registry!Update(f, s)
    BY <1>1, <1>2 DEF Registry!Update, Terminal, Registry!Terminal
  <1> QED
    BY <1>3 DEF Registered, Registry!Next, Status, Registry!Status

\* So does every worker, and it schedules retries by schedule_retry.
LEMMA WorkerRegistered ==
  ASSUME Control, Shared, NEW w \in Workers, Worker(w)
  PROVE  Registered
  <1>1. w \in Procs
    BY ProcsNamed
  <1> DEFINE f == cur[w]
  <1>2. pc[w] \notin Idle => f \in Files
    BY <1>1, Busy
  <1>3. ASSUME NEW s \in Status, NEW next, Update(w, f, s, next), pc[w] \notin Idle
        PROVE  Registered
    BY <1>2, <1>3, WriteRegistered DEF Update
  <1>4. CASE ScheduleSpaceRetry(w)
    <2>1. PICK g \in Files : g = f
      BY <1>2, <1>4 DEF ScheduleSpaceRetry, At, Idle
    <2>2. retry' = [retry EXCEPT ![g] = TRUE] /\ UNCHANGED status
      BY <1>4, <2>1 DEF ScheduleSpaceRetry
    <2>3. {h \in Files : retry'[h]} = {h \in Files : retry[h]} \cup {g}
      BY <2>2 DEF Shared
    <2>4. Registry!Schedule(g)
      BY <2>2, <2>3 DEF Registry!Schedule
    <2> QED
      BY <2>4 DEF Registered, Registry!Next
  <1> HIDE DEF f
  <1>5. CASE InitializeCopy(w)
    BY <1>3, <1>5 DEF InitializeCopy, At, Idle, Status, f
  <1>6. CASE WaitForNetwork(w)
    BY <1>3, <1>6 DEF WaitForNetwork, At, Idle, Status, f
  <1>7. CASE MarkSpaceError(w)
    BY <1>3, <1>7 DEF MarkSpaceError, At, Idle, Status, f
  <1>8. CASE WaitForSpace(w)
    BY <1>3, <1>8 DEF WaitForSpace, At, Idle, Status, f
  <1>9. CASE CopyChunk(w)
    BY <1>3, <1>9 DEF CopyChunk, At, Idle, Status, f
  <1>10. CASE Complete(w)
    BY <1>3, <1>10 DEF Complete, At, Idle, Status, f
  <1>11. CASE FailCopy(w)
    BY <1>3, <1>11 DEF FailCopy, Classify, Idle, Status, f
  <1>12. CASE \/ GetNextJob(w) \/ DropJob(w) \/ StartCopy(w) \/ NextChunk(w)
              \/ RemoveSource(w) \/ LeaveCopy(w)
    BY <1>12 DEF GetNextJob, DropJob, StartCopy, NextChunk, RemoveSource, LeaveCopy,
                 Registered
  <1> QED
    BY <1>4, <1>5, <1>6, <1>7, <1>8, <1>9, <1>10, <1>11, <1>12 DEF Worker

\* The scan marks the missing files with cleanup_missing_files.
LEMMA ScanRegistered ==
  ASSUME Shared, Scan
  PROVE  Registered
  <1> DEFINE missing == {f \in Files : ~present[f] /\ status[f] \notin KeptWhenMissing}
  <1>1. /\ status' = [f \in Files |-> IF f \in missing THEN "REMOVED" ELSE status[f]]
        /\ UNCHANGED retry
    BY DEF Scan
  <1>2. /\ missing \in SUBSET Files
        /\ \A f \in missing : status[f] \notin KeptWhenMissing
    OBVIOUS
  <1> HIDE DEF missing
  <1>3. Registry!Sweep(missing)
    BY <1>1, <1>2 DEF Registry!Sweep, KeptWhenMissing, Registry!KeptWhenMissing
  <1> QED
    BY <1>2, <1>3 DEF Registered, Registry!Next

\* The event loop's handlers update, too.
LEMMA EventLoopRegistered ==
  ASSUME Control, Shared, EventLoop
  PROVE  Registered
  <1>1. CASE RunResume \/ PublishReady
    BY <1>1 DEF RunResume, PublishReady, Registered
  <1>2. CASE HandleFileStatusChanged
    <2>1. PICK h \in Handles : h = Head(loop)
      BY <1>2, FirstHandle DEF HandleFileStatusChanged, Head1
    <2>2. h.file \in Files /\ h.to \in Status /\ Write(h.file, h.to, h.for, Tail(loop))
      BY <1>2, <2>1 DEF HandleFileStatusChanged, Head1, Handles
    <2> QED
      BY <2>2, WriteRegistered
  <1>3. CASE HandleFileReady
    <2>1. PICK h \in Handles : h = Head(loop)
      BY <1>3, FirstHandle DEF HandleFileReady, Head1
    <2>2. /\ h.file \in Files
          /\ \/ UNCHANGED <<status, retry>>
             \/ \E s \in {"IN_QUEUE", "WAITING_FOR_NETWORK"} : \E rest :
                   Write(h.file, s, h.for, rest)
      BY <1>3, <2>1 DEF HandleFileReady, Head1, Handles
    <2>3. ASSUME NEW s \in {"IN_QUEUE", "WAITING_FOR_NETWORK"}, NEW rest,
                 Write(h.file, s, h.for, rest)
          PROVE  Registered
      BY <2>2, <2>3, WriteRegistered DEF Status
    <2> QED
      BY <2>2, <2>3 DEF Registered
  <1> QED
    BY <1>1, <1>2, <1>3 DEF EventLoop

\* Every step of the pipeline is one of the registry, or is none of its own.
LEMMA NextRegistered ==
  ASSUME Control, Shared, [Next]_vars
  PROVE  Registered
  <1>1. CASE Scanner
    <2>1. CASE \/ Rest("scanner") \/ (\E f \in Files : AskMetadata(f))
               \/ Measure \/ PublishVerdict \/ AnnounceReady
      BY <2>1 DEF Rest, AskMetadata, Measure, PublishVerdict, AnnounceReady, Registered
    <2> QED
      BY <1>1, <2>1, ScanRegistered DEF Scanner
  <1>2. CASE Monitor
    <2>1. CASE ListWatched \/ Rest("monitor") \/ \E f \in Files : CheckGrowth(f)
      BY <2>1 DEF ListWatched, Rest, CheckGrowth, Registered
    <2>2. CASE ApplyVerdict
      <3> DEFINE f == cur["monitor"]
      <3>1. PICK v \in Verdict(f) : Update("monitor", f, v, "next")
        BY <2>2 DEF ApplyVerdict
      <3>2. f \in Files
        BY <2>2, ProcsNamed, Busy DEF ApplyVerdict, At, Idle
      <3>3. v \in Status
        BY VerdictsAssumption DEF Verdict, Status
      <3> HIDE DEF f
      <3> QED
        BY <3>1, <3>2, <3>3, WriteRegistered DEF Update
    <2> QED
      BY <1>2, <2>1, <2>2 DEF Monitor
  <1>3. CASE Recovery
    <2>1. CASE ListWaiting \/ Rest("recovery")
      BY <2>1 DEF ListWaiting, Rest, Registered
    <2>2. ASSUME NEW f \in Files, Reactivate(f)
          PROVE  Registered
      BY <2>2, WriteRegistered DEF Reactivate, Update, Status
    <2> QED
      BY <1>3, <2>1, <2>2 DEF Recovery
  <1>4. ASSUME NEW f \in Files, RetryFires(f)
        PROVE  Registered
    <2>1. /\ f \in {g \in Files : retry[g]}
          /\ {g \in Files : retry'[g]} = {g \in Files : retry[g]} \ {f}
          /\ status' = [status EXCEPT ![f] = IF @ = "WAITING_FOR_SPACE" THEN "READY" ELSE @]
      BY <1>4 DEF RetryFires, Shared
    <2>2. Registry!Fire(f)
      BY <2>1 DEF Registry!Fire
    <2> QED
      BY <2>2 DEF Registered, Registry!Next
  <1>5. CASE \/ \E k \in Procs : Completed(k)
             \/ \E w \in Workers : GetTimeout(w)
             \/ \E f \in Files : Vanish(f)
             \/ UNCHANGED vars
    BY <1>5 DEF Completed, GetTimeout, Vanish, vars, Registered
  <1> QED
    BY <1>1, <1>2, <1>3, <1>4, <1>5, EventLoopRegistered, WorkerRegistered DEF Next

\* All that the pipeline does to its files it does by the methods of the
\* registry (state_manager.py), as TrackedFiles states them: no status is
\* overwritten and no retry lost or revived in any other way.
THEOREM PipelineUsesTheRegistry == Spec => UsesTheRegistry
  <1>1. Init => Registry!Init
    BY DEF Init, Registry!Init
  <1>2. TypeOK /\ WaitingHasRetry /\ IInv /\ [Next]_vars => [Registry!Next]_Registry!fileVars
    BY Parts, NextRegistered DEF Registered, Registry!fileVars
  <1> QED
    BY <1>1, <1>2, Inductive, PTL DEF Spec, UsesTheRegistry, Registry!Spec
=============================================================================
