-------------------------- MODULE FileScannerProofs --------------------------
(***************************************************************************)
(* Proofs about FileScanner, for any number of scan tasks and monitor      *)
(* loops, any sizes and any growth timeout.                                *)
(*                                                                         *)
(* The invariant has three parts that need each other little.  The life    *)
(* cycle: a task is cancelled only on behalf of a stop that waits for it,  *)
(* so that the finally clause never changes the flag behind the back of    *)
(* the last event.  The growth: no answer and no record is larger than the *)
(* file, so a check that does not see growth and has the present size had  *)
(* it before, and the time of stability it leaves alone was true before.   *)
(* The types, which need to know that a verdict is there to be applied.    *)
(***************************************************************************)
EXTENDS FileScanner, TLAPS

LEMMA StatusFacts ==
    {"DISCOVERED", "READY", "IN_QUEUE", "WAITING_FOR_NETWORK", "GROWING",
     "READY_TO_START_GROWING", "FAILED", "REMOVED"} \subseteq Status
BY DEF Status

LEMMA DecideType ==
    ASSUME NEW now, NEW grows, NEW grown, NEW age
    PROVE  Decide(now, grows, grown, age) \in Status
BY StatusFacts DEF Decide

LEMMA OlderType ==
    ASSUME NEW age \in Ages
    PROVE  Older(age) \in Ages
BY SizesAssumption DEF Older, Ages

-----------------------------------------------------------------------------
(* Where the tasks are.                                                    *)

PhasesOK ==
    /\ pc \in [Tasks -> ScanPhases \cup LoopPhases]
    /\ \A k \in Scans : pc[k] \in ScanPhases
    /\ \A j \in Loops : pc[j] \in LoopPhases

LEMMA ScanGoes ==
    ASSUME PhasesOK, NEW k \in Scans, NEW there \in ScanPhases, Go(k, there)
    PROVE  PhasesOK'
<1>1. k \in Tasks /\ \A j \in Loops : j # k /\ j \in Tasks
  BY TasksAssumption DEF Tasks
<1> QED BY <1>1 DEF PhasesOK, Go, Tasks

LEMMA LoopGoes ==
    ASSUME PhasesOK, NEW j \in Loops, NEW there \in LoopPhases, Go(j, there)
    PROVE  PhasesOK'
<1>1. j \in Tasks /\ \A k \in Scans : j # k /\ k \in Tasks
  BY TasksAssumption DEF Tasks
<1> QED BY <1>1 DEF PhasesOK, Go, Tasks

\* What each action of a scan task does to the phases.
LEMMA ScanPhasesKept ==
    ASSUME PhasesOK, NEW k \in Scans, Scan(k)
    PROVE  PhasesOK'
<1>1. \E there \in ScanPhases : Go(k, there)
  <2> USE DEF ScanPhases
  <2>1. CASE ScanHead(k)
    BY <2>1 DEF ScanHead, Sweep, CloseScan
  <2>2. CASE ScanCancelled(k)
    BY <2>2 DEF ScanCancelled, CloseScan
  <2>3. CASE CheckExistingFileChanges(k)
    BY <2>3 DEF CheckExistingFileChanges
  <2>4. CASE UpdateFileGrowthInfo(k)
    BY <2>4 DEF UpdateFileGrowthInfo
  <2>5. CASE ScanJudge(k)
    BY <2>5 DEF ScanJudge
  <2>6. CASE ApplyVerdict(k)
    BY <2>6 DEF ApplyVerdict
  <2>7. CASE Stat(k)
    BY <2>7 DEF Stat
  <2> QED BY <2>1, <2>2, <2>3, <2>4, <2>5, <2>6, <2>7 DEF Scan
<1> QED BY <1>1, ScanGoes

LEMMA LoopPhasesKept ==
    ASSUME PhasesOK, NEW j \in Loops, Monitor(j)
    PROVE  PhasesOK'
<1>1. \E there \in LoopPhases : Go(j, there)
  <2> USE DEF LoopPhases
  <2>1. CASE ListWatched(j)
    BY <2>1 DEF ListWatched
  <2>2. CASE CheckGrowth(j)
    BY <2>2 DEF CheckGrowth
  <2>3. CASE LoopJudge(j)
    BY <2>3 DEF LoopJudge
  <2>4. CASE Stat(j)
    <3>1. pc[j] \in LoopPhases
      BY DEF PhasesOK
    <3> QED BY <2>4, <3>1 DEF Stat
  <2> QED BY <2>1, <2>2, <2>3, <2>4 DEF Monitor
<1> QED BY <1>1, LoopGoes

LEMMA StartPhasesKept ==
    ASSUME PhasesOK, StartScanning
    PROVE  PhasesOK'
<1>1. PICK k \in Scans, loops \in SUBSET Loops :
         pc' = [t \in Tasks |-> IF t = k THEN "new"
                                ELSE IF t \in loops THEN "watch" ELSE pc[t]]
  BY DEF StartScanning
<1>2. \A t \in Scans : t \in Tasks /\ t \notin loops
  BY TasksAssumption DEF Tasks
<1>3. \A t \in Loops : t \in Tasks /\ t # k
  BY TasksAssumption DEF Tasks
<1> QED BY <1>1, <1>2, <1>3 DEF PhasesOK, ScanPhases, LoopPhases

LEMMA StopPhasesKept ==
    ASSUME PhasesOK, StopScanning
    PROVE  PhasesOK'
<1>1. CASE pc' = pc
  BY <1>1 DEF PhasesOK
<1>2. CASE \E k \in Scans, there \in ScanPhases : Go(k, there)
  BY <1>2, ScanGoes
<1> QED BY <1>1, <1>2 DEF StopScanning, Alive, ScanPhases, tasks

-----------------------------------------------------------------------------
(* Types.                                                                  *)

\* What a check records of a size keeps its type.
LEMMA RecordType ==
    ASSUME TypeOK, NEW now \in 0..MaxSize, Record(now)
    PROVE  /\ fileSize' \in 0..MaxSize
           /\ stableSince' \in Ages \cup {None}
           /\ unseen' \in BOOLEAN
BY SizesAssumption DEF TypeOK, Record, Ages

GrowthType ==
    /\ fileSize \in 0..MaxSize
    /\ firstSeen \in 0..MaxSize
    /\ stableSince \in Ages \cup {None}
    /\ unseen \in BOOLEAN

LEMMA ConcludesType ==
    ASSUME TypeOK, NEW k \in Tasks, NEW s, Concludes(k, s)
    PROVE  GrowthType'
<1>1. seen[k] \in 0..MaxSize
  BY DEF TypeOK
<1> QED BY <1>1, RecordType DEF Concludes, GrowthType, TypeOK, growth

CycleType ==
    /\ running \in BOOLEAN
    /\ active \in BOOLEAN
    /\ scanTask \in Scans \cup {None}
    /\ stopping \subseteq Scans
    /\ told \in BOOLEAN

AnswersType ==
    /\ seen \in [Tasks -> 0..MaxSize]
    /\ verdict \in [Tasks -> Status \cup {None}]

LEMMA ForgetType ==
    ASSUME TypeOK, NEW k \in Tasks, Forget(k)
    PROVE  AnswersType'
BY SizesAssumption DEF TypeOK, Forget, AnswersType

LEMMA TypeParts ==
    TypeOK <=> /\ present \in BOOLEAN /\ size \in 0..MaxSize /\ quiet \in Ages
               /\ status \in Status
               /\ GrowthType /\ CycleType /\ PhasesOK /\ AnswersType
BY DEF TypeOK, GrowthType, CycleType, PhasesOK, AnswersType

LEMMA TypeBuilt ==
    ASSUME present' \in BOOLEAN, size' \in 0..MaxSize, quiet' \in Ages, status' \in Status,
           GrowthType', CycleType', PhasesOK', AnswersType'
    PROVE  TypeOK'
BY DEF TypeOK, GrowthType, CycleType, PhasesOK, AnswersType

LEMMA StatType ==
    ASSUME TypeOK, NEW k \in Tasks, Stat(k), PhasesOK'
    PROVE  TypeOK'
<1>1. seen' \in [Tasks -> 0..MaxSize]
  BY SizesAssumption DEF Stat, TypeOK
<1> QED BY <1>1 DEF Stat, TypeOK, PhasesOK, file, growth, cycle

LEMMA ScanType ==
    ASSUME TypeOK, VerdictsKept, NEW k \in Scans, Scan(k)
    PROVE  TypeOK'
<1>0. PhasesOK' /\ k \in Tasks
  BY ScanPhasesKept, TypeParts DEF Tasks
<1>1. CASE ScanHead(k)
  <2>1. CASE Sweep(k)
    BY <1>0, <2>1, StatusFacts DEF Sweep, TypeOK, PhasesOK, file, growth, cycle
  <2>2. CASE CloseScan(k)
    BY <1>0, <2>2, ForgetType DEF CloseScan, TypeOK, PhasesOK, AnswersType, file, growth
  <2> QED BY <1>1, <2>1, <2>2 DEF ScanHead
<1>2. CASE ScanCancelled(k)
  BY <1>0, <1>2, ForgetType
     DEF ScanCancelled, CloseScan, TypeOK, PhasesOK, AnswersType, file, growth
<1>3. CASE CheckExistingFileChanges(k)
  <2>1. seen[k] \in 0..MaxSize
    BY <1>0 DEF TypeOK
  <2> QED BY <1>0, <1>3, <2>1, ForgetType
             DEF CheckExistingFileChanges, TypeOK, PhasesOK, AnswersType, file, cycle
<1>4. CASE UpdateFileGrowthInfo(k)
  <2>1. seen[k] \in 0..MaxSize
    BY <1>0 DEF TypeOK
  <2>2. GrowthType'
    BY <1>4, <2>1, RecordType DEF UpdateFileGrowthInfo, TypeOK, GrowthType, growth
  <2>3. AnswersType'
    BY <1>0, <1>4, ForgetType DEF UpdateFileGrowthInfo
  <2> QED BY <1>0, <1>4, <2>2, <2>3, TypeBuilt
             DEF UpdateFileGrowthInfo, TypeOK, CycleType, file, cycle
<1>5. CASE ScanJudge(k)
  <2>1. GrowthType'
    BY <1>0, <1>5, ConcludesType DEF ScanJudge
  <2>2. AnswersType'
    BY <1>0, <1>5, SizesAssumption DEF ScanJudge, AnswersType, TypeOK
  <2> QED BY <1>0, <1>5, <2>1, <2>2, TypeBuilt DEF ScanJudge, TypeOK, CycleType, file, cycle
<1>6. CASE ApplyVerdict(k)
  <2>1. verdict[k] \in Status
    BY <1>6 DEF ApplyVerdict, VerdictsKept
  <2>2. AnswersType'
    BY <1>0, <1>6, ForgetType DEF ApplyVerdict
  <2> QED BY <1>0, <1>6, <2>1, <2>2, TypeBuilt
             DEF ApplyVerdict, TypeOK, GrowthType, CycleType, file, growth, cycle
<1>7. CASE Stat(k)
  BY <1>0, <1>7, StatType
<1> QED BY <1>1, <1>2, <1>3, <1>4, <1>5, <1>6, <1>7 DEF Scan

LEMMA MonitorType ==
    ASSUME TypeOK, NEW j \in Loops, Monitor(j)
    PROVE  TypeOK'
<1>0. PhasesOK' /\ j \in Tasks
  BY LoopPhasesKept, TypeParts DEF Tasks
<1>1. CASE ListWatched(j)
  BY <1>0, <1>1 DEF ListWatched, TypeOK, PhasesOK, file, growth, cycle
<1>2. CASE CheckGrowth(j)
  BY <1>0, <1>2 DEF CheckGrowth, TypeOK, PhasesOK, file, growth, cycle
<1>3. CASE LoopJudge(j)
  <2>1. GrowthType'
    BY <1>0, <1>3, ConcludesType DEF LoopJudge
  <2>2. AnswersType'
    BY <1>0, <1>3, ForgetType DEF LoopJudge
  <2> QED BY <1>0, <1>3, <2>1, <2>2, TypeBuilt DEF LoopJudge, TypeOK, CycleType, file, cycle
<1>4. CASE Stat(j)
  BY <1>0, <1>4, StatType
<1> QED BY <1>1, <1>2, <1>3, <1>4 DEF Monitor

LEMMA CycleSteps ==
    ASSUME TypeOK, StartScanning \/ StopScanning \/ \E k \in Scans : StopEnds(k)
    PROVE  TypeOK'
<1>1. CASE StartScanning
  <2>1. PhasesOK'
    BY <1>1, StartPhasesKept, TypeParts
  <2>2. scanTask' \in Scans
    BY <1>1 DEF StartScanning
  <2> QED BY <1>1, <2>1, <2>2 DEF StartScanning, TypeOK, PhasesOK, file, growth
<1>2. CASE StopScanning
  <2>1. PhasesOK'
    BY <1>2, StopPhasesKept, TypeParts
  <2>2. AnswersType'
    <3>1. CASE scanTask \in Alive /\ Forget(scanTask)
      BY <3>1, ForgetType DEF Alive, Tasks
    <3>2. CASE UNCHANGED tasks
      BY <3>2 DEF tasks, TypeOK, AnswersType
    <3> QED BY <1>2, <3>1, <3>2 DEF StopScanning
  <2>3. CycleType'
    BY <1>2 DEF StopScanning, Stopped, Alive, TypeOK, CycleType
  <2> QED BY <1>2, <2>1, <2>2, <2>3, TypeBuilt DEF StopScanning, TypeOK, GrowthType, file, growth
<1>3. CASE \E k \in Scans : StopEnds(k)
  BY <1>3 DEF StopEnds, Stopped, TypeOK, file, growth, tasks
<1> QED BY <1>1, <1>2, <1>3

LEMMA WorldType ==
    ASSUME TypeOK, Grow \/ Vanish \/ Tick \/ HandleFileReady \/ Reactivate \/ UNCHANGED vars
    PROVE  TypeOK'
<1>1. CASE Grow
  BY <1>1, SizesAssumption DEF Grow, TypeOK, Ages, growth, cycle, tasks
<1>2. CASE Vanish
  <2>1. /\ present' \in BOOLEAN
        /\ quiet' = GrowthTimeout
    BY <1>2 DEF Vanish
  <2>3. GrowthTimeout \in Ages
    BY SizesAssumption DEF Ages
  <2>2. UNCHANGED <<size, status, growth, cycle, tasks>>
    BY <1>2 DEF Vanish
  <2> QED BY <2>1, <2>2, <2>3 DEF TypeOK, growth, cycle, tasks
<1>3. CASE Tick
  BY <1>3, OlderType DEF Tick, TypeOK, cycle, tasks
<1>4. CASE HandleFileReady \/ Reactivate
  BY <1>4, StatusFacts DEF HandleFileReady, Reactivate, Becomes, TypeOK, file, growth, cycle, tasks
<1>5. CASE UNCHANGED vars
  BY <1>5 DEF TypeOK, vars, file, growth, cycle, tasks
<1> QED BY <1>1, <1>2, <1>3, <1>4, <1>5

LEMMA NextType ==
    ASSUME TypeOK, VerdictsKept, [Next]_vars
    PROVE  TypeOK'
BY ScanType, MonitorType, CycleSteps, WorldType DEF Next

-----------------------------------------------------------------------------
(* The life cycle.                                                         *)

\* What a scan task does with its verdict.
LEMMA ScanVerdicts ==
    ASSUME IInv, NEW k \in Scans, Scan(k)
    PROVE  VerdictsKept'
<1>0. k \in Tasks /\ \A t \in Scans : t \in Tasks
  BY DEF Tasks
<1>1. CASE Forget(k) /\ \E there \in ScanPhases \ {"tell"} : Go(k, there)
  BY <1>0, <1>1 DEF IInv, TypeOK, VerdictsKept, Forget, Go
<1>2. CASE ScanHead(k)
  <2>1. CASE Sweep(k) /\ pc[k] # "tell"
    BY <1>0, <2>1 DEF Sweep, IInv, TypeOK, VerdictsKept, Go
  <2> QED BY <1>1, <1>2, <2>1 DEF ScanHead, CloseScan, ScanPhases
<1>3. CASE ScanCancelled(k)
  BY <1>1, <1>3 DEF ScanCancelled, CloseScan, ScanPhases
<1>4. CASE CheckExistingFileChanges(k)
  BY <1>1, <1>4 DEF CheckExistingFileChanges, ScanPhases
<1>5. CASE UpdateFileGrowthInfo(k)
  BY <1>1, <1>5 DEF UpdateFileGrowthInfo, ScanPhases
<1>6. CASE ScanJudge(k)
  <2>1. PICK s \in Status :
           IF s = status \/ status = "WAITING_FOR_NETWORK"
           THEN Go(k, "head") /\ verdict' = verdict
           ELSE Go(k, "tell") /\ verdict' = [verdict EXCEPT ![k] = s]
    BY <1>6 DEF ScanJudge
  <2> QED BY <1>0, <1>6, <2>1 DEF ScanJudge, IInv, TypeOK, VerdictsKept, Go
<1>7. CASE ApplyVerdict(k)
  BY <1>1, <1>7 DEF ApplyVerdict, ScanPhases
<1>8. CASE Stat(k)
  BY <1>0, <1>8 DEF Stat, IInv, TypeOK, VerdictsKept, Go
<1> QED BY <1>2, <1>3, <1>4, <1>5, <1>6, <1>7, <1>8 DEF Scan

\* A monitor loop has no verdict to keep, and cancels nobody.
LEMMA MonitorLeavesScans ==
    ASSUME IInv, NEW j \in Loops, Monitor(j)
    PROVE  /\ \A k \in Scans : pc'[k] = pc[k] /\ verdict'[k] = verdict[k]
           /\ UNCHANGED cycle
<1>1. \A k \in Scans : k \in Tasks /\ k # j
  BY TasksAssumption DEF Tasks
<1>2. \A k \in Scans : pc'[k] = pc[k]
  BY <1>1 DEF Monitor, ListWatched, CheckGrowth, LoopJudge, Stat, Go, IInv, TypeOK
<1>3. \A k \in Scans : verdict'[k] = verdict[k]
  BY <1>1 DEF Monitor, ListWatched, CheckGrowth, LoopJudge, Stat, Forget, IInv, TypeOK
<1> QED BY <1>2, <1>3 DEF Monitor, ListWatched, CheckGrowth, LoopJudge, Stat

\* A scan task never cancels anybody; and it changes the running flag only if
\* it is cancelled, and then its stop has still to tell.
LEMMA ScanCycle ==
    ASSUME IInv, NEW k \in Scans, Scan(k)
    PROVE  CancelsAwaited' /\ ToldTheTruth'
<1>0. k \in Tasks /\ \A t \in Scans : t \in Tasks
  BY DEF Tasks
<1>1. \E there \in ScanPhases \ {"cancelled"} : Go(k, there)
  BY DEF Scan, ScanHead, Sweep, ScanCancelled, CloseScan, CheckExistingFileChanges,
         UpdateFileGrowthInfo, ScanJudge, ApplyVerdict, Stat, ScanPhases
<1>2. UNCHANGED <<stopping, told>>
  BY DEF Scan, ScanHead, Sweep, ScanCancelled, CloseScan, CheckExistingFileChanges,
         UpdateFileGrowthInfo, ScanJudge, ApplyVerdict, Stat, cycle
<1>3. running' = running \/ k \in stopping
  <2>1. CASE CloseScan(k) /\ ~running
    BY <2>1 DEF CloseScan, IInv, TypeOK
  <2>2. CASE ScanCancelled(k)
    BY <2>2 DEF ScanCancelled, IInv, CancelsAwaited
  <2> QED BY <2>1, <2>2 DEF Scan, ScanHead, Sweep, CheckExistingFileChanges,
             UpdateFileGrowthInfo, ScanJudge, ApplyVerdict, Stat, cycle
<1>4. CancelsAwaited'
  BY <1>0, <1>1, <1>2 DEF IInv, TypeOK, CancelsAwaited, Go
<1>5. ToldTheTruth'
  BY <1>2, <1>3 DEF IInv, ToldTheTruth
<1> QED BY <1>4, <1>5

\* Resuming tells the truth at once, and leaves the cancelled tasks alone.
LEMMA StartCycle ==
    ASSUME IInv, StartScanning
    PROVE  VerdictsKept' /\ CancelsAwaited' /\ ToldTheTruth'
<1>1. PICK k \in Scans, loops \in SUBSET Loops :
         /\ pc[k] = "off"
         /\ pc' = [t \in Tasks |-> IF t = k THEN "new"
                                   ELSE IF t \in loops THEN "watch" ELSE pc[t]]
  BY DEF StartScanning
<1>2. \A t \in Scans : pc'[t] = IF t = k THEN "new" ELSE pc[t]
  BY <1>1, TasksAssumption DEF Tasks
<1>3. UNCHANGED <<stopping, verdict>> /\ told' /\ running'
  BY DEF StartScanning
<1>4. VerdictsKept'
  BY <1>1, <1>2, <1>3 DEF IInv, VerdictsKept
<1>5. CancelsAwaited'
  BY <1>2, <1>3 DEF IInv, CancelsAwaited
<1>6. ToldTheTruth'
  BY DEF StartScanning, ToldTheTruth
<1> QED BY <1>4, <1>5, <1>6

\* A stop waits for the task it cancels, or tells at once.
LEMMA StopCycle ==
    ASSUME IInv, StopScanning \/ \E k \in Scans : StopEnds(k)
    PROVE  VerdictsKept' /\ CancelsAwaited' /\ ToldTheTruth'
<1>0. \A t \in Scans : t \in Tasks
  BY DEF Tasks
<1>1. CASE StopScanning /\ scanTask \in Alive
  <2>1. scanTask \in Scans /\ pc[scanTask] # "off"
    BY <1>1 DEF Alive
  <2>2. /\ \E there \in {"off", "cancelled"} : Go(scanTask, there)
        /\ Forget(scanTask)
        /\ stopping' = stopping \cup {scanTask}
    BY <1>1 DEF StopScanning
  <2>3. VerdictsKept'
    BY <1>0, <2>1, <2>2 DEF IInv, TypeOK, VerdictsKept, Go, Forget
  <2>4. CancelsAwaited'
    BY <1>0, <2>1, <2>2 DEF IInv, TypeOK, CancelsAwaited, Go
  <2>5. ToldTheTruth'
    BY <2>2 DEF ToldTheTruth
  <2> QED BY <2>3, <2>4, <2>5
<1>2. CASE StopScanning /\ scanTask \notin Alive
  <2>1. UNCHANGED <<stopping, pc, verdict>> /\ ~told' /\ ~running'
    BY <1>2 DEF StopScanning, Stopped, tasks
  <2>2. told' = FALSE /\ running' = FALSE
    BY <1>2 DEF StopScanning, Stopped
  <2> QED BY <2>1, <2>2 DEF IInv, VerdictsKept, CancelsAwaited, ToldTheTruth
<1>3. CASE \E k \in Scans : StopEnds(k)
  <2>1. PICK k \in Scans : StopEnds(k)
    BY <1>3
  <2>2. /\ pc[k] = "off" /\ stopping' = stopping \ {k}
        /\ UNCHANGED <<pc, verdict, running>>
        /\ told' = running
    BY <2>1 DEF StopEnds, Stopped, tasks
  <2>3. VerdictsKept'
    BY <2>2 DEF IInv, VerdictsKept
  <2>4. CancelsAwaited'
    BY <2>2 DEF IInv, CancelsAwaited
  <2>5. ToldTheTruth'
    BY <2>2 DEF ToldTheTruth
  <2> QED BY <2>3, <2>4, <2>5
<1> QED BY <1>1, <1>2, <1>3

\* Every step keeps the life cycle's part.
LEMMA NextCycle ==
    ASSUME IInv, [Next]_vars
    PROVE  VerdictsKept' /\ CancelsAwaited' /\ ToldTheTruth'
<1>1. CASE \E k \in Scans : Scan(k)
  BY <1>1, ScanVerdicts, ScanCycle
<1>2. CASE \E j \in Loops : Monitor(j)
  <2>1. /\ \A k \in Scans : pc'[k] = pc[k] /\ verdict'[k] = verdict[k]
        /\ UNCHANGED <<stopping, told, running>>
    BY <1>2, MonitorLeavesScans DEF cycle
  <2> QED BY <2>1 DEF IInv, VerdictsKept, CancelsAwaited, ToldTheTruth
<1>3. CASE StartScanning \/ StopScanning \/ \E k \in Scans : StopEnds(k)
  BY <1>3, StartCycle, StopCycle
<1>4. CASE UNCHANGED <<pc, verdict, stopping, told, running>>
  BY <1>4 DEF IInv, VerdictsKept, CancelsAwaited, ToldTheTruth
<1> QED BY <1>1, <1>2, <1>3, <1>4
           DEF Next, Grow, Vanish, Tick, HandleFileReady, Reactivate, Becomes, vars, cycle, tasks

-----------------------------------------------------------------------------
(* Growth.                                                                 *)

\* A check leaves the time of stability true: if what it was told is the
\* present size, and not more than what was recorded, that was the present
\* size as well.
LEMMA RecordKeeps ==
    ASSUME IInv, NEW k \in Tasks, seen[k] > 0, Record(seen[k]), UNCHANGED <<size, quiet>>
    PROVE  fileSize' <= size' /\ StableMeansQuiet'
<1>1. /\ seen[k] \in Nat /\ fileSize \in Nat /\ size \in Nat /\ quiet \in Nat
      /\ seen[k] <= size /\ fileSize <= size
      /\ stableSince \in Nat \cup {None} /\ unseen \in BOOLEAN
  BY SizesAssumption DEF IInv, TypeOK, SizesKnown, Ages
<1>2. fileSize' = seen[k]
  BY DEF Record
<1>3. ASSUME stableSince' # None, ~unseen', fileSize' = size'
      PROVE  quiet' >= stableSince'
  <2>1. seen[k] = fileSize /\ seen[k] = size
    BY <1>1, <1>3 DEF Record
  <2>2. CASE stableSince = None
    BY <1>1, <1>3, <2>1, <2>2 DEF Record
  <2>3. CASE stableSince # None
    <3>1. ~unseen /\ stableSince' = stableSince
      BY <1>1, <1>3, <2>1, <2>3 DEF Record
    <3> QED BY <2>1, <2>3, <3>1 DEF IInv, StableMeansQuiet
  <2> QED BY <2>2, <2>3
<1> QED BY <1>1, <1>2, <1>3 DEF StableMeansQuiet

GrowthOK == SizesKnown /\ StableMeansQuiet

\* Task k has used its answer up, or asked for a new one.
LEMMA AnswersKeep ==
    ASSUME IInv, NEW k \in Tasks, size' = size,
           seen' = seen \/ \E now \in 0..size : seen' = [seen EXCEPT ![k] = now]
    PROVE  \A t \in Tasks : seen'[t] <= size'
BY SizesAssumption DEF IInv, TypeOK, SizesKnown

LEMMA ForgetKeeps ==
    ASSUME IInv, NEW k \in Tasks, size' = size, seen' = [seen EXCEPT ![k] = 0]
    PROVE  \A t \in Tasks : seen'[t] <= size'
<1>1. 0 \in 0..size
  BY SizesAssumption DEF IInv, TypeOK
<1> QED BY <1>1, AnswersKeep

LEMMA ConcludesKeeps ==
    ASSUME IInv, NEW k \in Tasks, NEW s, Concludes(k, s), UNCHANGED <<size, quiet>>
    PROVE  fileSize' <= size' /\ StableMeansQuiet'
<1>1. CASE UNCHANGED growth
  BY <1>1 DEF IInv, SizesKnown, StableMeansQuiet, growth
<1>2. CASE seen[k] > 0 /\ Record(seen[k])
  BY <1>2, RecordKeeps
<1> QED BY <1>1, <1>2 DEF Concludes

LEMMA StatGrowth ==
    ASSUME IInv, NEW k \in Tasks, Stat(k)
    PROVE  GrowthOK'
<1>1. /\ UNCHANGED <<size, quiet, fileSize, stableSince, unseen>>
      /\ \E now \in 0..size : seen' = [seen EXCEPT ![k] = now]
  <2>1. /\ UNCHANGED <<size, quiet, fileSize, stableSince, unseen>>
        /\ seen' = [seen EXCEPT ![k] = IF present THEN size ELSE 0]
    BY DEF Stat, file, growth
  <2>2. (IF present THEN size ELSE 0) \in 0..size
    BY SizesAssumption DEF IInv, TypeOK
  <2> QED BY <2>1, <2>2
<1>2. \A t \in Tasks : seen'[t] <= size'
  BY <1>1, AnswersKeep
<1> QED BY <1>1, <1>2 DEF GrowthOK, IInv, SizesKnown, StableMeansQuiet

LEMMA ScanGrowth ==
    ASSUME IInv, NEW k \in Scans, Scan(k)
    PROVE  GrowthOK'
<1>0. k \in Tasks
  BY DEF Tasks
<1>1. CASE ScanHead(k) \/ ScanCancelled(k) \/ ApplyVerdict(k)
  <2>1. /\ UNCHANGED <<size, quiet, fileSize, stableSince, unseen>>
        /\ seen' = seen \/ seen' = [seen EXCEPT ![k] = 0]
    BY <1>1 DEF ScanHead, ScanCancelled, ApplyVerdict, Sweep, CloseScan, Forget, file, growth
  <2>2. \A t \in Tasks : seen'[t] <= size'
    BY <1>0, <2>1, ForgetKeeps DEF IInv, SizesKnown
  <2> QED BY <2>1, <2>2 DEF GrowthOK, IInv, SizesKnown, StableMeansQuiet
<1>2. CASE CheckExistingFileChanges(k)
  <2>1. /\ UNCHANGED <<size, quiet, stableSince>>
        /\ seen' = [seen EXCEPT ![k] = 0]
        /\ fileSize' = IF seen[k] = 0 THEN fileSize ELSE seen[k]
        /\ unseen' = (unseen \/ (stableSince # None /\ seen[k] > fileSize))
    BY <1>2 DEF CheckExistingFileChanges, Forget, file
  <2>2. /\ seen[k] \in Nat /\ fileSize \in Nat /\ size \in Nat
        /\ seen[k] <= size /\ fileSize <= size
    BY <1>0, SizesAssumption DEF IInv, TypeOK, SizesKnown
  <2>3. fileSize' <= size'
    BY <2>1, <2>2
  <2>4. ASSUME stableSince' # None, ~unseen', fileSize' = size'
        PROVE  quiet' >= stableSince'
    <3>1. ~unseen /\ ~(seen[k] > fileSize)
      BY <2>1, <2>4
    <3>2. fileSize = size
      BY <2>1, <2>2, <2>4, <3>1
    <3> QED BY <2>1, <2>4, <3>1, <3>2 DEF IInv, StableMeansQuiet
  <2> QED BY <1>0, <2>1, <2>3, <2>4, ForgetKeeps DEF GrowthOK, SizesKnown, StableMeansQuiet
<1>3. CASE UpdateFileGrowthInfo(k)
  <2>1. UNCHANGED <<size, quiet>> /\ seen' = [seen EXCEPT ![k] = 0]
    BY <1>3 DEF UpdateFileGrowthInfo, Forget, file
  <2>2. CASE UNCHANGED growth
    BY <1>0, <2>1, <2>2, ForgetKeeps
       DEF GrowthOK, IInv, SizesKnown, StableMeansQuiet, growth
  <2>3. CASE seen[k] > 0 /\ Record(seen[k])
    BY <1>0, <2>1, <2>3, RecordKeeps, ForgetKeeps DEF GrowthOK, SizesKnown
  <2> QED BY <1>3, <2>2, <2>3 DEF UpdateFileGrowthInfo
<1>4. CASE ScanJudge(k)
  <2>1. /\ UNCHANGED <<size, quiet>> /\ seen' = [seen EXCEPT ![k] = 0]
        /\ \E s \in Status : Concludes(k, s)
    BY <1>4 DEF ScanJudge, file
  <2> QED BY <1>0, <2>1, ConcludesKeeps, ForgetKeeps DEF GrowthOK, SizesKnown
<1>5. CASE Stat(k)
  BY <1>0, <1>5, StatGrowth
<1> QED BY <1>1, <1>2, <1>3, <1>4, <1>5 DEF Scan

LEMMA MonitorGrowth ==
    ASSUME IInv, NEW j \in Loops, Monitor(j)
    PROVE  GrowthOK'
<1>0. j \in Tasks
  BY DEF Tasks
<1>1. CASE ListWatched(j) \/ CheckGrowth(j)
  BY <1>1 DEF ListWatched, CheckGrowth, GrowthOK, IInv, SizesKnown, StableMeansQuiet, file, growth
<1>2. CASE LoopJudge(j)
  <2>1. /\ UNCHANGED <<size, quiet>> /\ seen' = [seen EXCEPT ![j] = 0]
        /\ \E s \in Status : Concludes(j, s)
    BY <1>2 DEF LoopJudge, Forget, file
  <2> QED BY <1>0, <2>1, ConcludesKeeps, ForgetKeeps DEF GrowthOK, SizesKnown
<1>3. CASE Stat(j)
  BY <1>0, <1>3, StatGrowth
<1> QED BY <1>1, <1>2, <1>3 DEF Monitor

LEMMA CycleGrowth ==
    ASSUME IInv, StartScanning \/ StopScanning \/ \E k \in Scans : StopEnds(k)
    PROVE  GrowthOK'
<1>1. UNCHANGED <<size, quiet, fileSize, stableSince, unseen>>
  BY DEF StartScanning, StopScanning, StopEnds, file, growth
<1>2. seen' = seen \/ \E k \in Tasks : seen' = [seen EXCEPT ![k] = 0]
  BY DEF StartScanning, StopScanning, StopEnds, Alive, Forget, Tasks, tasks
<1>3. \A t \in Tasks : seen'[t] <= size'
  BY <1>1, <1>2, ForgetKeeps DEF IInv, SizesKnown
<1> QED BY <1>1, <1>3 DEF GrowthOK, IInv, SizesKnown, StableMeansQuiet

\* The file grows past what is recorded; everything ages alike.
LEMMA WorldGrowth ==
    ASSUME IInv,
           Grow \/ Vanish \/ Tick \/ HandleFileReady \/ Reactivate \/ UNCHANGED vars
    PROVE  GrowthOK'
<1>0. /\ fileSize \in Nat /\ size \in Nat /\ quiet \in Ages /\ fileSize <= size
      /\ stableSince \in Ages \cup {None}
      /\ \A t \in Tasks : seen[t] \in Nat /\ seen[t] <= size
  BY SizesAssumption DEF IInv, TypeOK, SizesKnown
<1>1. CASE Grow
  <2>1. size' = size + 1 /\ UNCHANGED <<fileSize, seen>>
    BY <1>1 DEF Grow, growth, tasks
  <2>2. SizesKnown' /\ fileSize' # size'
    BY <1>0, <2>1 DEF SizesKnown
  <2> QED BY <2>2 DEF GrowthOK, StableMeansQuiet
<1>2. CASE Vanish
  <2>1. quiet' = GrowthTimeout /\ UNCHANGED <<size, fileSize, stableSince, seen>>
    BY <1>2 DEF Vanish, growth, tasks
  <2>2. stableSince' # None => quiet' >= stableSince'
    BY <1>0, <2>1, SizesAssumption DEF Ages
  <2> QED BY <2>1, <2>2 DEF GrowthOK, IInv, SizesKnown, StableMeansQuiet
<1>3. CASE Tick
  <2>1. /\ quiet' = Older(quiet)
        /\ stableSince' = IF stableSince = None THEN None ELSE Older(stableSince)
        /\ UNCHANGED <<size, fileSize, unseen, seen>>
    BY <1>3 DEF Tick, tasks
  <2>2. ASSUME stableSince # None, quiet >= stableSince
        PROVE  Older(quiet) >= Older(stableSince)
    BY <1>0, <2>2, SizesAssumption DEF Older, Ages
  <2>3. StableMeansQuiet'
    BY <2>1, <2>2 DEF IInv, StableMeansQuiet
  <2> QED BY <2>1, <2>3 DEF GrowthOK, IInv, SizesKnown
<1>4. CASE HandleFileReady \/ Reactivate \/ UNCHANGED vars
  BY <1>4 DEF HandleFileReady, Reactivate, Becomes, GrowthOK, IInv, SizesKnown,
              StableMeansQuiet, vars, file, growth, tasks
<1> QED BY <1>1, <1>2, <1>3, <1>4

LEMMA NextGrowth ==
    ASSUME IInv, [Next]_vars
    PROVE  GrowthOK'
BY ScanGrowth, MonitorGrowth, CycleGrowth, WorldGrowth DEF Next

-----------------------------------------------------------------------------
(* The theorems.                                                           *)

LEMMA InitIInv == Init => IInv
<1> SUFFICES ASSUME Init
             PROVE  IInv
  OBVIOUS
<1>1. size \in 0..MaxSize /\ size \in Nat /\ 0 \in Ages /\ 0 \in 0..MaxSize
  BY SizesAssumption DEF Init, Ages
<1>2. TypeOK
  BY <1>1, StatusFacts DEF Init, TypeOK, ScanPhases, LoopPhases, Tasks
<1>3. SizesKnown
  BY <1>1 DEF Init, SizesKnown
<1>4. VerdictsKept /\ CancelsAwaited
  BY DEF Init, VerdictsKept, CancelsAwaited, Tasks
<1> QED BY <1>2, <1>3, <1>4 DEF Init, IInv, StableMeansQuiet, ToldTheTruth

LEMMA NextIInv == IInv /\ [Next]_vars => IInv'
BY NextType, NextCycle, NextGrowth DEF IInv, GrowthOK

\* The invariant holds of every behaviour of scanner and monitor.
THEOREM Inductive == Spec => []IInv
BY InitIInv, NextIInv, PTL DEF Spec

\* Every variable keeps its type: no age, size or verdict leaves its range.
THEOREM TypeCorrect == Spec => []TypeOK
<1>1. IInv => TypeOK
  BY DEF IInv
<1> QED BY <1>1, Inductive, PTL

\* growth_stable_since is not older than the last growth, but for the growth
\* that the scanner stored without a check.
THEOREM StabilityIsTrue == Spec => []StableMeansQuiet
<1>1. IInv => StableMeansQuiet
  BY DEF IInv
<1> QED BY <1>1, Inductive, PTL

\* What the users were told of the scanner is true once no stop is under way,
\* however pauses and resumes overlap.
THEOREM ToldIsTrue == Spec => []ToldTheTruth
<1>1. IInv => ToldTheTruth
  BY DEF IInv
<1> QED BY <1>1, Inductive, PTL

\* A verdict READY comes from a check that waited for the timeout, and the
\* time it waited was true.
LEMMA ReadyWaited ==
    ASSUME IInv, NEW k \in Tasks, Concludes(k, "READY")
    PROVE  quiet >= GrowthTimeout \/ unseen' \/ fileSize' < size
<1>1. /\ seen[k] \in Nat /\ fileSize \in Nat /\ size \in Nat /\ quiet \in Nat
      /\ GrowthTimeout \in Nat /\ seen[k] <= size /\ fileSize <= size
      /\ stableSince \in Nat \cup {None}
  BY SizesAssumption DEF IInv, TypeOK, SizesKnown, Ages
<1>2. /\ Record(seen[k])
      /\ Decide(seen[k], seen[k] > fileSize, seen[k] > firstSeen,
                IF stableSince = None THEN 0 ELSE stableSince) = "READY"
  BY DEF Concludes
<1>3. /\ ~(seen[k] > fileSize)
      /\ ~((IF stableSince = None THEN 0 ELSE stableSince) < GrowthTimeout)
  BY <1>2 DEF Decide
<1>4. CASE stableSince = None
  BY <1>1, <1>3, <1>4
<1>5. CASE stableSince # None /\ ~unseen' /\ ~(fileSize' < size)
  <2>1. fileSize' = seen[k]
    BY <1>2 DEF Record
  <2>2. fileSize = size
    BY <1>1, <1>3, <1>5, <2>1
  <2>3. ~unseen
    <3>1. seen[k] <= fileSize
      BY <1>1, <1>3
    <3> QED BY <1>2, <1>5, <3>1, Zenon DEF Record
  <2>4. quiet >= stableSince
    BY <1>5, <2>2, <2>3 DEF IInv, StableMeansQuiet
  <2> QED BY <1>1, <1>3, <1>5, <2>4
<1> QED BY <1>4, <1>5

\* Only its own check gives a scan a verdict.
LEMMA OwnScanVerdict ==
    ASSUME IInv, [Next]_vars, NEW k \in Scans, pc[k] = "judge", verdict'[k] = "READY"
    PROVE  Concludes(k, "READY")
<1>1. k \in Tasks /\ verdict[k] = None /\ None # "READY"
  BY NoneAssumption, StatusFacts DEF IInv, VerdictsKept, Tasks
<1>2. CASE ScanJudge(k)
  BY <1>1, <1>2 DEF ScanJudge, IInv, TypeOK
<1>3. CASE \E t \in Scans : Scan(t) /\ ~(t = k /\ ScanJudge(k))
  <2>1. PICK t \in Scans : Scan(t) /\ ~(t = k /\ ScanJudge(k))
    BY <1>3
  <2>2. CASE t = k
    <3>1. Stat(k) => FALSE
      BY DEF Stat
    <3> QED BY <1>1, <2>1, <2>2, <3>1 DEF Scan, ScanHead, ScanCancelled,
               CheckExistingFileChanges, UpdateFileGrowthInfo, ApplyVerdict
  <2>3. CASE t # k
    BY <1>1, <2>1, <2>3 DEF Scan, ScanHead, ScanCancelled, Sweep, CloseScan, ScanJudge,
       CheckExistingFileChanges, UpdateFileGrowthInfo, ApplyVerdict, Stat, Forget, IInv, TypeOK
  <2> QED BY <2>2, <2>3
<1>4. CASE \E j \in Loops : Monitor(j)
  BY <1>1, <1>4, MonitorLeavesScans
<1>5. CASE StartScanning \/ StopScanning \/ \E t \in Scans : StopEnds(t)
  <2>1. verdict' = verdict \/ \E t \in Scans : verdict' = [verdict EXCEPT ![t] = None]
    BY <1>5 DEF StartScanning, StopScanning, StopEnds, Alive, Forget, tasks
  <2> QED BY <1>1, <2>1 DEF IInv, TypeOK
<1>6. CASE verdict' = verdict
  BY <1>1, <1>6
<1> QED BY <1>2, <1>3, <1>4, <1>5, <1>6
           DEF Next, Grow, Vanish, Tick, HandleFileReady, Reactivate, Becomes, vars, tasks

\* Only its own check moves a loop on.
LEMMA OwnLoopVerdict ==
    ASSUME IInv, [Next]_vars, NEW j \in Loops, pc[j] = "judge", pc'[j] = "watch",
           status' = "READY"
    PROVE  Concludes(j, "READY")
<1>1. j \in Tasks /\ j \notin Scans
  BY TasksAssumption DEF Tasks
<1>2. CASE LoopJudge(j)
  BY <1>2 DEF LoopJudge
<1>3. CASE \E i \in Loops : Monitor(i) /\ ~(i = j /\ LoopJudge(j))
  <2>1. PICK i \in Loops : Monitor(i) /\ ~(i = j /\ LoopJudge(j))
    BY <1>3
  <2>2. CASE i = j
    <3>1. Stat(j) => FALSE
      BY DEF Stat
    <3> QED BY <2>1, <2>2, <3>1 DEF Monitor, ListWatched, CheckGrowth
  <2>3. CASE i # j
    BY <1>1, <2>1, <2>3 DEF Monitor, ListWatched, CheckGrowth, LoopJudge, Stat, Go, IInv, TypeOK
  <2> QED BY <2>2, <2>3
<1>4. CASE \E k \in Scans : Scan(k)
  <2>1. \E k \in Scans, there \in ScanPhases : pc' = [pc EXCEPT ![k] = there]
    <3>1. PICK k \in Scans : Scan(k)
      BY <1>4
    <3>2. \E there \in ScanPhases : Go(k, there)
      BY <3>1 DEF Scan, ScanHead, Sweep, ScanCancelled, CloseScan, CheckExistingFileChanges,
             UpdateFileGrowthInfo, ScanJudge, ApplyVerdict, Stat, ScanPhases
    <3> QED BY <3>2 DEF Go
  <2> QED BY <1>1, <2>1 DEF IInv, TypeOK
<1>5. CASE StartScanning
  BY <1>1, <1>5 DEF StartScanning, IInv, TypeOK
<1>6. CASE StopScanning \/ \E k \in Scans : StopEnds(k)
  BY <1>1, <1>6 DEF StopScanning, StopEnds, Alive, Go, IInv, TypeOK, tasks
<1>7. CASE pc' = pc
  BY <1>7
<1> QED BY <1>2, <1>3, <1>4, <1>5, <1>6, <1>7
           DEF Next, Grow, Vanish, Tick, HandleFileReady, Reactivate, Becomes, vars, tasks

\* A check finds a file READY only if it was quiet for the whole timeout, if
\* it is larger than the check was told, or if growth was stored unchecked.
THEOREM ReadyIsQuiet == Spec => ReadyMeansQuiet
<1>1. ASSUME IInv, [Next]_vars
      PROVE  \A k \in Tasks :
                FoundReady(k) => quiet >= GrowthTimeout \/ unseen' \/ fileSize' < size
  <2> SUFFICES ASSUME NEW k \in Tasks, FoundReady(k)
               PROVE  quiet >= GrowthTimeout \/ unseen' \/ fileSize' < size
    OBVIOUS
  <2>1. Concludes(k, "READY")
    BY <1>1, OwnScanVerdict, OwnLoopVerdict DEF FoundReady
  <2> QED BY <1>1, <2>1, ReadyWaited
<1> QED BY <1>1, Inductive, PTL DEF Spec, ReadyMeansQuiet
=============================================================================
