------------------------- MODULE GrowingCopyProofs -------------------------
(***************************************************************************)
(* Proofs about GrowingCopy, for any number of sources, workers and paths, *)
(* any names, sizes, chunks, margins and timeouts.  They assume nothing of *)
(* writers, names or jobs: the causes of a loss are recorded by the module *)
(* (resumed, contested), and the theorems say that there is no other.      *)
(***************************************************************************)
EXTENDS GrowingCopy, TLAPS

LEMMA InitInv == Init => TypeOK /\ IInv
<1> SUFFICES ASSUME Init PROVE TypeOK /\ IInv
  OBVIOUS
<1> USE SizesAssumption DEF Init
<1>1. TypeOK
  BY DEF TypeOK, Blocks, Phases, Busy
<1>2. ContestIsSeen
  BY DEF ContestIsSeen, Busy
<1>3. CopyRuns
  BY DEF CopyRuns, Opened
<1>4. DisposedRests
  BY DEF DisposedRests
<1>5. NoFutureBlock
  BY DEF NoFutureBlock
<1> QED
  BY <1>1, <1>2, <1>3, <1>4, <1>5 DEF IInv

-----------------------------------------------------------------------------
(* Type correctness, action by action.                                     *)

LEMMA TypePrepare ==
    ASSUME TypeOK, NEW w \in Workers, NEW s \in Sources, Prepare(w, s)
    PROVE  TypeOK'
<1> USE CandidatesAssumption DEF Prepare, source, destination, progress
<1>1. \A n \in 1..MaxTries : Candidates[s][n] \in Paths
  OBVIOUS
<1>2. dst' \in [Workers -> Paths \cup {None}] /\ dst'[w] \in Paths
  BY <1>1 DEF TypeOK
<1>3. contested' \subseteq Paths
  BY <1>2 DEF TypeOK, Contended, Busy
<1>4. \A v \in Workers : v # w => dst'[v] = dst[v] /\ job'[v] = job[v] /\ pc'[v] = pc[v]
  BY DEF TypeOK, Go
<1> QED
  BY <1>2, <1>3, <1>4 DEF TypeOK, Busy, Go, Phases

LEMMA TypeBegin == ASSUME TypeOK, NEW w \in Workers, Begin(w) PROVE TypeOK'
BY DEF TypeOK, Begin, Busy, Go, Phases, source, destination, progress

LEMMA TypeWait == ASSUME TypeOK, NEW w \in Workers, Wait(w) PROVE TypeOK'
BY DEF TypeOK, Wait, Busy, Go, Phases, source, destination, progress, history

LEMMA TypeOpen == ASSUME TypeOK, NEW w \in Workers, Open(w) PROVE TypeOK'
BY SizesAssumption DEF TypeOK, Open, Busy, Go, Phases, source

LEMMA TypePoll == ASSUME TypeOK, CopyRuns, NEW w \in Workers, Poll(w) PROVE TypeOK'
BY SizesAssumption DEF TypeOK, CopyRuns, StaysBehind, Opened, Poll, Calm, Goal, Busy, Go, Phases,
   source, destination

LEMMA TypePollFails == ASSUME TypeOK, NEW w \in Workers, PollFails(w) PROVE TypeOK'
BY DEF TypeOK, PollFails, Busy, Go, Phases, source, destination, progress, history

LEMMA TypeChunk == ASSUME TypeOK, NEW w \in Workers, Chunk(w) PROVE TypeOK'
BY SizesAssumption DEF TypeOK, Chunk, Busy, Go, Phases, source, history

LEMMA TypeAsk == ASSUME TypeOK, NEW w \in Workers, AskSourceSize(w) PROVE TypeOK'
BY DEF TypeOK, AskSourceSize, Busy, Go, Phases, source, destination, history

LEMMA TypeAgreed ==
    ASSUME TypeOK, NEW w \in Workers, pc[w] # "idle", Agreed(w), UNCHANGED <<source, disposed, destination>>
    PROVE  TypeOK'
BY DEF TypeOK, Agreed, Busy, Go, Phases, source, destination, progress, history

LEMMA TypeGrow == ASSUME TypeOK, NEW s \in Sources, Grow(s) PROVE TypeOK'
BY SizesAssumption DEF TypeOK, Grow, Busy, destination, progress

LEMMA TypeVanish == ASSUME TypeOK, NEW s \in Sources, Vanish(s) PROVE TypeOK'
BY DEF TypeOK, Vanish, Busy, destination, progress, history

\* Workers that leave.
LEMMA TypeLeave ==
    ASSUME TypeOK, NEW W \in SUBSET Workers, Leave(W), UNCHANGED <<written, destination>>,
           here' \in [Sources -> BOOLEAN], disposed' \subseteq Sources
    PROVE  TypeOK'
<1>1. \A v \in Workers :
         /\ v \in W => pc'[v] = "idle"
         /\ v \notin W => pc'[v] = pc[v] /\ job'[v] = job[v] /\ dst'[v] = dst[v]
  BY DEF Leave, Blank
<1>2. /\ pc' \in [Workers -> Phases]
      /\ job' \in [Workers -> Sources \cup {None}]
      /\ dst' \in [Workers -> Paths \cup {None}]
  BY DEF TypeOK, Leave, Blank, Phases
<1>3. /\ copied' \in [Workers -> 0..MaxSize]
      /\ seen' \in [Workers -> 0..MaxSize]
      /\ upTo' \in [Workers -> 0..MaxSize]
      /\ last' \in [Workers -> 0..MaxSize]
  BY SizesAssumption DEF TypeOK, Leave, Blank
<1>4. quiet' \in [Workers -> 0..MaxQuiet]
  BY SizesAssumption DEF TypeOK, Leave, Blank
<1>5. full' \in [Workers -> BOOLEAN] /\ sure' \in [Workers -> BOOLEAN]
  <2>1. full' = Blank(full, W, FALSE) /\ sure' = Blank(sure, W, FALSE)
    BY DEF Leave
  <2>2. \A f \in [Workers -> BOOLEAN] : Blank(f, W, FALSE) \in [Workers -> BOOLEAN]
    BY Zenon DEF Blank
  <2> QED
    BY <2>1, <2>2 DEF TypeOK
<1>6. \A v \in Workers : Busy(v)' => job'[v] \in Sources /\ dst'[v] \in Paths
  BY <1>1 DEF TypeOK, Busy
<1> QED
  BY <1>2, <1>3, <1>4, <1>5, <1>6 DEF TypeOK, Leave, destination

-----------------------------------------------------------------------------
(* The invariant, action by action.                                        *)

\* What a step of a copy in between leaves as it is.
LEMMA SeenKept ==
    ASSUME IInv, UNCHANGED <<created, job, dst, contested>>,
           \A v \in Workers :
              /\ Busy(v)' => Busy(v)
              /\ pc'[v] \in {"begin", "wait", "open"} => pc[v] \in {"begin", "wait", "open"}
    PROVE  ContestIsSeen'
BY DEF IInv, ContestIsSeen, Busy

LEMMA RestsKept ==
    ASSUME IInv, UNCHANGED <<written, disposed, destination, dst, resumed, contested>>,
           \A v \in Workers : Busy(v)' => Busy(v)
    PROVE  DisposedRests'
BY DEF IInv, DisposedRests, Doubtful, Holds, destination

\* The parts that speak of running copies survive those that leave.
LEMMA LeaveRuns ==
    ASSUME IInv, NEW W \in SUBSET Workers, Leave(W), UNCHANGED <<written, destination>>
    PROVE  ContestIsSeen' /\ CopyRuns' /\ NoFutureBlock'
<1> USE DEF destination
<1>1. \A v \in Workers :
         /\ v \in W => pc'[v] = "idle"
         /\ v \notin W =>
               /\ pc'[v] = pc[v] /\ job'[v] = job[v] /\ dst'[v] = dst[v] /\ copied'[v] = copied[v]
               /\ seen'[v] = seen[v] /\ upTo'[v] = upTo[v] /\ quiet'[v] = quiet[v]
               /\ full'[v] = full[v] /\ sure'[v] = sure[v]
  BY DEF Leave, Blank
<1>2. UNCHANGED <<resumed, contested>>
  BY DEF Leave
<1>3. ContestIsSeen'
  BY <1>1, <1>2 DEF IInv, ContestIsSeen, Busy
<1>4. CopyRuns'
  BY <1>1, <1>2 DEF IInv, CopyRuns, IsPrefix, StaysBehind, IsWhole, Live, Opened
<1>5. NoFutureBlock'
  BY DEF IInv, NoFutureBlock
<1> QED
  BY <1>3, <1>4, <1>5

LEMMA LeaveInv ==
    ASSUME IInv, NEW W \in SUBSET Workers, Leave(W), UNCHANGED <<source, disposed, destination>>
    PROVE  IInv'
<1>1. DisposedRests'
  <2>1. \A v \in Workers : Busy(v)' => Busy(v) /\ dst'[v] = dst[v]
    BY DEF Leave, Blank, Busy
  <2> QED
    BY <2>1 DEF IInv, DisposedRests, Doubtful, Holds, Leave, source, destination
<1> QED
  BY <1>1, LeaveRuns DEF IInv, source

LEMMA StepPrepare ==
    ASSUME TypeOK, IInv, NEW w \in Workers, NEW s \in Sources, Prepare(w, s)
    PROVE  IInv'
<1> USE SizesAssumption DEF Prepare, source, destination, progress
<1>0. /\ dst'[w] \in PathsOf(s) /\ dst'[w] \notin created /\ job'[w] = s
      /\ pc'[w] = "begin" /\ ~Busy(w) /\ contested \subseteq contested'
      /\ \A v \in Workers : v # w => pc'[v] = pc[v] /\ job'[v] = job[v] /\ dst'[v] = dst[v]
      /\ \A v \in Workers : v # w /\ Busy(v) /\ dst[v] = dst'[w] => dst'[w] \in contested'
  <2>1. PICK n \in 1..MaxTries : Candidates[s][n] \notin created /\ dst' = [dst EXCEPT ![w] = Candidates[s][n]]
    OBVIOUS
  <2> QED
    BY <2>1 DEF TypeOK, Go, PathsOf, Contended
<1>1. ContestIsSeen'
  BY <1>0 DEF IInv, ContestIsSeen, Busy
<1>2. CopyRuns'
  BY <1>0 DEF IInv, CopyRuns, IsPrefix, StaysBehind, IsWhole, Live, Opened
<1>3. DisposedRests'
  <2> SUFFICES ASSUME NEW t \in disposed \ Doubtful
               PROVE  \E d \in created : Holds(d, t) /\ \A v \in Workers : Busy(v)' => dst'[v] # d
    BY <1>0 DEF DisposedRests, Doubtful, Holds
  <2>1. PICK d \in created : Holds(d, t) /\ \A v \in Workers : Busy(v) => dst[v] # d
    BY DEF IInv, DisposedRests
  <2> QED
    BY <1>0, <2>1 DEF Busy
<1>4. NoFutureBlock'
  BY DEF IInv, NoFutureBlock, TypeOK
<1> QED
  BY <1>1, <1>2, <1>3, <1>4 DEF IInv

LEMMA StepBegin ==
    ASSUME TypeOK, IInv, NEW w \in Workers, Begin(w)
    PROVE  IInv'
<1> USE SizesAssumption DEF Begin, source, destination, progress
<1>0. \A v \in Workers :
         /\ Busy(v)' => Busy(v)
         /\ pc'[v] \in {"begin", "wait", "open"} => pc[v] \in {"begin", "wait", "open"}
  BY DEF TypeOK, Busy, Go
<1>1. ContestIsSeen'
  BY <1>0, SeenKept
<1>2. CopyRuns'
  BY DEF IInv, CopyRuns, IsPrefix, StaysBehind, IsWhole, Live, Opened, TypeOK, Busy, Go
<1>3. DisposedRests'
  BY <1>0, RestsKept
<1>4. NoFutureBlock'
  BY DEF IInv, NoFutureBlock, TypeOK
<1> QED
  BY <1>1, <1>2, <1>3, <1>4 DEF IInv

LEMMA StepWait ==
    ASSUME TypeOK, IInv, NEW w \in Workers, Wait(w)
    PROVE  IInv'
<1> USE SizesAssumption DEF Wait, source, destination, progress, history
<1>0. \A v \in Workers :
         /\ Busy(v)' => Busy(v)
         /\ pc'[v] \in {"begin", "wait", "open"} => pc[v] \in {"begin", "wait", "open"}
  BY DEF TypeOK, Busy, Go
<1>1. ContestIsSeen'
  BY <1>0, SeenKept
<1>2. CopyRuns'
  BY DEF IInv, CopyRuns, IsPrefix, StaysBehind, IsWhole, Live, Opened, TypeOK, Busy, Go
<1>3. DisposedRests'
  BY <1>0, RestsKept
<1>4. NoFutureBlock'
  BY DEF IInv, NoFutureBlock, TypeOK
<1> QED
  BY <1>1, <1>2, <1>3, <1>4 DEF IInv

LEMMA StepOpen ==
    ASSUME TypeOK, IInv, NEW w \in Workers, Open(w)
    PROVE  IInv'
<1> USE SizesAssumption DEF Open, source
<1> DEFINE d == dst[w]
<1>0. /\ Busy(w) /\ Busy(w)' /\ d \in Paths /\ job[w] \in Sources
      /\ \A v \in Workers \ {w} : Busy(v) /\ dst[v] = d => d \in contested
      /\ \A v \in Workers : Busy(v)' => Busy(v)
      /\ \A v \in Workers \ {w} : pc'[v] = pc[v]
      /\ d \in PathsOf(job[w])
  BY DEF IInv, TypeOK, ContestIsSeen, Busy, Go
<1>1. ContestIsSeen'
  BY <1>0 DEF IInv, ContestIsSeen, TypeOK, Busy, Go
<1>2. CopyRuns'
  <2>1. ASSUME NEW v \in Workers, v # w
        PROVE  /\ pc'[v] = pc[v]
               /\ Busy(v) /\ dst[v] \notin contested =>
                     size'[dst[v]] = size[dst[v]] /\ content'[dst[v]] = content[dst[v]]
    BY <1>0, <2>1 DEF TypeOK, Busy
  <2>2. ASSUME NEW v \in Workers, v # w, pc[v] \in Opened
        PROVE  IsPrefix(v)' /\ StaysBehind(v)'
    BY <1>0, <2>1, <2>2 DEF IInv, CopyRuns, IsPrefix, StaysBehind, Live, Opened, TypeOK, Busy
  <2>3. pc'[w] \in Opened /\ IsPrefix(w)' /\ StaysBehind(w)'
    BY <1>0 DEF IInv, CopyRuns, IsPrefix, StaysBehind, Live, Opened, TypeOK, Busy, Go, Blocks
  <2> QED
    BY <1>0, <2>1, <2>2, <2>3 DEF IInv, CopyRuns, IsWhole, Live, Opened, TypeOK, Busy, Go
<1>3. DisposedRests'
  <2> SUFFICES ASSUME NEW t \in disposed \ Doubtful
               PROVE  \E e \in created' : Holds(e, t)' /\ \A v \in Workers : Busy(v)' => dst[v] # e
    BY DEF DisposedRests, Doubtful
  <2>1. PICK e \in created : Holds(e, t) /\ \A v \in Workers : Busy(v) => dst[v] # e
    BY DEF IInv, DisposedRests
  <2>2. e # d /\ e \in Paths /\ e \in created'
    BY <1>0, <2>1 DEF TypeOK
  <2>3. size'[e] = size[e] /\ content'[e] = content[e]
    BY <2>2 DEF TypeOK
  <2> QED
    BY <1>0, <2>1, <2>2, <2>3 DEF Holds
<1>4. NoFutureBlock'
  BY <1>0 DEF IInv, NoFutureBlock, TypeOK
<1> QED
  BY <1>1, <1>2, <1>3, <1>4 DEF IInv

LEMMA StepPoll ==
    ASSUME TypeOK, IInv, NEW w \in Workers, Poll(w)
    PROVE  IInv'
<1> USE SizesAssumption DEF Poll, Calm, Goal, source, destination
<1>0. \A v \in Workers :
         /\ Busy(v)' => Busy(v)
         /\ pc'[v] \in {"begin", "wait", "open"} => pc[v] \in {"begin", "wait", "open"}
  BY DEF TypeOK, Busy, Go
<1>1. ContestIsSeen'
  BY <1>0, SeenKept
<1>2. CopyRuns'
  BY DEF IInv, CopyRuns, IsPrefix, StaysBehind, IsWhole, Live, Opened, TypeOK, Busy, Go
<1>3. DisposedRests'
  BY <1>0, RestsKept
<1>4. NoFutureBlock'
  BY DEF IInv, NoFutureBlock, TypeOK
<1> QED
  BY <1>1, <1>2, <1>3, <1>4 DEF IInv

LEMMA StepPollFails ==
    ASSUME TypeOK, IInv, NEW w \in Workers, PollFails(w)
    PROVE  IInv'
<1> USE SizesAssumption DEF PollFails, source, destination, progress, history
<1>0. \A v \in Workers :
         /\ Busy(v)' => Busy(v)
         /\ pc'[v] \in {"begin", "wait", "open"} => pc[v] \in {"begin", "wait", "open"}
  BY DEF TypeOK, Busy, Go
<1>1. ContestIsSeen'
  BY <1>0, SeenKept
<1>2. CopyRuns'
  BY DEF IInv, CopyRuns, IsPrefix, StaysBehind, IsWhole, Live, Opened, TypeOK, Busy, Go
<1>3. DisposedRests'
  BY <1>0, RestsKept
<1>4. NoFutureBlock'
  BY DEF IInv, NoFutureBlock, TypeOK
<1> QED
  BY <1>1, <1>2, <1>3, <1>4 DEF IInv

LEMMA StepChunk ==
    ASSUME TypeOK, IInv, NEW w \in Workers, Chunk(w)
    PROVE  IInv'
<1> USE SizesAssumption DEF Chunk, source, history
<1> DEFINE d == dst[w]
<1>0. /\ Busy(w) /\ Busy(w)' /\ d \in Paths /\ job[w] \in Sources
      /\ \A v \in Workers \ {w} : Busy(v) /\ dst[v] = d => d \in contested
      /\ \A v \in Workers : Busy(v)' => Busy(v)
      /\ \A v \in Workers \ {w} : pc'[v] = pc[v]
      /\ d \in PathsOf(job[w])
  BY DEF IInv, TypeOK, ContestIsSeen, Busy, Go
<1>1. ContestIsSeen'
  BY <1>0 DEF IInv, ContestIsSeen, TypeOK, Busy, Go
<1>2. CopyRuns'
  <2>1. ASSUME NEW v \in Workers, v # w
        PROVE  /\ pc'[v] = pc[v]
               /\ Busy(v) /\ dst[v] \notin contested =>
                     size'[dst[v]] = size[dst[v]] /\ content'[dst[v]] = content[dst[v]]
    BY <1>0, <2>1 DEF TypeOK, Busy
  <2>2. ASSUME NEW v \in Workers, v # w, pc[v] \in Opened
        PROVE  IsPrefix(v)' /\ StaysBehind(v)'
    BY <1>0, <2>1, <2>2 DEF IInv, CopyRuns, IsPrefix, StaysBehind, Live, Opened, TypeOK, Busy
  <2>3. pc'[w] \in Opened /\ IsPrefix(w)' /\ StaysBehind(w)'
    BY <1>0 DEF IInv, CopyRuns, IsPrefix, StaysBehind, Live, Opened, TypeOK, Busy, Go, Blocks
  <2> QED
    BY <1>0, <2>1, <2>2, <2>3 DEF IInv, CopyRuns, IsWhole, Live, Opened, TypeOK, Busy, Go
<1>3. DisposedRests'
  <2> SUFFICES ASSUME NEW t \in disposed \ Doubtful
               PROVE  \E e \in created' : Holds(e, t)' /\ \A v \in Workers : Busy(v)' => dst[v] # e
    BY DEF DisposedRests, Doubtful
  <2>1. PICK e \in created : Holds(e, t) /\ \A v \in Workers : Busy(v) => dst[v] # e
    BY DEF IInv, DisposedRests
  <2>2. e # d /\ e \in Paths /\ e \in created'
    BY <1>0, <2>1 DEF TypeOK
  <2>3. size'[e] = size[e] /\ content'[e] = content[e]
    BY <2>2 DEF TypeOK
  <2> QED
    BY <1>0, <2>1, <2>2, <2>3 DEF Holds
<1>4. NoFutureBlock'
  <2> SUFFICES ASSUME NEW e \in Paths, NEW b \in Blocks, content'[e][b] # None
               PROVE  b <= written[content'[e][b]]
    BY DEF NoFutureBlock
  <2>1. CASE content'[e][b] = content[e][b]
    BY <2>1 DEF IInv, NoFutureBlock
  <2>2. CASE content'[e][b] # content[e][b]
    <3>1. content'[e][b] = job[w] /\ b <= upTo[w]
      BY <1>0, <2>2 DEF IInv, TypeOK, CopyRuns, Blocks
    <3>2. upTo[w] <= written[job[w]] /\ upTo[w] \in Nat /\ written[job[w]] \in Nat /\ b \in Nat
      BY <1>0 DEF IInv, TypeOK, CopyRuns, Blocks
    <3> QED
      BY <3>1, <3>2
  <2> QED
    BY <2>1, <2>2
<1> QED
  BY <1>1, <1>2, <1>3, <1>4 DEF IInv

LEMMA StepAsk ==
    ASSUME TypeOK, IInv, NEW w \in Workers, AskSourceSize(w)
    PROVE  IInv'
<1> USE SizesAssumption DEF AskSourceSize, source, destination, history
<1>0. \A v \in Workers :
         /\ Busy(v)' => Busy(v)
         /\ pc'[v] \in {"begin", "wait", "open"} => pc[v] \in {"begin", "wait", "open"}
  BY DEF TypeOK, Busy, Go
<1>1. ContestIsSeen'
  BY <1>0, SeenKept
<1>2. CopyRuns'
  BY DEF IInv, CopyRuns, IsPrefix, StaysBehind, IsWhole, Live, Opened, TypeOK, Busy, Go
<1>3. DisposedRests'
  BY <1>0, RestsKept
<1>4. NoFutureBlock'
  BY DEF IInv, NoFutureBlock, TypeOK
<1> QED
  BY <1>1, <1>2, <1>3, <1>4 DEF IInv

LEMMA StepCompare ==
    ASSUME TypeOK, IInv, NEW w \in Workers, Compare(w)
    PROVE  IInv'
<1>1. CASE Leave({w})
  BY <1>1, LeaveInv DEF Compare
<1>2. CASE size[dst[w]] = seen[w] /\ Agreed(w)
  <2> USE <1>2 DEF Compare, Agreed, source, destination, progress, history
  <2>0. \A v \in Workers :
           /\ Busy(v)' => Busy(v)
           /\ pc'[v] \in {"begin", "wait", "open"} => pc[v] \in {"begin", "wait", "open"}
    BY DEF TypeOK, Busy, Go
  <2>1. ContestIsSeen'
    BY <2>0, SeenKept
  <2>2. CopyRuns'
    BY DEF IInv, CopyRuns, IsPrefix, StaysBehind, IsWhole, Live, Opened, TypeOK, Busy, Go
  <2>3. DisposedRests'
    BY <2>0, RestsKept
  <2>4. NoFutureBlock'
    BY DEF IInv, NoFutureBlock
  <2> QED
    BY <2>1, <2>2, <2>3, <2>4 DEF IInv
<1> QED
  BY <1>1, <1>2 DEF Compare

\* Where a source may be removed, its copy holds all of it and is nobody
\* else's, if the source is not doubtful.
LEMMA WholeRests ==
    ASSUME TypeOK, IInv, NEW w \in Workers, pc[w] = "remove", job[w] \notin Doubtful
    PROVE  /\ dst[w] \in created /\ Holds(dst[w], job[w])
           /\ \A v \in Workers : v # w /\ Busy(v) => dst[v] # dst[w]
<1>1. Busy(w) /\ job[w] \in Sources /\ dst[w] \in Paths
  BY DEF TypeOK, Busy
<1>2. dst[w] \in PathsOf(job[w]) /\ dst[w] \notin contested /\ job[w] \notin resumed
  BY <1>1 DEF IInv, ContestIsSeen, Doubtful
<1>3. IsPrefix(w) /\ IsWhole(w)
  BY <1>2 DEF IInv, CopyRuns, Opened
<1>4. dst[w] \in created /\ Holds(dst[w], job[w])
  BY <1>1, <1>2, <1>3 DEF IsPrefix, IsWhole, Holds
<1>5. \A v \in Workers : v # w /\ Busy(v) => dst[v] # dst[w]
  BY <1>1, <1>2 DEF IInv, ContestIsSeen
<1> QED
  BY <1>4, <1>5

LEMMA StepRemove ==
    ASSUME TypeOK, IInv, NEW w \in Workers, Remove(w)
    PROVE  IInv'
<1>1. ContestIsSeen' /\ CopyRuns' /\ NoFutureBlock'
  BY LeaveRuns DEF Remove
<1>2. DisposedRests'
  <2>1. \A v \in Workers : Busy(v)' => Busy(v) /\ dst'[v] = dst[v] /\ v # w
    BY DEF Remove, Leave, Blank, Busy
  <2>2. Doubtful' = Doubtful
    BY DEF Remove, Leave, Doubtful
  <2> SUFFICES ASSUME NEW t \in disposed' \ Doubtful
               PROVE  \E d \in created : Holds(d, t) /\ \A v \in Workers : Busy(v)' => dst'[v] # d
    BY <2>2 DEF DisposedRests, Holds, Remove, destination
  <2>3. CASE t \in disposed
    BY <2>1, <2>3 DEF IInv, DisposedRests
  <2>4. CASE t = job[w]
    BY <2>1, <2>4, WholeRests DEF Remove
  <2> QED
    BY <2>3, <2>4 DEF Remove
<1> QED
  BY <1>1, <1>2 DEF IInv

LEMMA StepGiveUp == ASSUME IInv, NEW w \in Workers, GiveUp(w) PROVE IInv'
BY LeaveInv DEF GiveUp

LEMMA StepMiss ==
    ASSUME TypeOK, IInv, NEW w \in Workers, Miss(w)
    PROVE  IInv'
<1>1. CASE Leave({w})
  BY <1>1, LeaveInv DEF Miss
<1>2. CASE pc[w] = "poll" /\ Go(w, "verify") /\ UNCHANGED <<job, dst, progress, history>>
  <2> USE <1>2 DEF Miss, source, destination, progress, history
  <2>0. \A v \in Workers :
           /\ Busy(v)' => Busy(v)
           /\ pc'[v] \in {"begin", "wait", "open"} => pc[v] \in {"begin", "wait", "open"}
    BY DEF TypeOK, Busy, Go
  <2>1. ContestIsSeen'
    BY <2>0, SeenKept
  <2>2. CopyRuns'
    BY DEF IInv, CopyRuns, IsPrefix, StaysBehind, IsWhole, Live, Opened, TypeOK, Busy, Go
  <2>3. DisposedRests'
    BY <2>0, RestsKept
  <2>4. NoFutureBlock'
    BY DEF IInv, NoFutureBlock
  <2> QED
    BY <2>1, <2>2, <2>3, <2>4 DEF IInv
<1> QED
  BY <1>1, <1>2 DEF Miss

LEMMA StepRestart == ASSUME IInv, Restart PROVE IInv'
BY LeaveInv DEF Restart

LEMMA StepGrow ==
    ASSUME TypeOK, IInv, NEW s \in Sources, Grow(s)
    PROVE  IInv'
<1> USE SizesAssumption DEF Grow, destination, progress
<1>0. /\ written'[s] = written[s] + 1 /\ written[s] \in Nat
      /\ \A t \in Sources : t # s => written'[t] = written[t]
      /\ resumed \subseteq resumed' /\ UNCHANGED contested
      /\ s \in disposed => s \in resumed'
      /\ \A v \in Workers : Busy(v) /\ job[v] = s /\ sure[v] => s \in resumed'
  BY DEF TypeOK
<1>1. ContestIsSeen'
  BY DEF IInv, ContestIsSeen, Busy
<1>2. CopyRuns'
  <2>1. \A v \in Workers :
           Busy(v) => job[v] \in Sources /\ written[job[v]] \in Nat /\ copied[v] \in Nat /\ upTo[v] \in Nat
    BY DEF TypeOK
  <2> QED
    BY <1>0, <2>1 DEF IInv, CopyRuns, IsPrefix, StaysBehind, IsWhole, Live, Opened, Busy
<1>3. DisposedRests'
  <2> SUFFICES ASSUME NEW t \in disposed, t \notin Doubtful'
               PROVE  \E d \in created : Holds(d, t)' /\ \A v \in Workers : Busy(v) => dst[v] # d
    BY DEF DisposedRests, Busy
  <2>1. t \in Sources /\ t # s /\ t \notin Doubtful
    BY <1>0 DEF TypeOK, Doubtful
  <2>2. PICK d \in created : Holds(d, t) /\ \A v \in Workers : Busy(v) => dst[v] # d
    BY <2>1 DEF IInv, DisposedRests
  <2> QED
    BY <1>0, <2>1, <2>2 DEF Holds
<1>4. NoFutureBlock'
  <2> SUFFICES ASSUME NEW d \in Paths, NEW b \in Blocks, content[d][b] # None
               PROVE  b <= written'[content[d][b]]
    BY DEF NoFutureBlock
  <2>1. b <= written[content[d][b]] /\ content[d][b] \in Sources
    BY DEF IInv, NoFutureBlock, TypeOK
  <2>2. \A t \in Sources : written[t] \in Nat /\ written'[t] \in {written[t], written[t] + 1}
    BY DEF TypeOK
  <2> QED
    BY <2>1, <2>2 DEF Blocks
<1> QED
  BY <1>1, <1>2, <1>3, <1>4 DEF IInv

LEMMA StepVanish ==
    ASSUME TypeOK, IInv, NEW s \in Sources, Vanish(s)
    PROVE  IInv'
<1> USE SizesAssumption DEF Vanish, destination, progress, history
<1>0. \A v \in Workers :
         /\ Busy(v)' => Busy(v)
         /\ pc'[v] \in {"begin", "wait", "open"} => pc[v] \in {"begin", "wait", "open"}
  BY DEF TypeOK, Busy, Go
<1>1. ContestIsSeen'
  BY <1>0, SeenKept
<1>2. CopyRuns'
  BY DEF IInv, CopyRuns, IsPrefix, StaysBehind, IsWhole, Live, Opened, TypeOK, Busy, Go
<1>3. DisposedRests'
  BY <1>0, RestsKept
<1>4. NoFutureBlock'
  BY DEF IInv, NoFutureBlock, TypeOK
<1> QED
  BY <1>1, <1>2, <1>3, <1>4 DEF IInv

-----------------------------------------------------------------------------
(* The theorems.                                                           *)

LEMMA TypeStep == ASSUME TypeOK, IInv, [Next]_vars PROVE TypeOK'
<1>1. CASE \E w \in Workers : Step(w) \/ PollFails(w) \/ GiveUp(w)
  <2>1. PICK w \in Workers : Step(w) \/ PollFails(w) \/ GiveUp(w)
    BY <1>1
  <2>2. CASE Leave({w}) /\ UNCHANGED <<source, disposed, destination>>
    BY <2>2, TypeLeave DEF TypeOK, source
  <2>3. CASE Remove(w)
    <3>1. job[w] \in Sources
      BY <2>3 DEF Remove, TypeOK, Busy
    <3> QED
      BY <2>3, <3>1, TypeLeave DEF Remove, TypeOK
  <2>4. CASE Compare(w) \/ Miss(w) \/ GiveUp(w)
    <3>1. Busy(w)
      BY <2>4 DEF Compare, Miss, GiveUp, MayFail, Busy
    <3>2. CASE Agreed(w)
      BY <2>4, <3>1, <3>2, TypeAgreed DEF Compare, Miss, GiveUp, Busy, Agreed, Leave
    <3>3. CASE pc[w] = "poll" /\ Go(w, "verify") /\ UNCHANGED <<source, disposed, destination, job, dst, progress, history>>
      BY <3>3 DEF TypeOK, Busy, Go, Phases, source, destination, progress, history
    <3> QED
      BY <2>2, <2>4, <3>2, <3>3 DEF Compare, Miss, GiveUp
  <2> QED
    BY <2>1, <2>3, <2>4, TypeBegin, TypeWait, TypeOpen, TypePoll, TypePollFails, TypeChunk, TypeAsk DEF Step, IInv
<1>2. CASE \E w \in Workers, s \in Sources : Prepare(w, s)
  BY <1>2, TypePrepare
<1>3. CASE \E s \in Sources : Grow(s) \/ Vanish(s)
  BY <1>3, TypeGrow, TypeVanish
<1>4. CASE Restart
  BY <1>4, TypeLeave DEF Restart, TypeOK, source
<1>5. CASE UNCHANGED vars
  BY <1>5 DEF vars, source, destination, progress, history, TypeOK, Busy
<1> QED
  BY <1>1, <1>2, <1>3, <1>4, <1>5 DEF Next

LEMMA InvStep == ASSUME TypeOK, IInv, [Next]_vars PROVE IInv'
<1>1. CASE \E w \in Workers : Step(w) \/ PollFails(w) \/ GiveUp(w)
  BY <1>1, StepBegin, StepWait, StepOpen, StepPoll, StepChunk, StepAsk, StepCompare,
     StepRemove, StepMiss, StepPollFails, StepGiveUp DEF Step
<1>2. CASE \E w \in Workers, s \in Sources : Prepare(w, s)
  BY <1>2, StepPrepare
<1>3. CASE \E s \in Sources : Grow(s) \/ Vanish(s)
  BY <1>3, StepGrow, StepVanish
<1>4. CASE Restart
  BY <1>4, StepRestart
<1>5. CASE UNCHANGED vars
  BY <1>5 DEF vars, source, destination, progress, history, IInv, ContestIsSeen, CopyRuns, DisposedRests,
     Doubtful, NoFutureBlock, IsPrefix, StaysBehind, IsWhole, Live, Opened, Holds, Busy
<1> QED
  BY <1>1, <1>2, <1>3, <1>4, <1>5 DEF Next

(***************************************************************************)
(* The inductive invariant.                                                *)
(***************************************************************************)
THEOREM Inductive == Spec => [](TypeOK /\ IInv)
<1>1. TypeOK /\ IInv /\ [Next]_vars => TypeOK' /\ IInv'
  BY TypeStep, InvStep
<1> QED
  BY <1>1, InitInv, PTL DEF Spec

(***************************************************************************)
(* Type correctness: no size or offset leaves 0..MaxSize.                  *)
(***************************************************************************)
THEOREM TypeCorrect == Spec => []TypeOK
BY Inductive, PTL

(***************************************************************************)
(* Whatever is removed or COMPLETED is at the destination with every byte  *)
(* its owner wrote, whatever fails and whenever the agent is restarted,    *)
(* unless its owner wrote on when it was taken for finished, or two        *)
(* workers were to open one of its destinations at a time.                 *)
(***************************************************************************)
THEOREM NoLoss == Spec => []LossHasCause
<1>1. TypeOK /\ IInv => LossHasCause
  BY DEF IInv, TypeOK, DisposedRests, LossHasCause, Arrived
<1> QED
  BY <1>1, Inductive, PTL

(***************************************************************************)
(* The copy implements the promise of SafeMove.                            *)
(***************************************************************************)

\* A step that writes to a destination moves nothing out of it that counts.
LEMMA WriteTransfers ==
    ASSUME TypeOK, IInv', NEW w \in Workers, Open(w) \/ Chunk(w)
    PROVE  Promise!Transfer
<1>1. UNCHANGED <<written, here, disposed, Doubtful>>
  BY DEF Open, Chunk, source, history, Doubtful
<1>2. Arrived' \in SUBSET Sources
  BY DEF Arrived
<1>3. disposed \ Arrived' \subseteq Doubtful
  BY <1>1 DEF IInv, TypeOK, DisposedRests, Arrived
<1> QED
  BY <1>1, <1>2, <1>3 DEF Promise!Transfer

LEMMA GrowGrows ==
    ASSUME TypeOK, IInv, NEW s \in Sources, Grow(s)
    PROVE  Promise!Grow(s)
<1>1. Doubtful' \in {Doubtful, Doubtful \cup {s}} /\ (s \in disposed => s \in Doubtful')
  BY DEF Grow, Doubtful
<1>2. ASSUME NEW d \in created PROVE ~Holds(d, s)'
  <2>1. d \in Paths /\ written'[s] = written[s] + 1 /\ written'[s] \in Blocks /\ written[s] \in Nat
    BY SizesAssumption DEF Grow, TypeOK, Blocks
  <2>2. content[d][written'[s]] # s
    BY <2>1, NoneAssumption DEF IInv, NoFutureBlock
  <2> QED
    BY <2>1, <2>2 DEF Grow, destination, Holds
<1>3. ASSUME NEW t \in Sources, t # s, NEW d \in created PROVE Holds(d, t)' <=> Holds(d, t)
  BY <1>3 DEF Grow, destination, TypeOK, Holds
<1>4. Arrived' = Arrived \ {s}
  BY <1>2, <1>3 DEF Arrived, Grow, destination
<1> QED
  BY <1>1, <1>4 DEF Grow, Promise!Grow

LEMMA RemoveDisposes ==
    ASSUME TypeOK, IInv, NEW w \in Workers, Remove(w)
    PROVE  job[w] \in Sources /\ Promise!Dispose(job[w])
<1>1. job[w] \in Sources
  BY DEF Remove, TypeOK, Busy
<1>2. job[w] \in Arrived \cup Doubtful
  BY <1>1, WholeRests DEF Remove, Arrived
<1>3. UNCHANGED <<written, Arrived, Doubtful>>
  BY DEF Remove, Leave, Arrived, Holds, Doubtful, destination
<1> QED
  BY <1>1, <1>2, <1>3 DEF Remove, Promise!Dispose

LEMMA PromiseStep ==
    ASSUME TypeOK, IInv, IInv', [Next]_vars
    PROVE  [Promise!Next]_Promise!moveVars
<1> USE DEF Promise!Next, Promise!moveVars
<1>1. ASSUME UNCHANGED <<written, here, disposed, destination, resumed, contested>>
      PROVE  UNCHANGED Promise!moveVars
  BY <1>1 DEF Arrived, Holds, Doubtful, destination
<1>2. ASSUME NEW w \in Workers, NEW s \in Sources, Prepare(w, s)
      PROVE  UNCHANGED Promise!moveVars \/ Promise!Doubt
  <2>1. UNCHANGED <<written, here, disposed, Arrived>> /\ resumed' = resumed /\ contested \subseteq contested'
    BY <1>2 DEF Prepare, source, destination, Arrived, Holds
  <2>2. Doubtful \subseteq Doubtful' /\ Doubtful' \in SUBSET Sources
    BY <2>1, TypePrepare, <1>2 DEF Doubtful, TypeOK
  <2> QED
    BY <2>1, <2>2 DEF Promise!Doubt
<1>3. ASSUME NEW s \in Sources, Vanish(s) PROVE Promise!Vanish(s)
  BY <1>3 DEF Vanish, Promise!Vanish, Arrived, Doubtful, Holds, destination, history
<1>4. ASSUME NEW w \in Workers,
             \/ Begin(w) \/ Wait(w) \/ Poll(w) \/ AskSourceSize(w) \/ Compare(w)
             \/ Miss(w) \/ PollFails(w) \/ GiveUp(w)
      PROVE  UNCHANGED <<written, here, disposed, destination, resumed, contested>>
  BY <1>4 DEF Begin, Wait, Poll, AskSourceSize, Compare, Agreed, Leave, Miss, PollFails, GiveUp, source, history
<1>5. CASE Restart \/ UNCHANGED vars
  BY <1>1, <1>5 DEF Restart, Leave, vars, source, history
<1>6. CASE \E w \in Workers : Step(w) \/ PollFails(w) \/ GiveUp(w)
  <2>1. PICK w \in Workers : Step(w) \/ PollFails(w) \/ GiveUp(w)
    BY <1>6
  <2>2. CASE Remove(w)
    BY <2>2, RemoveDisposes
  <2>3. CASE Open(w) \/ Chunk(w)
    BY <2>3, WriteTransfers
  <2>4. CASE ~(Remove(w) \/ Open(w) \/ Chunk(w))
    BY <1>1, <1>4, <2>1, <2>4 DEF Step
  <2> QED
    BY <2>2, <2>3, <2>4
<1>7. CASE \E s \in Sources : Grow(s) \/ Vanish(s)
  BY <1>3, <1>7, GrowGrows
<1> QED
  BY <1>2, <1>5, <1>6, <1>7 DEF Next

THEOREM KeepsPromise == Spec => PromiseKept
<1>1. Init => Promise!Init
  BY SizesAssumption DEF Init, Promise!Init, Arrived, Doubtful
<1>2. TypeOK /\ IInv /\ IInv' /\ [Next]_vars => [Promise!Next]_Promise!moveVars
  BY PromiseStep
<1> QED
  BY <1>1, <1>2, Inductive, PTL DEF Spec, PromiseKept, Promise!Spec
=============================================================================
